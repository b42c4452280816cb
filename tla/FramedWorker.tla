---------------------------- MODULE FramedWorker ----------------------------
(* decision/worker.py, _run_framed_worker: the parent of one worker process. *)
(* It starts the worker in a process group of its own, exchanges one frame   *)
(* in each direction while the budget grants seconds, then always closes the *)
(* pipes, ends the group and reaps the worker before it says how the call    *)
(* ended.  Every question to the budget is one of RequestBudget's.           *)
(*                                                                           *)
(* The environment: the monotonic clock passes at any moment or fails, the   *)
(* worker writes anything, forks and exits as it likes, system calls fail,   *)
(* and Ctrl-C (or SystemExit, or an exception nobody expects) may come at    *)
(* every step.                                                               *)
EXTENDS RequestBudget

CONSTANTS
    MaxTime,     \* bound: the last instant of the monotonic clock
    Faulty       \* readings a broken clock returns in place of the time, when it
                 \* can be told that it is broken

ASSUME WorkerAssumption ==
    /\ MaxTime \in Int
    /\ Start <= MaxTime
    /\ Start..MaxTime \subseteq Readings
    /\ \A v \in Faulty : v = NoReading \/ (v \in Readings /\ v < Start)
    /\ {"worker_timeout", "worker_aborted", "worker_cleanup_failed",
        "request_expired", "request_cancelled"} \subseteq Reasons

VARIABLES
    now,         \* the monotonic clock
    pc,          \* where the parent is
    child,       \* the worker process, its group and its pipe
    primary,     \* primary_error: its reason code, "raised" for any other exception
    closing,     \* close_error or pending_error is set
    cleanup,     \* cleanup_error is set
    outcome,     \* the reason code the call raises, "raised", or "result"
    gap,         \* history: where an exception met the parent outside its guards
    reaped       \* history: the instant at which the worker was reaped

callVars == <<vars, now, pc, child, primary, closing, cleanup, outcome, gap, reaped>>

NotReaped == Start - 1

(* leader: the worker itself; others: processes of its group besides it;     *)
(* out: what it wrote; eof: nobody holds the write end of its pipe any more. *)
Fresh(l) ==
    [leader |-> l, status |-> "none", others |-> FALSE, out |-> "nothing", eof |-> FALSE]
NoChild == Fresh("none")

Children ==
    [leader : {"none", "running", "exited", "reaped"},
     status : {"none", "zero", "positive", "signal"}, others : BOOLEAN,
     out : {"nothing", "good", "bad", "alien", "long"}, eof : BOOLEAN]

SourceErrors ==
    {"worker_launch_failed", "worker_io_failed", "worker_response_oversized",
     "worker_protocol_error", "worker_identity_mismatch", "worker_nonzero_exit"}
RequestErrors == {"request_cancelled", "request_expired", "worker_timeout"}
ReasonCodes == SourceErrors \union RequestErrors \union {"worker_cleanup_failed"}

Points ==
    {"enter", "launch", "exchange", "decode", "check", "publish", "close",
     "term", "kill", "reap", "verdict", "done"}

(* Where the lines between two guarded statements and the bodies of the      *)
(* handlers are guarded by nothing.                                          *)
Unguarded == {"close", "term", "kill", "reap", "verdict"}

CallTypeOK ==
    /\ TypeOK
    /\ now \in Start..MaxTime
    /\ pc \in Points
    /\ child \in Children
    /\ primary \in ReasonCodes \union {"none", "raised"}
    /\ closing \in BOOLEAN
    /\ cleanup \in BOOLEAN
    /\ outcome \in ReasonCodes \union {"none", "raised", "result"}
    /\ gap \in {"none", "cancel", "exchange"} \union Unguarded
    /\ reaped \in {NotReaped} \union Start..MaxTime

(* The call may be any of a request: time has passed, and an earlier one may *)
(* have cancelled it.                                                        *)
CallInit ==
    /\ now \in Start..MaxTime
    /\ last \in Start..now
    /\ \/ cancelled = FALSE /\ reason = "none"
       \/ cancelled = TRUE /\ reason = "worker_timeout"
    /\ granted = "nothing" /\ refused = FALSE
    /\ pc = "enter" /\ child = NoChild
    /\ primary = "none" /\ closing = FALSE /\ cleanup = FALSE
    /\ outcome = "none" /\ gap = "none" /\ reaped = NotReaped

-----------------------------------------------------------------------------

Readable == {now} \union Faulty

Errors == <<primary, closing, cleanup>>
Histories == <<gap, reaped>>

(* _remaining_worker_seconds, answered: the call goes on. *)
HasSeconds ==
    \E v \in Readable :
        /\ Accepts(v) /\ SecondsForWork(v) > 0
        /\ WorkerSeconds(v)

(* _remaining_worker_seconds, raising: a request cancelled before, a faulty  *)
(* clock (which has cancelled it), no seconds left (cancelled here).         *)
NoSeconds(code) ==
    \/ cancelled /\ code = "request_cancelled" /\ UNCHANGED vars
    \/ /\ ~cancelled /\ code = "worker_timeout"
       /\ \E v \in Readable :
            \/ ~Accepts(v) /\ WorkerSeconds(v)
            \/ /\ Accepts(v) /\ SecondsForWork(v) <= 0
               /\ last' = v /\ granted' = "nothing"
               /\ CancelWith("worker_timeout")
               /\ UNCHANGED refused

Publishes(v) == Accepts(v) /\ v < Deadline

(* The call ends before there is a process to care about. *)
EndEarly(code) ==
    /\ pc' = "done" /\ outcome' = code
    /\ UNCHANGED <<now, child, Errors, Histories>>

(* Into the finally part, with an error or without. *)
EndExchange(code) ==
    /\ pc' = "close" /\ primary' = code
    /\ UNCHANGED <<now, child, closing, cleanup, outcome, Histories>>

(* The first look at the budget and the encoding of the request. *)
Enter ==
    /\ pc = "enter"
    /\ \/ HasSeconds /\ pc' = "launch" /\ UNCHANGED outcome
       \/ \E code \in RequestErrors : NoSeconds(code) /\ pc' = "done" /\ outcome' = code
    /\ UNCHANGED <<now, child, Errors, Histories>>

(* The second look, then Popen, which may fail. *)
Launch ==
    /\ pc = "launch"
    /\ HasSeconds
    /\ pc' = "exchange"
    /\ child' = Fresh("running")
    /\ UNCHANGED <<now, Errors, outcome, Histories>>

LaunchRefused ==
    /\ pc = "launch"
    /\ \/ \E code \in RequestErrors : NoSeconds(code) /\ EndEarly(code)
       \/ HasSeconds /\ EndEarly("worker_launch_failed")

(* _exchange_frames: look at the budget, wait for the pipes, at most for a   *)
(* slice; the answer is complete at the end of the file.                     *)
Poll ==
    /\ pc = "exchange"
    /\ HasSeconds
    /\ \/ child.out = "long" /\ EndExchange("worker_response_oversized")
       \/ child.out # "long" /\ child.eof /\ pc' = "decode"
          /\ UNCHANGED <<now, child, Errors, outcome, Histories>>
       \/ ~child.eof /\ UNCHANGED <<now, pc, child, Errors, outcome, Histories>>
       \/ EndExchange("worker_io_failed")

CheckedAtTheEnd ==                              \* select without the deadline
    /\ pc = "check"
    /\ \E code \in RequestErrors : NoSeconds(code) /\ EndExchange(code)
OutOfSeconds ==
    /\ pc \in {"exchange", "check"}
    /\ \E code \in RequestErrors : NoSeconds(code) /\ EndExchange(code)

(* The decoder and the validator: a frame that answers another request, one  *)
(* that is no answer, one of this request.                                   *)
Decode ==
    /\ pc = "decode"
    /\ CASE child.out = "good" ->
              pc' = "check" /\ UNCHANGED <<now, child, Errors, outcome, Histories>>
         [] child.out = "alien" -> EndExchange("worker_identity_mismatch")
         [] child.out \in {"nothing", "bad", "long"} -> EndExchange("worker_protocol_error")
    /\ UNCHANGED vars

Check ==
    /\ pc = "check"
    /\ HasSeconds
    /\ pc' = "publish"
    /\ UNCHANGED <<now, child, Errors, outcome, Histories>>

(* require_publishable, before the worker is ended. *)
CheckPublishable ==
    /\ pc = "publish"
    /\ \E v \in Readable :
          /\ RequirePublishable(v)
          /\ EndExchange(IF Publishes(v) THEN "none" ELSE "request_expired")

-----------------------------------------------------------------------------

(* _global_cancel_reason: an error that concerns the request cancels it, one *)
(* of the source does not.                                                   *)
Unhandled(code) == IF code = "raised" THEN "worker_aborted" ELSE "none"
GlobalCancelReason(code) ==
    IF code = "raised" THEN "worker_aborted"
    ELSE IF code \in RequestErrors \union {"worker_cleanup_failed"} THEN code ELSE "none"

(* The pipes are closed; closing them may be interrupted, which cancels the  *)
(* request, and so may the cancellation, which then did or did not happen.   *)
ClosePipes ==
    /\ pc = "close"
    /\ \/ LET why == GlobalCancelReason(primary) IN
          /\ IF why = "none" THEN UNCHANGED vars ELSE Cancel(why)
          /\ UNCHANGED closing
       \/ Cancel("worker_aborted") /\ closing' = TRUE
       \/ UNCHANGED vars /\ closing' = TRUE
    /\ pc' = "term"
    /\ UNCHANGED <<now, child, primary, cleanup, outcome, Histories>>

(* killpg reached the group; "nobody there" and Darwin's answer for a group  *)
(* of zombies count as success and need nothing.                             *)
Dead(c) ==
    [c EXCEPT !.leader = IF @ = "running" THEN "exited" ELSE @,
              !.status = IF c.leader = "running" THEN "signal" ELSE @,
              !.others = FALSE, !.eof = TRUE]

AfterTerm(c) ==        \* a process may handle SIGTERM, or ignore it
    {c, Dead(c), [Dead(c) EXCEPT !.others = c.others, !.eof = ~c.others \/ c.eof]}

(* The two signals and the pauses after them.  A signal that cannot be sent  *)
(* and an exception on the way are remembered, and the next step is taken.   *)
Terminate ==
    /\ pc = "term"
    /\ \/ child' \in AfterTerm(child) /\ cleanup' \in {cleanup, TRUE}
       \/ UNCHANGED child /\ cleanup' = TRUE
    /\ pc' = "kill"
    /\ UNCHANGED <<vars, now, primary, closing, outcome, Histories>>

KillTheLeader ==                              \* os.kill in place of os.killpg
    /\ pc = "kill"
    /\ child' = [child EXCEPT !.leader = "exited",
                              !.status = IF child.leader = "running" THEN "signal" ELSE @]
    /\ pc' = "reap"
    /\ UNCHANGED <<vars, now, primary, closing, cleanup, outcome, Histories>>

Kill ==
    /\ pc = "kill"
    /\ \/ child' = Dead(child) /\ cleanup' \in {cleanup, TRUE}
       \/ UNCHANGED child /\ cleanup' = TRUE
    /\ pc' = "reap"
    /\ UNCHANGED <<vars, now, primary, closing, outcome, Histories>>

(* process.wait(timeout): it may run out, or be interrupted. *)
Reap ==
    /\ pc = "reap"
    /\ \/ /\ child.leader = "exited"
          /\ child' = [child EXCEPT !.leader = "reaped"]
          /\ reaped' = now
          /\ UNCHANGED cleanup
       \/ cleanup' = TRUE /\ UNCHANGED <<child, reaped>>
    /\ pc' = "verdict"
    /\ UNCHANGED <<vars, now, primary, closing, outcome, gap>>

(* What is raised: a failure to clean up before everything else, then the    *)
(* exceptions met while closing, then the error of the exchange, which the   *)
(* exit status of the worker may replace.                                    *)
Code ==
    IF child.status # "zero" /\ (primary = "none" \/
           (primary = "worker_protocol_error" /\ child.status = "positive"))
    THEN "worker_nonzero_exit" ELSE primary

Conclude(code) ==
    /\ pc' = "done" /\ outcome' = code
    /\ UNCHANGED <<now, child, Errors, reaped>>

RaiseCleanup ==
    /\ pc = "verdict" /\ cleanup
    /\ \/ Cancel("worker_cleanup_failed") /\ UNCHANGED gap
       \/ UNCHANGED vars /\ gap' = "cancel"      \* the cancellation is interrupted
    /\ Conclude("worker_cleanup_failed")

RaiseOther ==
    /\ pc = "verdict" /\ ~cleanup
    /\ closing \/ Code # "none"
    /\ Conclude(IF closing THEN "raised" ELSE Code)
    /\ UNCHANGED <<vars, gap>>

(* The last question to the budget, with the worker out of the way. *)
ReturnUnasked ==                              \* without the last require_publishable
    /\ pc = "verdict" /\ ~cleanup /\ ~closing /\ Code = "none"
    /\ Conclude("result")
    /\ UNCHANGED <<vars, gap>>
ReturnResult ==
    /\ pc = "verdict" /\ ~cleanup /\ ~closing /\ Code = "none"
    /\ \E v \in Readable :
          \/ Publishes(v) /\ RequirePublishable(v) /\ Conclude("result")
          \/ /\ ~Publishes(v)
             /\ IF Accepts(v) THEN last' = v /\ CancelWith("request_expired")
                              ELSE UNCHANGED last /\ CancelWith(ClockFault(v))
             /\ granted' = "nothing" /\ refused' = TRUE
             /\ Conclude("request_expired")
    /\ UNCHANGED gap

-----------------------------------------------------------------------------

(* An exception: before the process exists it leaves the call at once, in    *)
(* the guarded part it becomes the primary error.  The calls that clean up   *)
(* meet it themselves.                                                       *)
Raise ==
    /\ \/ pc \in {"enter", "launch"} /\ EndEarly("raised")
       \/ pc \in {"exchange", "decode", "check", "publish"} /\ EndExchange("raised")
    /\ UNCHANGED vars

(* Ctrl-C on a line that nothing guards leaves the call at once, with the    *)
(* worker as it is: between the return of Popen and the try statement; in a  *)
(* handler of the exchange or between the two try statements; between the    *)
(* calls of _finalize_process_group or in one of its handlers; after it.     *)
RaiseInGap ==
    /\ \/ pc = "exchange" /\ child = Fresh("running")
       \/ pc \in Unguarded
    /\ pc' = "done" /\ outcome' = "raised" /\ gap' = pc
    /\ UNCHANGED <<vars, now, child, Errors, reaped>>

(* The worker writes its answer or anything else, starts other processes,    *)
(* closes its pipe, exits; the others exit.                                  *)
Worker ==
    /\ \/ /\ child.leader = "running"
          /\ \/ \E o \in {"good", "bad", "alien", "long"} :
                   ~child.eof /\ child.out = "nothing" /\ child' = [child EXCEPT !.out = o]
             \/ ~child.others /\ child' = [child EXCEPT !.others = TRUE]
             \/ ~child.eof /\ child' = [child EXCEPT !.eof = TRUE]
             \/ \E s \in {"zero", "positive", "signal"} :
                   child' = [child EXCEPT !.leader = "exited", !.status = s,
                                          !.eof = @ \/ ~child.others]
       \/ /\ child.others
          /\ child' = [child EXCEPT !.others = FALSE, !.eof = @ \/ child.leader # "running"]
    /\ UNCHANGED <<vars, now, pc, Errors, outcome, Histories>>

Tick ==
    /\ now < MaxTime
    /\ now' = now + 1
    /\ UNCHANGED <<vars, pc, child, Errors, outcome, Histories>>

Parent ==
    \/ Enter \/ Launch \/ LaunchRefused
    \/ Poll \/ OutOfSeconds \/ Decode \/ Check \/ CheckPublishable
    \/ ClosePipes \/ Terminate \/ Kill \/ Reap
    \/ RaiseCleanup \/ RaiseOther \/ ReturnResult

CallNext == Parent \/ Raise \/ RaiseInGap \/ Worker \/ Tick

CallSpec == CallInit /\ [][CallNext]_callVars
FairCallSpec == CallSpec /\ WF_callVars(Parent) /\ WF_callVars(Tick)

-----------------------------------------------------------------------------

(* When the call has ended, neither the worker nor a process it started in   *)
(* its group is left, unless the caller is told that the clean-up failed:    *)
(* _finalize_process_group follows every guarded path out of the exchange,   *)
(* and says so when one of its calls fails or is interrupted.  The exception *)
(* is Ctrl-C on an unguarded line, from the return of Popen on: before the   *)
(* group was sent SIGKILL anything may be left, after it no process runs and *)
(* at most the worker remains to be reaped, and once that is done nothing is *)
(* left, unless a failure of the clean-up was about to be reported.          *)
NothingLeftBehind ==
    pc = "done" =>
        \/ child.leader \in {"none", "reaped"} /\ ~child.others
        \/ outcome = "worker_cleanup_failed"
        \/ gap \in {"exchange", "close", "term", "kill"}
        \/ gap = "reap" /\ (cleanup \/ (child.leader = "exited" /\ ~child.others))
        \/ gap = "verdict" /\ cleanup

(* A result is handed out only if the budget was asked after the worker had  *)
(* been reaped and said yes: the time it takes to end a stubborn worker      *)
(* counts.                                                                   *)
ResultAfterReap ==
    outcome = "result" =>
        /\ reaped # NotReaped
        /\ reaped <= last
        /\ last < Deadline
        /\ child.out = "good" /\ child.status = "zero"

(* How the call looks to its caller. An exception that interrupts the last   *)
(* cancellation is swallowed, and promises no more than one that is raised.  *)
WorkerState ==
    IF child.leader = "none" THEN "none"
    ELSE IF child.leader = "reaped" /\ ~child.others THEN "stopped" ELSE "running"
Verdict ==
    CASE outcome = "none" -> "pending"
      [] outcome \in SourceErrors -> "source_failed"
      [] outcome \in RequestErrors -> "request_over"
      [] outcome = "worker_cleanup_failed" /\ gap = "none" -> "unclean"
      [] outcome = "worker_cleanup_failed" /\ gap # "none" -> "raised"
      [] outcome \in {"raised", "result"} -> outcome

Call == INSTANCE WorkerCall WITH worker <- WorkerState, verdict <- Verdict

(* The call implements WorkerCall: FundDisclosureService decides by          *)
(* budget.cancelled alone whether a WorkerExecutionError concerns one source *)
(* or the request, so the errors of a source must leave the budget alone and *)
(* the others must cancel it.                                                *)
ImplementsWorkerCall == Call!Spec

(* A call ends, whatever the worker does: no wait is longer than the budget. *)
CallEnds == <>(pc = "done")
=============================================================================
