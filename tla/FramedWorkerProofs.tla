------------------------ MODULE FramedWorkerProofs ------------------------
(* Proofs about FramedWorker, for every length of the lifetime, every clock  *)
(* and every worker.                                                         *)
EXTENDS FramedWorker, TLAPS

(* Where the parent is determines what it knows. *)
Before == {"enter", "launch"}
Exchanging == {"exchange", "decode", "check", "publish"}
Cleaning == {"term", "kill", "reap", "verdict"}

PathInv ==
    /\ pc # "done" <=> outcome = "none"
    /\ pc \in Before => child = NoChild
    /\ pc \notin Before \union {"done"} => child.leader # "none"
    /\ child.leader = "none" => ~child.others
    /\ pc \in Before \union Exchanging => primary = "none" /\ ~closing /\ ~cleanup
    /\ gap # "none" => outcome \in {"raised", "worker_cleanup_failed"}

(* What has been done about the worker, step by step, unless it failed. *)
CleanInv ==
    /\ pc = "reap" /\ ~cleanup => child.leader # "running" /\ ~child.others
    /\ pc = "verdict" /\ ~cleanup =>
          child.leader = "reaped" /\ ~child.others /\ reaped # NotReaped
    /\ pc # "done" => outcome # "result"

(* An exchange without an error has a good answer. *)
AnswerInv ==
    /\ pc \in {"check", "publish"} => child.out = "good"
    /\ pc \in {"close"} \union Cleaning /\ primary = "none" => child.out = "good"

(* The request is cancelled exactly for the errors that concern it. *)
Own == SourceErrors \union {"none"}
CancelInv ==
    /\ pc \in Exchanging => ~cancelled
    /\ pc = "close" /\ primary \in Own => ~cancelled
    /\ pc \in Cleaning /\ ~closing /\ primary \in Own => ~cancelled
    /\ pc \in Cleaning /\ ~closing /\ primary \in RequestErrors => cancelled
    /\ primary # "worker_cleanup_failed"

ClockInv == Start <= last /\ reaped <= now

CallInv ==
    /\ CallTypeOK /\ ClockInv /\ PathInv /\ CleanInv /\ AnswerInv /\ CancelInv
    /\ NothingLeftBehind /\ ResultAfterReap

-----------------------------------------------------------------------------

(* What the parts of an action do to the budget. *)

LEMMA Granted ==
  ASSUME CallInv, HasSeconds
  PROVE  TypeOK' /\ Start <= last' /\ ~cancelled /\ ~cancelled'
  BY BudgetAssumption, WorkerAssumption
  DEF CallInv, CallTypeOK, ClockInv, HasSeconds, Readable, WorkerSeconds, Accepts,
      SecondsForWork, Deadline, TypeOK, AllReasons, Answers

LEMMA Denied ==
  ASSUME CallInv, NEW code \in RequestErrors, NoSeconds(code)
  PROVE  TypeOK' /\ Start <= last' /\ cancelled'
<1> USE DEF CallInv, CallTypeOK, ClockInv, TypeOK, Answers
<1>1. CASE cancelled
  BY <1>1 DEF NoSeconds, vars
<1>2. ASSUME ~cancelled, NEW v \in Readable, ~Accepts(v), WorkerSeconds(v)
      PROVE  TypeOK' /\ Start <= last' /\ cancelled'
  BY <1>2 DEF WorkerSeconds, CancelWith, ClockFault, AllReasons
<1>3. ASSUME NEW v \in Readable, Accepts(v), last' = v, granted' = "nothing",
             CancelWith("worker_timeout"), UNCHANGED refused
      PROVE  TypeOK' /\ Start <= last' /\ cancelled'
  <2>1. v \in Int /\ v >= last
    BY <1>3, BudgetAssumption, WorkerAssumption DEF Readable, Accepts
  <2>2. reason' \in AllReasons
    BY <1>3, WorkerAssumption DEF CancelWith, AllReasons
  <2> QED
    BY <1>3, <2>1, <2>2, BudgetAssumption DEF CancelWith
<1> QED
  BY <1>1, <1>2, <1>3 DEF NoSeconds

LEMMA Cancelled ==
  ASSUME CallInv, NEW why \in Reasons, Cancel(why)
  PROVE  TypeOK' /\ last' = last /\ cancelled'
  BY DEF CallInv, CallTypeOK, Cancel, CancelWith, TypeOK, AllReasons, Answers

(* A reading with which the budget lets a result be published is the time. *)
LEMMA PublishesNow ==
  ASSUME CallInv, NEW v \in Readable, Publishes(v)
  PROVE  v = now
  BY BudgetAssumption, WorkerAssumption
  DEF CallInv, CallTypeOK, ClockInv, TypeOK, Readable, Publishes, Accepts

LEMMA Asked ==
  ASSUME CallInv, NEW v \in Readable, RequirePublishable(v)
  PROVE  /\ TypeOK' /\ Start <= last' /\ ~cancelled
         /\ Publishes(v) => ~cancelled' /\ last' = v
<1> USE DEF CallInv, CallTypeOK, ClockInv, TypeOK, Answers
<1>1. CASE ~Accepts(v)
  BY <1>1 DEF RequirePublishable, Publishes, CancelWith, ClockFault, AllReasons
<1>2. CASE Accepts(v)
  <2>1. v \in Int /\ v >= last
    BY <1>2, BudgetAssumption, WorkerAssumption DEF Readable, Accepts
  <2> QED
    BY <1>2, <2>1, BudgetAssumption DEF RequirePublishable
<1> QED
  BY <1>1, <1>2

-----------------------------------------------------------------------------

LEMMA InitCallInv == CallInit => CallInv
<1> SUFFICES ASSUME CallInit
             PROVE  CallInv
  OBVIOUS
<1>1. CallTypeOK /\ ClockInv
  <2>0. now \in Int /\ last \in Int /\ Start <= last /\ reaped <= now /\ reaped = Start - 1
    BY BudgetAssumption, WorkerAssumption DEF CallInit, NotReaped
  <2>4. reason \in AllReasons /\ cancelled \in BOOLEAN
    BY WorkerAssumption DEF CallInit, AllReasons
  <2>5. granted \in Answers /\ refused \in BOOLEAN
    BY DEF CallInit, Answers
  <2>1. TypeOK
    BY <2>0, <2>4, <2>5 DEF TypeOK
  <2>2. child \in Children
    BY DEF CallInit, NoChild, Fresh, Children
  <2>3. now \in Start..MaxTime /\ pc \in Points /\ reaped \in {NotReaped} \union Start..MaxTime
    BY DEF CallInit, Points
  <2>6. /\ primary \in ReasonCodes \union {"none", "raised"}
        /\ closing \in BOOLEAN /\ cleanup \in BOOLEAN
        /\ outcome \in ReasonCodes \union {"none", "raised", "result"}
        /\ gap \in {"none", "cancel", "exchange"} \union Unguarded
    BY DEF CallInit
  <2> QED
    BY <2>0, <2>1, <2>2, <2>3, <2>6 DEF CallTypeOK, ClockInv
<1>2. PathInv /\ CleanInv /\ AnswerInv
  BY DEF CallInit, PathInv, CleanInv, AnswerInv, Before, Exchanging, Cleaning, NoChild, Fresh
<1>3. CancelInv
  BY DEF CallInit, CancelInv, Exchanging, Cleaning
<1>4. NothingLeftBehind /\ ResultAfterReap
  BY DEF CallInit, NothingLeftBehind, ResultAfterReap
<1> QED
  BY <1>1, <1>2, <1>3, <1>4 DEF CallInv

(* Every step of the parent, of the worker and of the clock preserves it.    *)

LEMMA EnterStep == ASSUME CallInv, Enter PROVE CallInv'
<1>1. CASE HasSeconds /\ pc' = "launch" /\ UNCHANGED outcome
  BY <1>1, Granted DEF CallInv, CallTypeOK, TypeOK, ClockInv, PathInv, CleanInv, AnswerInv, CancelInv,
      NothingLeftBehind, ResultAfterReap,
      Points, Before, Exchanging, Cleaning, Own, ReasonCodes,
      SourceErrors, RequestErrors, NotReaped, Errors, Histories, Enter, NoChild, Fresh, Children
<1>2. ASSUME NEW code \in RequestErrors, NoSeconds(code), pc' = "done", outcome' = code
      PROVE  CallInv'
  BY <1>2, Denied DEF CallInv, CallTypeOK, TypeOK, ClockInv, PathInv, CleanInv, AnswerInv, CancelInv,
      NothingLeftBehind, ResultAfterReap,
      Points, Before, Exchanging, Cleaning, Own, ReasonCodes,
      SourceErrors, RequestErrors, NotReaped, Errors, Histories, Enter, NoChild, Fresh, Children
<1> QED
  BY <1>1, <1>2 DEF Enter

LEMMA LaunchStep == ASSUME CallInv, Launch PROVE CallInv'
  BY Granted DEF CallInv, CallTypeOK, TypeOK, ClockInv, PathInv, CleanInv, AnswerInv, CancelInv,
      NothingLeftBehind, ResultAfterReap,
      Points, Before, Exchanging, Cleaning, Own, ReasonCodes,
      SourceErrors, RequestErrors, NotReaped, Errors, Histories, Launch, NoChild, Fresh, Children

LEMMA LaunchRefusedStep == ASSUME CallInv, LaunchRefused PROVE CallInv'
<1>1. ASSUME NEW code \in RequestErrors, NoSeconds(code), EndEarly(code)
      PROVE  CallInv'
  BY <1>1, Denied DEF CallInv, CallTypeOK, TypeOK, ClockInv, PathInv, CleanInv, AnswerInv, CancelInv,
      NothingLeftBehind, ResultAfterReap,
      Points, Before, Exchanging, Cleaning, Own, ReasonCodes,
      SourceErrors, RequestErrors, NotReaped, Errors, Histories, EndEarly, LaunchRefused, NoChild, Fresh, Children
<1>2. CASE HasSeconds /\ EndEarly("worker_launch_failed")
  BY <1>2, Granted DEF CallInv, CallTypeOK, TypeOK, ClockInv, PathInv, CleanInv, AnswerInv, CancelInv,
      NothingLeftBehind, ResultAfterReap,
      Points, Before, Exchanging, Cleaning, Own, ReasonCodes,
      SourceErrors, RequestErrors, NotReaped, Errors, Histories, EndEarly, LaunchRefused, NoChild, Fresh, Children
<1> QED
  BY <1>1, <1>2 DEF LaunchRefused

(* The exchange ends with an error that fits the state of the request. *)
LEMMA EndExchangeStep ==
  ASSUME CallInv, pc \in Exchanging, NEW code \in Own \union RequestErrors \union {"raised"},
         EndExchange(code), TypeOK', Start <= last',
         code = "none" => pc = "publish",
         code \in Own => ~cancelled'
  PROVE  CallInv'
  BY DEF CallInv, CallTypeOK, TypeOK, ClockInv, PathInv, CleanInv, AnswerInv, CancelInv,
      NothingLeftBehind, ResultAfterReap,
      Points, Before, Exchanging, Cleaning, Own, ReasonCodes,
      SourceErrors, RequestErrors, NotReaped, Errors, Histories, EndExchange

LEMMA PollStep == ASSUME CallInv, Poll PROVE CallInv'
<1>0. pc \in Exchanging /\ TypeOK' /\ Start <= last' /\ ~cancelled /\ ~cancelled'
  BY Granted DEF Poll, Exchanging
<1>1. ASSUME NEW code \in SourceErrors, EndExchange(code)
      PROVE  CallInv'
  BY <1>0, <1>1, EndExchangeStep DEF Own, SourceErrors
<1>2. CASE pc' \in {"exchange", "decode"} /\ UNCHANGED <<now, child, Errors, outcome, Histories>>
  BY <1>0, <1>2 DEF CallInv, CallTypeOK, TypeOK, ClockInv, PathInv, CleanInv, AnswerInv, CancelInv,
      NothingLeftBehind, ResultAfterReap,
      Points, Before, Exchanging, Cleaning, Own, ReasonCodes,
      SourceErrors, RequestErrors, NotReaped, Errors, Histories
<1> QED
  BY <1>1, <1>2 DEF Poll, SourceErrors

LEMMA OutOfSecondsStep == ASSUME CallInv, OutOfSeconds PROVE CallInv'
<1> PICK code \in RequestErrors : NoSeconds(code) /\ EndExchange(code)
  BY DEF OutOfSeconds
<1>1. code \notin Own
  BY DEF Own, SourceErrors, RequestErrors
<1> QED
  BY <1>1, Denied, EndExchangeStep DEF OutOfSeconds, Exchanging, Own

LEMMA DecodeStep == ASSUME CallInv, Decode PROVE CallInv'
<1>1. CASE child.out = "good"
  BY <1>1 DEF CallInv, CallTypeOK, TypeOK, ClockInv, PathInv, CleanInv, AnswerInv, CancelInv,
      NothingLeftBehind, ResultAfterReap,
      Points, Before, Exchanging, Cleaning, Own, ReasonCodes,
      SourceErrors, RequestErrors, NotReaped, Errors, Histories, Decode, vars
<1>2. ASSUME NEW code \in SourceErrors, EndExchange(code), UNCHANGED vars, pc = "decode"
      PROVE  CallInv'
  BY <1>2, EndExchangeStep
  DEF CallInv, CallTypeOK, TypeOK, ClockInv, CancelInv, vars, Own, SourceErrors, Exchanging
<1> QED
  BY <1>1, <1>2 DEF Decode, SourceErrors, CallInv, CallTypeOK, Children

LEMMA CheckStep == ASSUME CallInv, Check PROVE CallInv'
  BY Granted DEF CallInv, CallTypeOK, TypeOK, ClockInv, PathInv, CleanInv, AnswerInv, CancelInv,
      NothingLeftBehind, ResultAfterReap,
      Points, Before, Exchanging, Cleaning, Own, ReasonCodes,
      SourceErrors, RequestErrors, NotReaped, Errors, Histories, Check

LEMMA CheckPublishableStep == ASSUME CallInv, CheckPublishable PROVE CallInv'
<1> PICK v \in Readable :
         RequirePublishable(v) /\ EndExchange(IF Publishes(v) THEN "none" ELSE "request_expired")
  BY DEF CheckPublishable
<1>1. pc = "publish" /\ pc \in Exchanging
  BY DEF CheckPublishable, Exchanging
<1>2. CASE Publishes(v)
  BY <1>1, <1>2, Asked, EndExchangeStep DEF Own
<1>3. CASE ~Publishes(v)
  BY <1>1, <1>3, Asked, EndExchangeStep DEF Own, RequestErrors, SourceErrors
<1> QED
  BY <1>2, <1>3

(* The clean-up. *)
LEMMA CodesCancel ==
  ASSUME CallInv
  PROVE  /\ primary \in Own => GlobalCancelReason(primary) = "none"
         /\ primary \notin Own => GlobalCancelReason(primary) \in Reasons \ {"none"}
  BY WorkerAssumption
  DEF CallInv, CallTypeOK, CancelInv, GlobalCancelReason, Own, ReasonCodes, SourceErrors,
      RequestErrors

LEMMA ClosePipesStep == ASSUME CallInv, ClosePipes PROVE CallInv'
<1>0. TypeOK' /\ last' = last /\ (cancelled => cancelled')
  BY Cancelled, CodesCancel, WorkerAssumption
  DEF ClosePipes, vars, CallInv, CallTypeOK, TypeOK, Cancel, CancelWith
<1>1. ~closing' => (primary \in Own => ~cancelled') /\ (primary \in RequestErrors => cancelled')
  BY CodesCancel
  DEF ClosePipes, CallInv, CallTypeOK, CancelInv, vars, Cancel, CancelWith, Own, SourceErrors,
      RequestErrors
<1>2. /\ pc = "close" /\ pc' = "term" /\ closing' \in BOOLEAN
      /\ UNCHANGED <<now, child, primary, cleanup, outcome, Histories>>
  BY DEF ClosePipes, CallInv, CallTypeOK
<1> QED
  BY <1>0, <1>1, <1>2 DEF CallInv, CallTypeOK, TypeOK, ClockInv, PathInv, CleanInv, AnswerInv, CancelInv,
      NothingLeftBehind, ResultAfterReap,
      Points, Before, Exchanging, Cleaning, Own, ReasonCodes,
      SourceErrors, RequestErrors, NotReaped, Errors, Histories

(* What a signal leaves of the group. *)
LEMMA DeadIsDead ==
  ASSUME NEW c \in Children
  PROVE  /\ Dead(c) \in Children /\ Dead(c).out = c.out /\ ~Dead(c).others
         /\ Dead(c).leader = IF c.leader = "running" THEN "exited" ELSE c.leader
  BY DEF Children, Dead

LEMMA AfterTermIsLess ==
  ASSUME NEW c \in Children, NEW d \in AfterTerm(c)
  PROVE  /\ d \in Children /\ d.out = c.out /\ (d.others => c.others)
         /\ d.leader = "none" <=> c.leader = "none"
<1>1. CASE d \in {c, Dead(c)}
  BY <1>1, DeadIsDead
<1>2. CASE d = [Dead(c) EXCEPT !.others = c.others, !.eof = ~c.others \/ c.eof]
  BY <1>2, DeadIsDead DEF Children
<1> QED
  BY <1>1, <1>2 DEF AfterTerm

LEMMA TerminateStep == ASSUME CallInv, Terminate PROVE CallInv'
<1>1. /\ child' \in Children /\ child'.out = child.out /\ (child'.others => child.others)
      /\ child'.leader = "none" <=> child.leader = "none"
  BY AfterTermIsLess DEF Terminate, CallInv, CallTypeOK
<1>2. cleanup' \in BOOLEAN
  BY DEF Terminate, CallInv, CallTypeOK
<1>3. UNCHANGED <<vars, now, primary, closing, outcome, Histories>> /\ pc = "term" /\ pc' = "kill"
  BY DEF Terminate
<1> QED
  BY <1>1, <1>2, <1>3 DEF CallInv, CallTypeOK, TypeOK, ClockInv, PathInv, CleanInv, AnswerInv, CancelInv,
      NothingLeftBehind, ResultAfterReap,
      Points, Before, Exchanging, Cleaning, Own, ReasonCodes,
      SourceErrors, RequestErrors, NotReaped, Errors, Histories, vars

LEMMA KillStep == ASSUME CallInv, Kill PROVE CallInv'
<1>1. /\ child' \in Children /\ child'.out = child.out /\ (child'.others => child.others)
      /\ child'.leader = "none" <=> child.leader = "none"
      /\ ~cleanup' => child'.leader # "running" /\ ~child'.others
  BY DeadIsDead DEF Kill, CallInv, CallTypeOK
<1>2. cleanup' \in BOOLEAN
  BY DEF Kill, CallInv, CallTypeOK
<1>3. UNCHANGED <<vars, now, primary, closing, outcome, Histories>> /\ pc = "kill" /\ pc' = "reap"
  BY DEF Kill
<1> QED
  BY <1>1, <1>2, <1>3 DEF CallInv, CallTypeOK, TypeOK, ClockInv, PathInv, CleanInv, AnswerInv, CancelInv,
      NothingLeftBehind, ResultAfterReap,
      Points, Before, Exchanging, Cleaning, Own, ReasonCodes,
      SourceErrors, RequestErrors, NotReaped, Errors, Histories, vars

LEMMA ReapStep == ASSUME CallInv, Reap PROVE CallInv'
<1>1. CASE /\ child.leader = "exited"
           /\ child' = [child EXCEPT !.leader = "reaped"]
           /\ reaped' = now
           /\ UNCHANGED cleanup
  <2>1. /\ child' \in Children /\ child'.out = child.out /\ child'.others = child.others
        /\ child'.leader = "reaped"
    BY <1>1 DEF CallInv, CallTypeOK, Children
  <2>2. /\ now \in Start..MaxTime /\ reaped' # NotReaped
        /\ reaped' <= now' /\ reaped' \in {NotReaped} \union Start..MaxTime
    BY <1>1, BudgetAssumption, WorkerAssumption DEF Reap, NotReaped, CallInv, CallTypeOK
  <2> QED
    BY <1>1, <2>1, <2>2 DEF CallInv, CallTypeOK, TypeOK, ClockInv, PathInv, CleanInv, AnswerInv, CancelInv,
      NothingLeftBehind, ResultAfterReap,
      Points, Before, Exchanging, Cleaning, Own, ReasonCodes,
      SourceErrors, RequestErrors, NotReaped, Errors, Histories, Reap, vars
<1>2. CASE cleanup' = TRUE /\ UNCHANGED <<child, reaped>>
  BY <1>2 DEF CallInv, CallTypeOK, TypeOK, ClockInv, PathInv, CleanInv, AnswerInv, CancelInv,
      NothingLeftBehind, ResultAfterReap,
      Points, Before, Exchanging, Cleaning, Own, ReasonCodes,
      SourceErrors, RequestErrors, NotReaped, Errors, Histories, Reap, vars
<1> QED
  BY <1>1, <1>2 DEF Reap

LEMMA RaiseCleanupStep == ASSUME CallInv, RaiseCleanup PROVE CallInv'
<1>0. TypeOK' /\ last' = last
  BY Cancelled, WorkerAssumption DEF RaiseCleanup, vars, CallInv, CallTypeOK, TypeOK
<1> QED
  BY <1>0 DEF CallInv, CallTypeOK, TypeOK, ClockInv, PathInv, CleanInv, AnswerInv, CancelInv,
      NothingLeftBehind, ResultAfterReap,
      Points, Before, Exchanging, Cleaning, Own, ReasonCodes,
      SourceErrors, RequestErrors, NotReaped, Errors, Histories, RaiseCleanup, Conclude

LEMMA RaiseOtherStep == ASSUME CallInv, RaiseOther PROVE CallInv'
  BY DEF CallInv, CallTypeOK, TypeOK, ClockInv, PathInv, CleanInv, AnswerInv, CancelInv,
      NothingLeftBehind, ResultAfterReap,
      Points, Before, Exchanging, Cleaning, Own, ReasonCodes,
      SourceErrors, RequestErrors, NotReaped, Errors, Histories, RaiseOther, Conclude, Code, vars

LEMMA ReturnResultStep == ASSUME CallInv, ReturnResult PROVE CallInv'
<1> PICK v \in Readable :
      \/ Publishes(v) /\ RequirePublishable(v) /\ Conclude("result")
      \/ /\ ~Publishes(v)
         /\ IF Accepts(v) THEN last' = v /\ CancelWith("request_expired")
                          ELSE UNCHANGED last /\ CancelWith(ClockFault(v))
         /\ granted' = "nothing" /\ refused' = TRUE
         /\ Conclude("request_expired")
  BY DEF ReturnResult
<1>1. CASE Publishes(v) /\ RequirePublishable(v) /\ Conclude("result")
  <2>1. v = now /\ v < Deadline /\ last' = v /\ TypeOK' /\ Start <= last'
    BY <1>1, PublishesNow, Asked DEF Publishes
  <2> QED
    BY <1>1, <2>1 DEF CallInv, CallTypeOK, TypeOK, ClockInv, PathInv, CleanInv, AnswerInv, CancelInv,
      NothingLeftBehind, ResultAfterReap,
      Points, Before, Exchanging, Cleaning, Own, ReasonCodes,
      SourceErrors, RequestErrors, NotReaped, Errors, Histories, ReturnResult, Conclude, Code
<1>2. CASE ~(Publishes(v) /\ RequirePublishable(v) /\ Conclude("result"))
  <2>1. TypeOK' /\ Start <= last'
    <3>1. CASE Accepts(v)
      <4>1. v \in Int /\ v >= last
        BY <3>1, BudgetAssumption, WorkerAssumption DEF Readable, Accepts, CallInv, CallTypeOK
      <4>2. reason' \in AllReasons
        BY <1>2, <3>1, WorkerAssumption DEF CancelWith, AllReasons, CallInv, CallTypeOK, TypeOK
      <4>3. last' = v /\ cancelled' = TRUE /\ granted' = "nothing" /\ refused' = TRUE
        BY <1>2, <3>1 DEF CancelWith
      <4>4. last \in Int /\ Start <= last
        BY DEF CallInv, CallTypeOK, ClockInv, TypeOK
      <4> QED
        BY <4>1, <4>2, <4>3, <4>4, BudgetAssumption DEF TypeOK, Answers
    <3>2. CASE ~Accepts(v)
      BY <1>2, <3>2
      DEF CancelWith, ClockFault, CallInv, CallTypeOK, ClockInv, TypeOK, AllReasons, Answers
    <3> QED
      BY <3>1, <3>2
  <2> QED
    BY <1>2, <2>1 DEF CallInv, CallTypeOK, TypeOK, ClockInv, PathInv, CleanInv, AnswerInv, CancelInv,
      NothingLeftBehind, ResultAfterReap,
      Points, Before, Exchanging, Cleaning, Own, ReasonCodes,
      SourceErrors, RequestErrors, NotReaped, Errors, Histories, ReturnResult, Conclude, Code
<1> QED
  BY <1>1, <1>2

(* What the call cannot prevent. *)
LEMMA RaiseStep == ASSUME CallInv, Raise PROVE CallInv'
<1>1. CASE pc \in Exchanging /\ EndExchange("raised") /\ UNCHANGED vars
  BY <1>1, EndExchangeStep
  DEF CallInv, CallTypeOK, TypeOK, ClockInv, vars, Own, SourceErrors
<1>2. CASE pc \in Before /\ EndEarly("raised") /\ UNCHANGED vars
  BY <1>2 DEF CallInv, CallTypeOK, TypeOK, ClockInv, PathInv, CleanInv, AnswerInv, CancelInv,
      NothingLeftBehind, ResultAfterReap,
      Points, Before, Exchanging, Cleaning, Own, ReasonCodes,
      SourceErrors, RequestErrors, NotReaped, Errors, Histories, EndEarly, NoChild, Fresh, Children, vars
<1> QED
  BY <1>1, <1>2 DEF Raise, Before, Exchanging

LEMMA RaiseInGapStep == ASSUME CallInv, RaiseInGap PROVE CallInv'
<1>1. /\ pc \in {"exchange"} \union Unguarded /\ outcome = "none"
      /\ pc' = "done" /\ outcome' = "raised" /\ gap' = pc
      /\ UNCHANGED <<vars, now, child, Errors, reaped>>
  BY DEF RaiseInGap, Unguarded, CallInv, PathInv
<1>2. CallTypeOK' /\ ClockInv'
  BY <1>1 DEF CallInv, CallTypeOK, ClockInv, TypeOK, vars, Errors, Points
<1>3. PathInv' /\ CleanInv' /\ AnswerInv' /\ CancelInv'
  BY <1>1 DEF CallInv, PathInv, CleanInv, AnswerInv, CancelInv, Before, Exchanging, Cleaning,
      vars, Errors
<1>4. NothingLeftBehind'
  <2>1. pc = "reap" /\ ~cleanup => child.leader = "exited" \/ child.leader \in {"none", "reaped"}
    BY DEF CallInv, CallTypeOK, CleanInv, Children
  <2> QED
    BY <1>1, <2>1 DEF Unguarded, NothingLeftBehind, CallInv, CleanInv, Errors
<1>5. ResultAfterReap'
  BY <1>1 DEF ResultAfterReap
<1> QED
  BY <1>2, <1>3, <1>4, <1>5 DEF CallInv

LEMMA WorkerStep == ASSUME CallInv, Worker PROVE CallInv'
<1>0. child \in Children /\ child.leader \in {"none", "running", "exited", "reaped"}
  BY DEF CallInv, CallTypeOK, Children
<1>1. /\ child' \in Children
      /\ child.out # "nothing" => child'.out = child.out
      /\ child'.leader = "none" <=> child.leader = "none"
  <2>1. CASE \E o \in {"good", "bad", "alien", "long"} :
               child.out = "nothing" /\ child' = [child EXCEPT !.out = o]
    BY <1>0, <2>1 DEF Children
  <2>2. CASE child' = [child EXCEPT !.others = TRUE]
    BY <1>0, <2>2 DEF Children
  <2>3. CASE child' = [child EXCEPT !.eof = TRUE]
    BY <1>0, <2>3 DEF Children
  <2>4. ASSUME NEW s \in {"zero", "positive", "signal"}, child.leader = "running",
               child' = [child EXCEPT !.leader = "exited", !.status = s,
                                      !.eof = @ \/ ~child.others]
        PROVE  /\ child' \in Children
               /\ child.out # "nothing" => child'.out = child.out
               /\ child'.leader = "none" <=> child.leader = "none"
    BY <1>0, <2>4 DEF Children
  <2>5. CASE child' = [child EXCEPT !.others = FALSE, !.eof = @ \/ child.leader # "running"]
    BY <1>0, <2>5 DEF Children
  <2> QED  BY <2>1, <2>2, <2>3, <2>4, <2>5 DEF Worker
<1>2. /\ child.leader = "running" \/ child.others
      /\ child.leader # "none"
      /\ UNCHANGED <<vars, now, pc, Errors, outcome, Histories>>
  BY DEF Worker, CallInv, PathInv
<1> QED
  BY <1>1, <1>2 DEF CallInv, CallTypeOK, TypeOK, ClockInv, PathInv, CleanInv, AnswerInv, CancelInv,
      NothingLeftBehind, ResultAfterReap,
      Points, Before, Exchanging, Cleaning, Own, ReasonCodes,
      SourceErrors, RequestErrors, NotReaped, Errors, Histories, NoChild, Fresh, vars

LEMMA TickStep == ASSUME CallInv, Tick PROVE CallInv'
  BY BudgetAssumption, WorkerAssumption DEF CallInv, CallTypeOK, TypeOK, ClockInv, PathInv, CleanInv, AnswerInv, CancelInv,
      NothingLeftBehind, ResultAfterReap,
      Points, Before, Exchanging, Cleaning, Own, ReasonCodes,
      SourceErrors, RequestErrors, NotReaped, Errors, Histories, Tick, vars

LEMMA NextCallInv == CallInv /\ [CallNext]_callVars => CallInv'
<1> SUFFICES ASSUME CallInv, [CallNext]_callVars
             PROVE  CallInv'
  OBVIOUS
<1>1. CASE UNCHANGED callVars
  BY <1>1
  DEF callVars, vars, CallInv, CallTypeOK, TypeOK, ClockInv, PathInv, CleanInv, AnswerInv,
      CancelInv, NothingLeftBehind, ResultAfterReap
<1>2. CASE CallNext
  BY <1>2, EnterStep, LaunchStep, LaunchRefusedStep, PollStep, OutOfSecondsStep, DecodeStep,
     CheckStep, CheckPublishableStep, ClosePipesStep, TerminateStep, KillStep, ReapStep,
     RaiseCleanupStep, RaiseOtherStep, ReturnResultStep, RaiseStep, RaiseInGapStep, WorkerStep,
     TickStep
  DEF CallNext, Parent
<1> QED
  BY <1>1, <1>2

(* The invariant of _run_framed_worker holds at every point of the call. *)
THEOREM CallInvariance == CallSpec => []CallInv
  BY InitCallInv, NextCallInv, PTL DEF CallSpec

(* Whatever the worker does, however often the call is interrupted and       *)
(* whichever system call fails: at the end no process of the group is left,  *)
(* or the caller is told that the clean-up failed, or Ctrl-C met one of the  *)
(* unguarded lines from the return of Popen on: then anything may be left if *)
(* the group had not been sent SIGKILL, a worker nobody reaped if it had.    *)
THEOREM NothingLeftBehindTheorem == CallSpec => []NothingLeftBehind
  BY CallInvariance, PTL DEF CallInv

(* A result is returned only after the budget has been asked with the worker *)
(* reaped, and before the deadline.                                          *)
THEOREM ResultAfterReapTheorem == CallSpec => []ResultAfterReap
  BY CallInvariance, PTL DEF CallInv

-----------------------------------------------------------------------------

(* FramedWorker implements WorkerCall. *)

LEMMA InitCall == CallInit => Call!Init
<1> SUFFICES ASSUME CallInit
             PROVE  Call!Init
  OBVIOUS
<1>1. WorkerState = "none"
  BY DEF CallInit, WorkerState, NoChild, Fresh
<1>2. Verdict = "pending"
  BY DEF CallInit, Verdict, SourceErrors, RequestErrors
<1>3. cancelled \in BOOLEAN
  BY DEF CallInit
<1> QED
  BY <1>1, <1>2, <1>3 DEF Call!Init

(* Steps that leave the worker alone and do not end the call. *)
LEMMA QuietStep ==
  ASSUME UNCHANGED <<child, outcome, gap>>, outcome = "none",
         cancelled \in BOOLEAN, cancelled' \in BOOLEAN, cancelled => cancelled'
  PROVE  [Call!Next]_(Call!vars)
  BY DEF Call!Next, Call!Cancel, Call!vars, WorkerState, Verdict, SourceErrors, RequestErrors

(* Steps of the worker, and of the parent about the worker. *)
LEMMA WorkerChanges ==
  ASSUME UNCHANGED <<cancelled, outcome, gap>>,
         WorkerState' = WorkerState \/ (WorkerState = "running" /\ WorkerState' = "stopped")
  PROVE  [Call!Next]_(Call!vars)
  BY DEF Call!Next, Call!Stop, Call!vars, Verdict

(* Steps that end the call. *)
LEMMA EndStep ==
  ASSUME outcome = "none", UNCHANGED child, cancelled => cancelled',
         \/ /\ outcome' \in SourceErrors \union {"result"} /\ ~cancelled' /\ ~cancelled
            /\ WorkerState # "running" /\ (outcome' = "result" => WorkerState = "stopped")
         \/ outcome' \in RequestErrors /\ cancelled' /\ WorkerState # "running"
         \/ outcome' = "worker_cleanup_failed" /\ (cancelled' \/ gap' # "none")
         \/ outcome' = "raised",
         cancelled' \in BOOLEAN
  PROVE  [Call!Next]_(Call!vars)
  BY DEF Call!Next, Call!Return, Call!vars, WorkerState, Verdict, SourceErrors, RequestErrors

LEMMA StepRefinesCall ==
  ASSUME CallInv, CallInv', CallNext
  PROVE  [Call!Next]_(Call!vars)
<1>0. /\ cancelled \in BOOLEAN /\ cancelled' \in BOOLEAN
      /\ pc # "done" => outcome = "none"
  BY DEF CallInv, CallTypeOK, TypeOK, PathInv
<1>1. ASSUME pc \in Before \union Exchanging \union {"close"}, UNCHANGED <<child, outcome, gap>>,
             cancelled => cancelled'
      PROVE  [Call!Next]_(Call!vars)
  BY <1>0, <1>1, QuietStep DEF Before, Exchanging
<1>2. CASE Enter
  <2>1. CASE HasSeconds /\ pc' = "launch" /\ UNCHANGED outcome
    BY <2>1, <1>1, <1>2, Granted DEF Enter, Before, Histories
  <2>2. ASSUME NEW code \in RequestErrors, NoSeconds(code), outcome' = code
        PROVE  [Call!Next]_(Call!vars)
    BY <2>2, <1>0, <1>2, Denied, EndStep
    DEF Enter, WorkerState, CallInv, PathInv, Before, NoChild, Fresh
  <2> QED
    BY <2>1, <2>2, <1>2 DEF Enter
<1>3. CASE Launch
  BY <1>0, <1>3, Granted
  DEF Launch, Histories, CallInv, PathInv, Before, NoChild, Fresh, WorkerState, Verdict,
      SourceErrors, RequestErrors, Call!Next, Call!Launch
<1>4. CASE LaunchRefused
  <2>1. ASSUME NEW code \in RequestErrors, NoSeconds(code), EndEarly(code)
        PROVE  [Call!Next]_(Call!vars)
    BY <2>1, <1>0, <1>4, Denied, EndStep
    DEF LaunchRefused, EndEarly, WorkerState, CallInv, PathInv, Before, NoChild, Fresh
  <2>2. CASE HasSeconds /\ EndEarly("worker_launch_failed")
    BY <2>2, <1>0, <1>4, Granted, EndStep
    DEF LaunchRefused, EndEarly, WorkerState, CallInv, PathInv, Before, NoChild, Fresh,
        SourceErrors
  <2> QED
    BY <2>1, <2>2, <1>4 DEF LaunchRefused
<1>5. CASE Poll
  BY <1>1, <1>5, Granted DEF Poll, EndExchange, Exchanging, Histories
<1>6. CASE OutOfSeconds
  BY <1>1, <1>6, Denied DEF OutOfSeconds, EndExchange, Exchanging, Histories
<1>7. CASE Decode
  BY <1>1, <1>7 DEF Decode, EndExchange, Exchanging, Histories, vars, CallInv, CallTypeOK, Children
<1>8. CASE Check
  BY <1>1, <1>8, Granted DEF Check, Exchanging, Histories
<1>9. CASE CheckPublishable
  BY <1>1, <1>9, Asked DEF CheckPublishable, EndExchange, Exchanging, Histories
<1>10. CASE ClosePipes
  BY <1>1, <1>10 DEF ClosePipes, Histories, vars, Cancel, CancelWith
<1>11. CASE Terminate
  <2>1. /\ (child'.others => child.others)
        /\ child'.leader = "none" <=> child.leader = "none"
    BY <1>11, AfterTermIsLess DEF Terminate, CallInv, CallTypeOK
  <2>2. child'.leader = child.leader \/ (child.leader = "running" /\ child'.leader = "exited")
    BY <1>11 DEF Terminate, AfterTerm, Dead, CallInv, CallTypeOK, Children
  <2> QED
    BY <1>11, <2>1, <2>2, WorkerChanges DEF Terminate, Histories, vars, WorkerState
<1>12. CASE Kill
  <2>1. (child'.others => child.others) /\ (child'.leader = child.leader \/
            (child.leader = "running" /\ child'.leader = "exited"))
    BY <1>12, DeadIsDead DEF Kill, CallInv, CallTypeOK
  <2> QED
    BY <1>12, <2>1, WorkerChanges DEF Kill, Histories, vars, WorkerState
<1>13. CASE Reap
  <2>1. child' = child \/ (child.leader = "exited" /\ child'.leader = "reaped" /\
                             child'.others = child.others)
    BY <1>13 DEF Reap, CallInv, CallTypeOK, Children
  <2> QED
    BY <1>13, <2>1, WorkerChanges DEF Reap, vars, WorkerState
<1>14. CASE RaiseCleanup
  BY <1>0, <1>14, EndStep, Cancelled, WorkerAssumption
  DEF RaiseCleanup, Conclude, vars, Cancel, CancelWith
<1>15. CASE RaiseOther
  BY <1>0, <1>15, EndStep
  DEF RaiseOther, Conclude, Code, vars, CallInv, CallTypeOK, CleanInv, CancelInv, Cleaning, Own,
      ReasonCodes, SourceErrors, RequestErrors, WorkerState
<1>16. CASE ReturnResult
  <2>1. WorkerState = "stopped" /\ pc = "verdict" /\ ~closing /\ Code = "none"
    BY <1>16 DEF ReturnResult, CallInv, CleanInv, WorkerState
  <2>5. primary = "none"
    BY <2>1 DEF Code
  <2>2. ~cancelled
    BY <2>1, <2>5 DEF CallInv, CancelInv, Cleaning, Own
  <2>3. ASSUME NEW v \in Readable, Publishes(v), RequirePublishable(v), Conclude("result")
        PROVE  [Call!Next]_(Call!vars)
    BY <1>0, <2>1, <2>2, <2>3, <1>16, Asked, EndStep DEF ReturnResult, Conclude
  <2>4. CASE cancelled' /\ Conclude("request_expired")
    BY <1>0, <2>1, <2>2, <2>4, <1>16, EndStep DEF ReturnResult, Conclude, RequestErrors
  <2> QED
    BY <1>16, <2>3, <2>4 DEF ReturnResult, CancelWith
<1>17. CASE Raise
  <2>1. CASE pc \in Exchanging /\ EndExchange("raised") /\ UNCHANGED vars
    BY <1>1, <2>1 DEF EndExchange, Histories, vars
  <2>2. CASE pc \in Before /\ EndEarly("raised") /\ UNCHANGED vars
    BY <1>0, <2>2, EndStep DEF EndEarly, vars, Before, Histories
  <2> QED
    BY <1>17, <2>1, <2>2 DEF Raise, Before, Exchanging
<1>18. CASE RaiseInGap
  BY <1>0, <1>18, EndStep DEF RaiseInGap, Unguarded, vars
<1>19. CASE Worker
  <2>1. /\ child'.leader = child.leader \/ (child.leader = "running" /\ child'.leader = "exited")
        /\ child.leader # "running" => (child'.others => child.others)
    BY <1>19 DEF Worker, CallInv, CallTypeOK, Children
  <2> QED
    BY <1>19, <2>1, WorkerChanges DEF Worker, Histories, vars, WorkerState
<1>20. CASE Tick
  BY <1>20, WorkerChanges DEF Tick, Histories, vars, WorkerState
<1> QED
  BY <1>2, <1>3, <1>4, <1>5, <1>6, <1>7, <1>8, <1>9, <1>10, <1>11, <1>12, <1>13, <1>14, <1>15,
     <1>16, <1>17, <1>18, <1>19, <1>20
  DEF CallNext, Parent

(* The call as its caller sees it is a behaviour of WorkerCall: a failure of *)
(* one source leaves the request alone, a failure that ends the request has  *)
(* cancelled it, and a result comes from a worker that is gone.              *)
THEOREM CallRefinement == CallSpec => ImplementsWorkerCall
<1>1. CallInv /\ CallInv' /\ [CallNext]_callVars => [Call!Next]_(Call!vars)
  <2> SUFFICES ASSUME CallInv, CallInv', [CallNext]_callVars
               PROVE  [Call!Next]_(Call!vars)
    OBVIOUS
  <2>1. CASE UNCHANGED callVars
    BY <2>1, WorkerChanges DEF callVars, vars, WorkerState
  <2> QED
    BY <2>1, StepRefinesCall
<1> QED
  BY <1>1, InitCall, CallInvariance, PTL DEF CallSpec, ImplementsWorkerCall, Call!Spec
=============================================================================
