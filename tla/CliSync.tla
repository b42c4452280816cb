------------------------------ MODULE CliSync ------------------------------
(* cli.py _sync_disclosure: the request of `fund sync-profile` and           *)
(* `sync-holdings`.  It begins the request, runs the engine over all groups  *)
(* of the profile once, and finalizes the request whatever the engine        *)
(* returned or raised.  Several invocations may run at once.                 *)
EXTENDS DisclosureSync

CONSTANT Plan       \* the groups of the profile, in order

(* The groups are the entries of a dict. *)
ASSUME PlanAssumption ==
    /\ Plan \in Seq(Refs)
    /\ \A i, j \in DOMAIN Plan : Plan[i] = Plan[j] => i = j

PlanRefs == {Plan[i] : i \in DOMAIN Plan}

(* A forced request must be a deep one. *)
StartRequest(r, mode, force) ==
    /\ At(r, "idle")
    /\ force => mode = "deep"
    /\ BeginRequest(r, mode, now)
    /\ proc' = [proc EXCEPT ![r] = [proc[r] EXCEPT !.pc = "choose", !.plan = Plan, !.force = force]]
    /\ UNCHANGED <<now, cache, contacts>>

(* The status that the outcome of the engine calls for. *)
Usable == {s \in UNION {SectionsOf[ref] : ref \in PlanRefs} : cache[s] # NoEntry /\ cache[s].ok}
Requested == UNION {SectionsOf[ref] : ref \in PlanRefs}

NeverPartial(r) ==                                    \* without the partial status
    IF proc[r].why = "expiry" THEN "expired"
    ELSE IF proc[r].why = "other" THEN "cancelled"
    ELSE IF Usable = {} THEN "failed" ELSE "complete"
ResultStatus(r) ==
    IF proc[r].why = "expiry" THEN "expired"
    ELSE IF proc[r].why = "other" THEN "cancelled"
    ELSE IF Usable = {} THEN "failed"
    ELSE IF proc[r].omitted # {} \/ Usable # Requested THEN "partial"
    ELSE "complete"

OutcomeStatus(r) ==
    CASE proc[r].ret = "ok" -> ResultStatus(r)
      [] proc[r].ret = "interrupt" -> "cancelled"
      [] OTHER -> IF proc[r].why = "expiry" THEN "expired" ELSE "failed"

(* A request that ends at its deadline or later has expired. *)
StatusAsIs(r) == OutcomeStatus(r)                     \* without the test of the deadline
FinalStatus(r) == IF now >= Deadline(r) THEN "expired" ELSE OutcomeStatus(r)

(* The omitted work of a request whose engine failed is all of it. *)
OnlyWhatWasOmitted(r) == proc[r].omitted              \* without the requested fields
FinalOmitted(r) ==
    IF proc[r].ret \in {"ok", "interrupt"} THEN proc[r].omitted ELSE Names(PlanRefs)

(* Ctrl-C once the engine has returned and before finalize: the work omitted *)
(* is then all that was asked for.                                           *)
OutcomeInterrupted(r) ==
    /\ "interrupt" \in Disruptions
    /\ At(r, "left") /\ proc[r].ret = "ok"
    /\ proc' = [proc EXCEPT ![r] = [proc[r] EXCEPT
                   !.ret = "interrupt", !.why = Reason(r, "other"), !.omitted = Names(PlanRefs)]]
    /\ Close(r)
    /\ UNCHANGED <<tables, now, cache, contacts>>

(* finalize.  A finalization the store refuses raises and leaves the run as  *)
(* it is.                                                                    *)
Conclude(r) ==
    /\ At(r, "left")
    /\ runs' = IF FinishAdmissible(r, FinalStatus(r), now, FinalOmitted(r), snapshots)
               THEN Finished(r, FinalStatus(r), now, FinalOmitted(r))
               ELSE runs
    /\ Go(r, "ended")
    /\ UNCHANGED <<attempts, auths, snapshots, budget, now, cache, contacts>>

(* finalize raises for any other reason, the database is locked or Ctrl-C    *)
(* comes before its transaction has committed; or Ctrl-C comes in a handler, *)
(* after the try statement, or between begin_request and the try statement.  *)
CommandCut(r) ==
    /\ \/ At(r, "left") /\ Uncaught
       \/ At(r, "choose") /\ proc[r].plan = Plan /\ "interrupt" \in Disruptions
    /\ CutOff(r)

CliStep(r) == EngineStep(r) \/ Conclude(r)
CliDisrupt(r) == Disrupt(r) \/ OutcomeInterrupted(r) \/ CommandCut(r)

CliNext ==
    \/ Tick
    \/ \E r \in Runs :
        \/ \E mode \in Modes, force \in BOOLEAN : StartRequest(r, mode, force)
        \/ CliStep(r)
        \/ CliDisrupt(r)
        \/ BudgetPasses(r)

CliSpec == SyncInit /\ [][CliNext]_syncVars

(* A process that has started goes on; the clock and the owner need not. *)
CliFairSpec == CliSpec /\ \A r \in Runs : WF_syncVars(CliStep(r))

-----------------------------------------------------------------------------

(* The finalization the command asks for is always one the store accepts:    *)
(* however the engine returned or raised, whatever it has left reserved and  *)
(* however late it is (but while the wall clock does not go back), a command *)
(* that comes to its end has ended its request.  Killed, or cut off by an    *)
(* exception that meets the finalization itself or Ctrl-C outside the try    *)
(* statement, it leaves the request running: "dead" and "cut" are not        *)
(* "ended".                                                                  *)
EndedIsTerminal == \A r \in Runs : At(r, "ended") => Terminal(r)

(* A request reported complete has an answer of its own for every field it   *)
(* was asked for: an audited success or a cache hit of this very run, not    *)
(* the data some other request left in the cache.                            *)
CompleteMeansAudited ==
    \A r \in Runs : runs[r].status = "complete" =>
        \A ref \in PlanRefs :
            \E a \in AttemptsOf(r, ref) : a.outcome \in {"success", "cache_hit"}

(* No section is in the cache without the attempt that fetched it, and never *)
(* one of an attempt that came too late: the sections and the audit of a     *)
(* group are committed together or not at all.                               *)
PublishedWithAudit ==
    \A s \in Sections : cache[s] # NoEntry =>
        \E a \in AttemptsOf(cache[s].run, cache[s].ref) :
            /\ a.number = cache[s].number
            /\ s \in SectionsOf[a.ref]
            /\ a.outcome \in {"success", "transient_failure", "unavailable"}

(* A request never claims to have finished its work after its deadline. *)
LateMeansExpired ==
    \A r \in Runs :
        Terminal(r) /\ runs[r].finished >= Deadline(r) => runs[r].status = "expired"

(* The sources are left alone: between two requests, one begun after the     *)
(* other had ended, the cooldown that the last answer of a source asked for  *)
(* is honoured, unless the owner forces the second request.  A request that  *)
(* names its deadline as its end may have ended later than it says.          *)
EndedBefore(q, r) ==
    /\ Terminal(q)
    /\ runs[q].finished < Deadline(q)
    /\ runs[q].finished < runs[r].started

LastAnswer(a, r, t) ==
    \A b \in attempts \ {a} :
        b.ref = a.ref /\ b.run # r /\ b.finished <= t /\ Informative(b) => Later(a, b)

SequentialRequestsHonourCooldown ==
    \A c \in contacts, a \in attempts :
        /\ c.run # a.run /\ c.ref = a.ref
        /\ ~proc[c.run].force
        /\ EndedBefore(a.run, c.run)
        /\ a.outcome = "transient_failure"
        /\ LastAnswer(a, c.run, c.at)
        => c.at >= a.cooldown

(* What the disclosure service says of its results: what a parser accepted,  *)
(* in full or as a partial result, is in the cache after the transaction of  *)
(* its group, unless it came too late.                                       *)
ParsedIsStored ==
    [][\A r \in Runs :
          At(r, "record") /\ GroupOutcome(proc[r].seen) \notin TooLate
          /\ proc[r].pc # proc'[r].pc
          => \A s \in Fetched(r) :
                proc[r].seen[s] \in {"parsed", "unpublishable"} =>
                    cache'[s] # NoEntry /\ cache'[s].run = r /\ cache'[s].ok]_syncVars

(* What a request writes to the cache it writes while its budget is open and *)
(* the request is running: once the budget is closed, nothing more.          *)
NothingPublishedAfterClose ==
    [][\A s \in Sections : cache'[s] # cache[s] =>
          budget[cache'[s].run] = "open" /\ Running(cache'[s].run)]_syncVars

(* The command returns, whatever its sources and its budget do: a request    *)
(* that was begun reaches a terminal status, unless its process is killed or *)
(* an exception meets the finalization itself.                               *)
RequestEnds ==
    \A r \in Runs : Running(r) ~> (Terminal(r) \/ proc[r].pc \in {"cut", "dead"})
=============================================================================
