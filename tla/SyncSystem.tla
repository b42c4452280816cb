----------------------------- MODULE SyncSystem -----------------------------
(* The whole of the disclosure synchronisation: any number of command lines  *)
(* and briefs at once over one database and one wall clock, about one fund.  *)
(* Each process serves one request as CliSync or as BriefSync describes.     *)
EXTENDS CliSync, BriefSync

VARIABLE handler    \* which command a process runs

systemVars == <<briefVars, handler>>

Unbriefed == UNCHANGED <<briefLocals, briefs>>

SystemInit == BriefInit /\ handler = [r \in Runs |-> "none"]

Begin(r, mode, force) ==
    \/ /\ StartRequest(r, mode, force) /\ Unbriefed
       /\ handler' = [handler EXCEPT ![r] = "cli"]
    \/ /\ ~force /\ StartBrief(r, mode)
       /\ handler' = [handler EXCEPT ![r] = "brief"]

CommandStep(r) ==
    /\ \/ handler[r] = "cli" /\ CliStep(r) /\ Unbriefed
       \/ handler[r] = "brief" /\ BriefStep(r)
    /\ UNCHANGED handler

DisruptCommand(r) ==
    /\ \/ Disrupt(r) /\ Unbriefed
       \/ handler[r] = "cli" /\ (OutcomeInterrupted(r) \/ CommandCut(r)) /\ Unbriefed
       \/ handler[r] = "brief" /\ (HandlerInterrupted(r) \/ HandlerFails(r) \/ BriefCut(r))
    /\ UNCHANGED handler

CommandBudgetPasses(r) == BudgetPasses(r) /\ Unbriefed /\ UNCHANGED handler

SystemNext ==
    \/ Tick /\ Unbriefed /\ UNCHANGED handler
    \/ \E r \in Runs :
        \/ \E mode \in Modes, force \in BOOLEAN : Begin(r, mode, force)
        \/ CommandStep(r)
        \/ DisruptCommand(r)
        \/ CommandBudgetPasses(r)

SystemSpec == SystemInit /\ [][SystemNext]_systemVars

-----------------------------------------------------------------------------

(* The commands and briefs as RequestPromise sees them. *)
WorkOf(r) ==
    CASE handler[r] = "cli" -> PlanRefs
      [] handler[r] = "brief" -> BriefRefs
      [] OTHER -> {}

Life == [r \in Runs |-> runs[r].status]
Work == [r \in Runs |-> WorkOf(r)]
Tries == {<<a.run, a.ref, a.number>> : a \in attempts}
Answered ==
    {<<a.run, a.ref>> : a \in {b \in attempts : b.outcome \in {"success", "cache_hit"}}}
Shown ==
    [s \in Sections |->
        IF cache[s] = NoEntry THEN <<>> ELSE <<cache[s].run, cache[s].ref, cache[s].number>>]

Promise == INSTANCE RequestPromise WITH
    Requests <- Runs, Fields <- Refs,
    life <- Life, work <- Work, tries <- Tries, answers <- Answered, shown <- Shown

(* The database keeps the promises of RequestPromise whatever commands and   *)
(* briefs run over it at once: no step of any of them, seen from outside, is *)
(* anything but a beginning, a try with what it brought, or an end.          *)
ImplementsPromise == Promise!Spec
=============================================================================
