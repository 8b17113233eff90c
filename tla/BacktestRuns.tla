---------------------------- MODULE BacktestRuns ----------------------------
(* The life of a backtest run: backtest-run.service.ts creates and reads    *)
(* it, backtest-candle-runner.service.ts executes it on a request,          *)
(* backtest-execution.service.ts writes its status, while its owner changes *)
(* or removes its strategy, candles are imported and processes die. The run *)
(* is of one strategy and one symbol; a step of a request is what it does   *)
(* between two awaits.                                                      *)
EXTENDS CandleImport, DcaSimulator

CONSTANTS Requests,     \* POST :runId/start requests
          Strategies,   \* parameters a strategy can have
          PageSize      \* BACKTEST_CANDLE_PAGE_SIZE

ASSUME RunAssumption == /\ PageSize \in Nat \ {0} /\ None \notin Strategies
                        /\ Strategies \subseteq [maxEntries : Int, from : Int, target : Nat]
                        /\ \A p \in Strategies : ~Refused(p) => Affords(p, Prices \cup Interim)

VARIABLES strategy,     \* the strategy's row
          run,          \* the run's row with its trades and equity points
          work,         \* what each request is doing
          failed        \* whether a database call failed or a process died

runVars == <<strategy, run, work, failed>>
vars == <<importVars, runVars>>

NoResult == [ending |-> None, pnl |-> None, drawdown |-> None, tradeCount |-> 0]
NoEvents == [trades |-> <<>>, equity |-> <<>>]

(* had: what the table held of the range when the loading began.            *)
NoWork == [at |-> "idle", strategy |-> None, start |-> 0, end |-> 0, cursor |-> 0,
           candles |-> <<>>, result |-> None, had |-> {}]

Init ==
  /\ InitImport
  /\ strategy \in Strategies
  /\ run = None
  /\ work = [q \in Requests |-> NoWork]
  /\ failed = FALSE

At(q, place) == work[q].at = place
Goto(q, place) == work' = [work EXCEPT ![q].at = place]
End(q) == work' = [work EXCEPT ![q] = [NoWork EXCEPT !.at = "ended"]]

(* backtest-run.service.ts: create.                                         *)
CreateRun ==
  /\ run = None
  /\ strategy # None
  /\ \E start, end \in Times :
       /\ start < end
       /\ run' = [status |-> "PENDING", start |-> start, end |-> end,
                  result |-> NoResult, events |-> NoEvents]
  /\ UNCHANGED <<importVars, strategy, work, failed>>

(* strategy.service.ts: update, and remove with its cascade.                *)
UpdateStrategy ==
  /\ strategy # None
  /\ strategy' \in Strategies
  /\ UNCHANGED <<importVars, run, work, failed>>

RemoveStrategy ==
  /\ strategy # None
  /\ strategy' = None
  /\ run' = None
  /\ UNCHANGED <<importVars, work, failed>>

(* runs.get: the run with its strategy's parameters, as they are now.       *)
Get(q) ==
  /\ At(q, "idle")
  /\ run # None
  /\ work' = [work EXCEPT ![q].at = "start", ![q].strategy = strategy,
                          ![q].start = run.start, ![q].end = run.end,
                          ![q].cursor = run.start]
  /\ UNCHANGED <<importVars, strategy, run, failed>>

\* Fault: a run that is being executed can be started again.
Startable_Again(status) == status \in {"PENDING", "RUNNING"}
Startable(status) == status = "PENDING"

(* execution.start's conditional update. Its refusal is thrown outside the  *)
(* try block.                                                               *)
StartRun(q) ==
  /\ At(q, "start")
  /\ run # None
  /\ Startable(run.status)
  /\ run' = [run EXCEPT !.status = "RUNNING"]
  /\ Goto(q, "started")
  /\ UNCHANGED <<importVars, strategy, failed>>

StartRefused(q) ==
  /\ At(q, "start")
  /\ run # None => ~Startable(run.status)
  /\ End(q)
  /\ UNCHANGED <<importVars, strategy, run, failed>>

(* start reads the row back; not finding it is thrown outside the try too.  *)
StartRead(q) ==
  /\ At(q, "started")
  /\ IF run = None THEN End(q)
     ELSE work' = [work EXCEPT ![q].at = "load",
            ![q].had = {t \in DOMAIN stored : Within(t, work[q].start, work[q].end)}]
  /\ UNCHANGED <<importVars, strategy, run, failed>>

\* Fault: the next page begins with the last candle of this one.
Following_Same(slot) == Opens(slot)
Following(slot) == Opens(slot) + 1

(* One page of candles; after the last one the synchronous simulation.      *)
Load(q) ==
  /\ At(q, "load")
  /\ LET w == work[q]
         page == List(w.cursor, w.end, PageSize)
         candles == w.candles \o [k \in 1..Cardinality(page) |->
                      LET t == CHOOSE t \in page : Cardinality({u \in page : u < t}) = k - 1
                      IN [slot |-> t, close |-> stored[t]]]
         more == page # {} /\ Cardinality(page) = PageSize /\ Following(Max(page)) <= w.end
         refused == candles = <<>> \/ Refused(w.strategy)
     IN work' = [work EXCEPT ![q] =
          IF more THEN [w EXCEPT !.candles = candles, !.cursor = Following(Max(page))]
          ELSE IF refused THEN [w EXCEPT !.at = "fail", !.candles = candles]
          ELSE [w EXCEPT !.at = "persist", !.candles = candles,
                         !.result = Simulate(w.strategy, candles)]]
  /\ UNCHANGED <<importVars, strategy, run, failed>>

(* complete: the events replace those of the run in one transaction, which  *)
(* a removed run makes roll back; its rejection is nobody's to catch.       *)
Persist(q) ==
  /\ At(q, "persist")
  /\ IF run = None
     THEN End(q) /\ UNCHANGED run
     ELSE /\ run' = [run EXCEPT !.events = EventsOf(work[q].result)]
          /\ Goto(q, "complete")
  /\ UNCHANGED <<importVars, strategy, failed>>

(* complete, once the events are stored: the conditional update.            *)
Complete(q) ==
  /\ At(q, "complete")
  /\ run' = IF run = None \/ run.status # "RUNNING" THEN run
            ELSE [run EXCEPT !.status = "COMPLETED",
                    !.result = [c \in DOMAIN NoResult |-> work[q].result[c]]]
  /\ End(q)
  /\ UNCHANGED <<importVars, strategy, failed>>

FailRun(q) ==
  /\ At(q, "fail")
  /\ run' = IF run = None \/ run.status # "RUNNING" THEN run
            ELSE [run EXCEPT !.status = "FAILED"]
  /\ End(q)
  /\ UNCHANGED <<importVars, strategy, failed>>

(* A database call fails: only the loading of candles is inside the try     *)
(* block, complete's promise being returned without await.                  *)
CallFails(q) ==
  /\ work[q].at \notin {"idle", "ended"}
  /\ IF At(q, "load") THEN Goto(q, "fail") ELSE End(q)
  /\ failed' = TRUE
  /\ UNCHANGED <<importVars, strategy, run>>

Crash ==
  /\ \E q \in Requests : work[q].at \notin {"idle", "ended"}
  /\ work' = [q \in Requests |-> IF At(q, "idle") THEN work[q] ELSE [NoWork EXCEPT !.at = "ended"]]
  /\ import' = [import EXCEPT !.at = "done", !.page = <<>>]
  /\ failed' = TRUE
  /\ UNCHANGED <<history, listed, stored, imports, strategy, run>>

ImportStep == /\ RequestImport \/ Fetch \/ ImportFails \/ Store \/ NextCandle
              /\ UNCHANGED runVars

RequestStep(q) == \/ Get(q) \/ StartRun(q) \/ StartRefused(q) \/ StartRead(q)
                  \/ Load(q)
                  \/ Persist(q) \/ Complete(q) \/ FailRun(q) \/ CallFails(q)

Next == \/ ImportStep \/ CreateRun \/ UpdateStrategy \/ RemoveStrategy \/ Crash
        \/ \E q \in Requests : RequestStep(q)

Spec == Init /\ [][Next]_vars

-----------------------------------------------------------------------------
Simulated(q) == work[q].at \in {"persist", "complete"}

(* A run is simulated over the candles of its range in order, each once,    *)
(* and over all that were stored when the loading began, however the pages  *)
(* fall and whatever an import stores meanwhile.                            *)
RunReadsWholeRange ==
  \A q \in Requests : Simulated(q) =>
    LET w == work[q]
        slots == {w.candles[k].slot : k \in DOMAIN w.candles}
    IN /\ \A k \in 2..Len(w.candles) : w.candles[k - 1].slot < w.candles[k].slot
       /\ \A t \in slots : Within(t, w.start, w.end)
       /\ w.had \subseteq slots

(* The trades of a simulation explain its equity curve and its result.      *)
SimulationExplained ==
  \A q \in Requests : Simulated(q) =>
    LET w == work[q]
    IN /\ EquityExplained(w.result, w.candles)
       /\ LadderClimbedOnce(w.result, w.strategy)
       /\ ColumnsExplained(w.result, w.strategy)
       /\ SingleEntryHolds(w.candles)

(* The status of a run is true: one that is pending or failed has no result *)
(* and no events, a completed one has the events its result is about, and   *)
(* one that runs is being worked on, unless a call failed or a process died.*)
RunStatusTrue ==
  run # None =>
    /\ run.status \in {"PENDING", "FAILED"} => run.result = NoResult /\ run.events = NoEvents
    /\ run.status = "RUNNING" =>
         failed \/ \E q \in Requests : work[q].at \notin {"idle", "start", "ended"}
    /\ run.status = "COMPLETED" => Agrees(run.result, run.events)
=============================================================================
