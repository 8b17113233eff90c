-------------------------- MODULE StrategyManagement --------------------------
(***************************************************************************)
(* One strategy's row and the owner's requests that write it, beside the   *)
(* positions held under it.  update and remove decide on what they read    *)
(* and write later.  Names and symbols are left out: the row is the one    *)
(* with the name it was created under, so creating it twice is a conflict. *)
(***************************************************************************)
EXTENDS RiskBudget

CONSTANTS
    Ticks,    \* calls of runUserStrategies in one process: cron and HTTP
    Users,    \* the owner's other requests, whichever process serves them
    Configs,  \* bound: the parameters the owner gives a strategy
    Modes,    \* bound: the values of paperTrading the owner gives
    Statuses, \* bound: the statuses the owner sets
    MaxAsks   \* bound: requests of the owner, other than setting the status

\* A budget is read from its column.
ASSUME ConfigsAssumption == /\ Configs \subseteq Plan /\ Modes \subseteq BOOLEAN
                            /\ \A c \in Configs : c.budget % Unit = 0
ASSUME StatusesAssumption == Statuses \subseteq {"STOPPED", "RUNNING", "PAUSED"}
ASSUME ProcAssumption == Ticks \intersect Users = {}

Proc == Ticks \union Users

VARIABLES
    strategy,    \* the TradingStrategy row
    positions,   \* its TradingPosition rows, in the order opened
    at, local,   \* where each process stands, and its locals
    asked        \* how many requests the owner has made

\* peak: the largest budget the row has had (not a column).
Strategy == [status : {"NONE", "STOPPED", "RUNNING", "PAUSED", "DELETED"},
             config : Configs, paper : BOOLEAN, peak : Nat]
Position == [status : {"OPEN", "CLOSED", "DELETED"}, qty : Int, cost : Int, dca : Nat,
             next : BOOLEAN, tp : BOOLEAN]

AnyConfig == CHOOSE c \in Configs : TRUE
NoPosition == [status |-> "CLOSED", qty |-> 0, cost |-> 0, dca |-> 0,
               next |-> FALSE, tp |-> FALSE]

\* job: what is asked for; id, row, subs: a position as it was read, with its
\* sub-positions by level; config, paper: the strategy as it was read.
Blank == [job |-> "none", id |-> 0, row |-> NoPosition, subs |-> <<>>,
          config |-> AnyConfig, paper |-> TRUE]

Exists == strategy.status \in {"STOPPED", "RUNNING", "PAUSED"}
OpenPositions == {i \in DOMAIN positions : positions[i].status = "OPEN"}

Goto(p, place, l) == at' = [at EXCEPT ![p] = place] /\ local' = [local EXCEPT ![p] = l]
Asks(p) == p \in Users /\ at[p] = "idle" /\ asked < MaxAsks /\ asked' = asked + 1
Written(c, paper) ==
    strategy' = [strategy EXCEPT !.config = c, !.paper = paper,
                                 !.peak = IF c.budget > @ THEN c.budget ELSE @]

-----------------------------------------------------------------------------
Create(c, paper) ==
    /\ strategy.status = "NONE" /\ Valid(c) /\ BuildPlan(c) # <<>>
    /\ strategy' = [status |-> "STOPPED", config |-> c, paper |-> paper, peak |-> c.budget]
    /\ UNCHANGED <<positions, at, local, asked>>

\* setStatus looks only whether the row exists.
SetStatus(status) ==
    /\ Exists /\ status # strategy.status
    /\ strategy' = [strategy EXCEPT !.status = status]
    /\ UNCHANGED <<positions, at, local, asked>>

\* update reads the row, refuses if it runs, and merges the request into what it
\* read; the write carries every column but the status.
UpdateRead(p, c, paper) ==
    /\ Asks(p) /\ Exists
    /\ strategy.status # "RUNNING"
    /\ <<c, paper>> # <<strategy.config, strategy.paper>>
    /\ Valid(c) /\ BuildPlan(c) # <<>>
    /\ Goto(p, "update", [Blank EXCEPT !.job = "update", !.config = c, !.paper = paper])
    /\ UNCHANGED <<strategy, positions>>

UpdateWrite(p) ==
    /\ at[p] = "update"
    /\ IF Exists THEN Written(local[p].config, local[p].paper) ELSE UNCHANGED strategy
    /\ Goto(p, "idle", Blank)
    /\ UNCHANGED <<positions, asked>>

\* remove refuses while a position is open; deleting the row deletes all that
\* hangs on it.
RemoveRead(p) ==
    /\ Asks(p) /\ Exists
    /\ OpenPositions = {}
    /\ Goto(p, "remove", [Blank EXCEPT !.job = "remove"])
    /\ UNCHANGED <<strategy, positions>>

RemoveDelete(p) ==
    /\ at[p] = "remove"
    /\ IF Exists
       THEN /\ strategy' = [strategy EXCEPT !.status = "DELETED"]
            /\ positions' = [i \in DOMAIN positions |-> [NoPosition EXCEPT !.status = "DELETED"]]
       ELSE UNCHANGED <<strategy, positions>>
    /\ Goto(p, "idle", Blank)
    /\ UNCHANGED asked
=============================================================================
