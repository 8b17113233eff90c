----------------------------- MODULE PaperTrading -----------------------------
(***************************************************************************)
(* Paper trading on one strategy: the runner's ticks in one process, which *)
(* exclude each other by a set in memory, and the owner's requests, which  *)
(* no guard excludes.  (A tick served by another process is not excluded   *)
(* either: to this one it is like the owner's requests to open and tick.)  *)
(* A position is read, and later written by a transaction that assigns     *)
(* totals computed from what was read.  Every purchase is one lot; prices  *)
(* are left out, so a comparison with the market price may go either way,  *)
(* unless the price compared with is null.                                 *)
(***************************************************************************)
EXTENDS StrategyManagement, Bags, FiniteSetsExt

CONSTANTS
    Requests,      \* bound: the owner's paper-trading requests in a run
    MaxPositions   \* bound: positions opened in a behaviour

VARIABLES
    subs,     \* TradingSubPosition rows, by position and level
    trades,   \* TradingOrder rows of the positions, as a bag
    running   \* whether the strategy is in the process's runningStrategies

rows == <<strategy, positions, subs, trades>>
vars == <<strategy, positions, at, local, asked, subs, trades, running>>

Sub == [status : {"OPEN", "CLOSED"}, cost : Nat]
\* hand: the order was made by an owner's request (not a column).
Trade == [pos : Nat, side : {"BUY", "SELL"}, level : Nat, independent : BOOLEAN,
          qty : Int, cost : Nat, hand : BOOLEAN]

\* The sum of the values of f, which are naturals: its units are counted.
Units(f) == UNION {{x} \X (1..f[x]) : x \in DOMAIN f}
Total(f) == Cardinality(Units(f))

Levels == {s[2] : s \in DOMAIN subs}
SubsOf(id) == [l \in {n \in Levels : <<id, n>> \in DOMAIN subs} |-> subs[<<id, l>>]]
OpenSubs(s) == {l \in DOMAIN s : s[l].status = "OPEN"}
Bought(p, id, level, a) ==
    [pos |-> id, side |-> "BUY", level |-> level, independent |-> a.independent,
     qty |-> 1, cost |-> a.quote, hand |-> p \in Users]
Sold(p, id, level, independent, qty) ==
    [pos |-> id, side |-> "SELL", level |-> level, independent |-> independent,
     qty |-> qty, cost |-> 0, hand |-> p \in Users]

\* A tick ends in its finally block, an owner's request with its answer.
Finish(p) ==
    /\ Goto(p, "idle", Blank)
    /\ running' = IF p \in Ticks THEN FALSE ELSE running

\* A transaction that finds its rows gone is rolled back, and the error returned.
Fails(p) == Finish(p) /\ UNCHANGED rows

-----------------------------------------------------------------------------
(* The runner's tick *)

\* The running strategies are read with their newest open position; the tick
\* goes through them one after another.
TickRead(p) ==
    /\ p \in Ticks /\ at[p] = "idle"
    /\ strategy.status = "RUNNING" /\ strategy.paper
    /\ Goto(p, "tick", [Blank EXCEPT !.job = "tick",
           !.id = IF OpenPositions = {} THEN 0 ELSE Max(OpenPositions)])
    /\ UNCHANGED <<rows, running>>

TickSkip(p) ==
    /\ at[p] = "tick" /\ running
    /\ Goto(p, "idle", Blank)
    /\ UNCHANGED <<rows, running>>

\* Fault: the set is consulted by nobody.
TickStart_Unguarded(p) ==
    /\ at[p] = "tick"
    /\ running' = TRUE
    /\ Goto(p, "quote", local[p])
    /\ UNCHANGED rows

TickStart(p) ==
    /\ at[p] = "tick" /\ ~running
    /\ running' = TRUE
    /\ Goto(p, "quote", local[p])
    /\ UNCHANGED rows

\* The quote arrives, or getQuote throws.
TickQuote(p) ==
    /\ at[p] = "quote"
    /\ \/ /\ Goto(p, IF local[p].id = 0 THEN "open" ELSE "load", local[p])
          /\ UNCHANGED <<rows, running>>
       \/ Fails(p)

\* The owner's requests: positions/open and positions/:id/dca, close, tick.
Request(p, job) ==
    /\ Asks(p) /\ job \in Requests
    /\ \/ job = "open" /\ Exists /\ Goto(p, "open", [Blank EXCEPT !.job = job])
       \/ \E id \in OpenPositions :
             job # "open" /\ Goto(p, "load", [Blank EXCEPT !.job = job, !.id = id])
    /\ UNCHANGED <<rows, running>>

-----------------------------------------------------------------------------
(* openPosition *)

OpenCheck(p) ==
    /\ at[p] = "open" /\ Exists /\ strategy.paper
    /\ OpenPositions = {}
    /\ Goto(p, "create", [local[p] EXCEPT !.config = strategy.config])
    /\ UNCHANGED <<rows, running>>

OpenRefuse(p) ==
    /\ at[p] = "open"
    /\ ~Exists \/ ~strategy.paper \/ OpenPositions # {}
    /\ Fails(p)

OpenCreate(p) ==
    /\ at[p] = "create" /\ Len(positions) < MaxPositions
    /\ LET plan == BuildPlan(local[p].config)
           id == Len(positions) + 1
       IN IF Exists
          THEN /\ positions' = Append(positions,
                      [status |-> "OPEN", qty |-> 1, cost |-> plan[1].quote, dca |-> 0,
                       next |-> Len(plan) > 1, tp |-> TRUE])
               /\ trades' = trades (+) SetToBag({Bought(p, id, 1, plan[1])})
               /\ Finish(p)
               /\ UNCHANGED <<strategy, subs>>
          ELSE Fails(p)

-----------------------------------------------------------------------------
(* addDca, closePosition, processPrice *)

Load(p) ==
    /\ at[p] = "load"
    /\ LET id == local[p].id
       IN IF positions[id].status = "OPEN" /\ strategy.paper
          THEN /\ Goto(p, IF local[p].job = "tick" THEN "subs" ELSE "act",
                       [local[p] EXCEPT !.row = positions[id], !.subs = SubsOf(id),
                                        !.config = strategy.config])
               /\ UNCHANGED <<rows, running>>
          ELSE Fails(p)

\* Fault: the position returned by closeEligibleSubPositions is not used.
Refreshed_Stale(l, row, ss) == l

\* What processPrice goes on with after it closed sub-positions: the transaction
\* ends by reading the position with its strategy again.
Refreshed(l, row, ss) == [l EXCEPT !.row = row, !.subs = ss, !.config = strategy.config]

\* The totals less those of the sub-positions closed.
Without(row, snapshot, closing) ==
    [row EXCEPT !.qty = row.qty - Cardinality(closing),
                !.cost = row.cost - Total([l \in closing |-> snapshot[l].cost])]

\* One sale for each sub-position whose price is reached; none is looked at again.
SellSubs(p, closing) ==
    LET id == local[p].id
        r == Without(local[p].row, local[p].subs, closing)
        row == [positions[id] EXCEPT !.qty = r.qty, !.cost = r.cost, !.tp = r.qty > 0]
        closed == [s \in DOMAIN subs |->
                      IF s[1] = id /\ s[2] \in closing
                      THEN [subs[s] EXCEPT !.status = "CLOSED"] ELSE subs[s]]
    IN IF positions[id].status # "DELETED"
       THEN /\ positions' = [positions EXCEPT ![id] = row]
            /\ subs' = closed
            /\ trades' = trades (+) SetToBag({Sold(p, id, l, TRUE, 1) : l \in closing})
            /\ Goto(p, "act", Refreshed(local[p], row,
                   [l \in DOMAIN SubsOf(id) |-> closed[<<id, l>>]]))
            /\ UNCHANGED <<strategy, running>>
       ELSE Fails(p)

\* closeEligibleSubPositions: some that were open when they were read are sold.
CloseSubs(p) ==
    /\ at[p] = "subs"
    /\ \E closing \in SUBSET OpenSubs(local[p].subs) :
          IF closing = {} THEN Goto(p, "act", local[p]) /\ UNCHANGED <<rows, running>>
          ELSE SellSubs(p, closing)

\* Fault: a level may be sold and bought as a sub-position again.
UniqueLevel_Open(id, level) ==
    <<id, level>> \in DOMAIN subs => subs[<<id, level>>].status = "CLOSED"

\* @@unique([positionId, level])
UniqueLevel(id, level) == <<id, level>> \notin DOMAIN subs

\* executeDca, from the position as it was read.
ExecuteDca(p) ==
    LET id == local[p].id
        row == local[p].row
        plan == BuildPlan(local[p].config)
        level == row.dca + 2
        a == plan[level]
    IN IF /\ level <= Len(plan)
          /\ WithinBudget(a.quote, row.cost, local[p].config.budget)
          /\ positions[id].status # "DELETED"
          /\ a.independent => UniqueLevel(id, level)
       THEN /\ positions' = [positions EXCEPT ![id] =
                  [@ EXCEPT !.qty = row.qty + 1, !.cost = row.cost + a.quote,
                            !.dca = row.dca + 1, !.next = level < Len(plan), !.tp = TRUE]]
            /\ subs' = IF a.independent
                       THEN [s \in DOMAIN subs \union {<<id, level>>} |->
                                IF s = <<id, level>> THEN [status |-> "OPEN", cost |-> a.quote]
                                ELSE subs[s]]
                       ELSE subs
            /\ trades' = trades (+) SetToBag({Bought(p, id, level, a)})
            /\ Finish(p)
            /\ UNCHANGED strategy
       ELSE Fails(p)

\* executeClose, from the position as it was read; its totals stay.
ExecuteClose(p) ==
    LET id == local[p].id
    IN IF positions[id].status # "DELETED"
       THEN /\ positions' = [positions EXCEPT ![id] =
                  [@ EXCEPT !.status = "CLOSED", !.next = FALSE, !.tp = FALSE]]
            /\ subs' = [s \in DOMAIN subs |->
                           IF s[1] = id THEN [subs[s] EXCEPT !.status = "CLOSED"] ELSE subs[s]]
            /\ trades' = trades (+) SetToBag({Sold(p, id, local[p].row.dca + 2, FALSE,
                                                    local[p].row.qty)})
            /\ Finish(p)
            /\ UNCHANGED strategy
       ELSE Fails(p)

TakeProfit(p) == /\ at[p] = "act"
                 /\ local[p].job = "close" \/ (local[p].job = "tick" /\ local[p].row.tp)
                 /\ ExecuteClose(p)
Dca(p) == /\ at[p] = "act"
          /\ local[p].job = "dca" \/ (local[p].job = "tick" /\ local[p].row.next)
          /\ ExecuteDca(p)
\* No price is reached, or an owner's request to buy comes before its price.
Hold(p) == /\ at[p] = "act"
           /\ local[p].job = "tick" \/ (local[p].job = "dca" /\ local[p].row.next)
           /\ Fails(p)

\* The process dies; the database remains.
Restart ==
    /\ at # [p \in Proc |-> "idle"]
    /\ at' = [p \in Proc |-> "idle"] /\ local' = [p \in Proc |-> Blank]
    /\ running' = FALSE
    /\ UNCHANGED rows

-----------------------------------------------------------------------------
Init ==
    /\ strategy = [status |-> "NONE", config |-> AnyConfig, paper |-> TRUE, peak |-> 0]
    /\ positions = <<>> /\ subs = <<>> /\ trades = EmptyBag
    /\ at = [p \in Proc |-> "idle"] /\ local = [p \in Proc |-> Blank]
    /\ running = FALSE /\ asked = 0

\* What hangs on the positions goes with them.
Removed(p) ==
    /\ RemoveDelete(p)
    /\ IF Exists THEN subs' = <<>> /\ trades' = EmptyBag ELSE UNCHANGED <<subs, trades>>
    /\ UNCHANGED running

Manage ==
    \/ \E c \in Configs, paper \in Modes :
          Create(c, paper) \/ \E p \in Users : UpdateRead(p, c, paper)
    \/ \E s \in Statuses : SetStatus(s)
    \/ \E p \in Users : UpdateWrite(p) \/ RemoveRead(p)

TickStep(p) == TickRead(p) \/ TickSkip(p) \/ TickStart(p) \/ TickQuote(p)
PositionStep(p) ==
    \/ OpenCheck(p) \/ OpenRefuse(p) \/ OpenCreate(p)
    \/ Load(p) \/ CloseSubs(p) \/ TakeProfit(p) \/ Dca(p) \/ Hold(p)

Next ==
    \/ Manage /\ UNCHANGED <<subs, trades, running>>
    \/ \E p \in Users : Removed(p)
    \/ \E p \in Proc :
          \/ \E job \in Requests : Request(p, job)
          \/ TickStep(p) /\ UNCHANGED asked
          \/ PositionStep(p) /\ UNCHANGED asked
    \/ Restart /\ UNCHANGED asked

Spec == Init /\ [][Next]_vars

-----------------------------------------------------------------------------
(* Properties *)

Places == {"idle", "tick", "quote", "open", "create", "load", "subs", "act",
           "update", "remove"}
SubRows(ss) == ss \in [DOMAIN ss -> Sub] /\ DOMAIN ss \subseteq Nat

PaperTypeOK ==
    /\ strategy \in Strategy
    /\ positions \in Seq(Position)
    /\ DOMAIN subs \subseteq (DOMAIN positions) \X Nat /\ subs \in [DOMAIN subs -> Sub]
    /\ IsABag(trades) /\ BagToSet(trades) \subseteq Trade
    /\ running \in BOOLEAN /\ asked \in 0..MaxAsks
    /\ at \in [Proc -> Places]
    /\ \A p \in Proc : /\ local[p].id \in {0} \union DOMAIN positions
                       /\ local[p].row \in Position /\ SubRows(local[p].subs)
                       /\ local[p].config \in Configs /\ local[p].paper \in BOOLEAN

Of(id) == {t \in BagToSet(trades) : t.pos = id}
ByHand(id) == \E t \in Of(id) : t.hand
OpenedByHand(id) == \E t \in Of(id) : t.hand /\ t.side = "BUY" /\ t.level = 1

\* openPosition looks for an open position and creates one later; what keeps a
\* strategy at one open position is that the ticks of a process exclude each
\* other.  Two positions are open only if the owner opened one by hand.
OnePaperPosition ==
    \A i, j \in OpenPositions : i # j => OpenedByHand(i) \/ OpenedByHand(j)

Quantity(ts) == Total([t \in ts |-> t.qty * trades[t]])
Paid(ts) == Total([t \in ts |-> t.cost * trades[t]])
BoughtIn(id) == {t \in Of(id) : t.side = "BUY"}
SoldIn(id) == {t \in Of(id) : t.side = "SELL"}
ClosedSubs(id) == {l \in DOMAIN SubsOf(id) : SubsOf(id)[l].status = "CLOSED"}

\* A position nobody but the runner has traded agrees with its trades although
\* its totals are assigned from what was read: while it is open, the quantity
\* is what was bought and not sold and the cost what was paid less what the
\* closed sub-positions cost; when it is closed, all that was bought was sold, once.
PaperBooks ==
    \A id \in DOMAIN positions : ~ByHand(id) /\ positions[id].status # "DELETED" =>
        LET held == Quantity(BoughtIn(id)) - Quantity(SoldIn(id))
            returned == Total([l \in ClosedSubs(id) |-> subs[<<id, l>>].cost])
        IN IF positions[id].status = "OPEN"
           THEN positions[id].qty = held /\ positions[id].cost = Paid(BoughtIn(id)) - returned
           ELSE held = 0

\* However ticks and requests interleave, a level is bought as a sub-position
\* once in the life of a position: the row of a closed sub-position stays.
OfSub(t) == t.side = "BUY" /\ t.independent /\ t.level > 1
SubLevelsOnce ==
    \A t, u \in BagToSet(trades) :
        OfSub(t) /\ OfSub(u) /\ t.pos = u.pos /\ t.level = u.level => t = u /\ trades[t] = 1

\* What a position costs stays within the largest budget its strategy has had:
\* the plan alone does not see to it, since its amounts are rounded up.
CostWithinBudget ==
    \A id \in OpenPositions : positions[id].cost <= strategy.peak
=============================================================================
