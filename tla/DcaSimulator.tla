---------------------------- MODULE DcaSimulator ----------------------------
(* The two simulators of backtest-dca-simulator.service.ts and              *)
(* backtest-buy-hold-simulator.service.ts: functions from a sequence of     *)
(* candles to the result a backtest run stores. Fees and slippage are 0, as *)
(* the runner passes neither. Amounts are integers; Capital is a multiple   *)
(* of what divides it, so that every quantity is exact. A drawdown is the   *)
(* pair of what was lost and the peak it was lost from.                     *)
EXTENDS Integers, FiniteSets, SequencesExt

CONSTANTS Capital,      \* initialCapital
          Step,         \* dcaStepPercent
          Multiplier    \* dcaMultiplier

ASSUME SimulatorAssumption == /\ Capital \in Nat \ {0}
                              /\ Step \in 1..99
                              /\ Multiplier \in Nat \ {0}

Candle == [slot : Nat, close : Nat \ {0}]

(* A loop from 1 to n, where do(s, k) is what its pass k makes of s.         *)
Loop(do(_, _), s, n) == MapThenFoldSet(LAMBDA k, r : do(r, k), s, LAMBDA k : k, Max, 1..n)

Sum(ns) == FoldLeft(LAMBDA acc, n : acc + n, 0, ns)

Entries == {"PARENT_ENTRY", "INDEPENDENT_ENTRY"}
Exits == {"PARENT_EXIT", "INDEPENDENT_EXIT"}

(* What simulate refuses of a strategy [maxEntries, from, target].          *)
Refused(p) == p.maxEntries < 1 \/ p.from \notin 2..(p.maxEntries + 1)

Weights(n) == LET weight[l \in 1..n] == IF l = 1 THEN 1 ELSE Multiplier * weight[l - 1]
              IN weight
Allocation(p, level) ==
  (Capital * Weights(p.maxEntries)[level]) \div Sum(Weights(p.maxEntries))

(* Whatever is allocated buys something at any of the prices, as decimals   *)
(* always do.                                                               *)
Affords(p, prices) ==
  \A level \in 1..p.maxEntries, price \in prices : Allocation(p, level) >= price

Reached(price, first, level) == price * 100 <= first * (100 - Step * (level - 1))

Start == [quote |-> Capital, quantity |-> 0, cost |-> 0, independents |-> <<>>,
          entries |-> 0, exits |-> 0, peak |-> Capital, drawdown |-> <<0, 1>>,
          trades |-> <<>>, equity |-> <<>>]

(* One pass of the entry loop: a level is entered only right after the one  *)
(* before it, so one that is not reached ends the loop.                     *)
Enter(p, first, candle, s, level) ==
  IF level # s.entries + 1 \/ ~Reached(candle.close, first, level) THEN s ELSE
  LET allocation == Allocation(p, level)
      spend == IF allocation < s.quote THEN allocation ELSE s.quote
      bought == spend \div candle.close
      alone == level >= p.from
  IN [s EXCEPT
        !.quote = @ - spend,
        !.entries = level,
        !.quantity = IF alone THEN @ ELSE @ + bought,
        !.cost = IF alone THEN @ ELSE @ + spend,
        !.independents = IF ~alone THEN @ ELSE
           Append(@, [level |-> level, quantity |-> bought, cost |-> spend]),
        !.trades = Append(@,
           [type |-> IF alone THEN "INDEPENDENT_ENTRY" ELSE "PARENT_ENTRY",
            level |-> level, slot |-> candle.slot, quantity |-> bought,
            quote |-> spend, pnl |-> 0])]

Profitable(p, price, quantity, cost) ==
  price * quantity * 100 >= cost * (100 + p.target)

Sale(type, level, candle, quantity, cost) ==
  [type |-> type, level |-> level, slot |-> candle.slot, quantity |-> quantity,
   quote |-> quantity * candle.close, pnl |-> quantity * candle.close - cost]

ExitParent(p, candle, s) ==
  LET last == IF s.entries < p.from - 1 THEN s.entries ELSE p.from - 1
  IN IF s.quantity = 0 \/ ~Profitable(p, candle.close, s.quantity, s.cost) THEN s ELSE
     [s EXCEPT !.quote = @ + s.quantity * candle.close,
               !.exits = @ + 1,
               !.quantity = 0,
               !.cost = 0,
               !.trades = Append(@, Sale("PARENT_EXIT", last, candle, s.quantity, s.cost))]

\* Fault: what was sold is not spliced out.
Spliced_None(independents, index) == independents
Spliced(independents, index) == RemoveAt(independents, index)

SellIndependent(p, candle, s, index) ==
  LET i == s.independents[index]
  IN IF ~Profitable(p, candle.close, i.quantity, i.cost) THEN s ELSE
     [s EXCEPT !.quote = @ + i.quantity * candle.close,
               !.exits = @ + 1,
               !.independents = Spliced(@, index),
               !.trades = Append(@, Sale("INDEPENDENT_EXIT", i.level, candle, i.quantity, i.cost))]

(* The newest first.                                                        *)
ExitIndependents(p, candle, s) ==
  LET count == Len(s.independents)
  IN Loop(LAMBDA r, k : SellIndependent(p, candle, r, count + 1 - k), s, count)

(* What is in stock at a price, and the balance.                            *)
Loose(independents) == Sum([k \in DOMAIN independents |-> independents[k].quantity])
Equity(s, price) == s.quote + (s.quantity + Loose(s.independents)) * price

Worse(a, b) == IF b[1] * a[2] > a[1] * b[2] THEN b ELSE a

Measure(candle, s) ==
  LET equity == Equity(s, candle.close)
      peak == IF equity > s.peak THEN equity ELSE s.peak
  IN [s EXCEPT !.peak = peak,
               !.drawdown = Worse(@, <<peak - equity, peak>>),
               !.equity = Append(@, [slot |-> candle.slot, equity |-> equity,
                                     drawdown |-> <<peak - equity, peak>>])]

EnterAll(p, first, candle, s) ==
  Loop(LAMBDA r, level : Enter(p, first, candle, r, level), s, p.maxEntries)

(* target 0 stands for takeProfitPercent left undefined.                    *)
Pass(p, first, s, candle) ==
  LET entered == EnterAll(p, first, candle, s)
      sold == IF p.target = 0 THEN entered
              ELSE ExitIndependents(p, candle, ExitParent(p, candle, entered))
  IN Measure(candle, sold)

PassAll(p, candles) ==
  Loop(LAMBDA s, k : Pass(p, candles[1].close, s, candles[k]), Start, Len(candles))

Simulate(p, candles) ==
  LET end == PassAll(p, candles)
      ending == Equity(end, Last(candles).close)
  IN [ending |-> ending, pnl |-> ending - Capital, drawdown |-> end.drawdown,
      tradeCount |-> end.entries + end.exits,
      trades |-> end.trades, equity |-> end.equity]

EventsOf(r) == [trades |-> r.trades, equity |-> r.equity]

(* The buy-and-hold baseline.                                               *)
Hold(s, equity) ==
  LET peak == IF equity > s.peak THEN equity ELSE s.peak
  IN [peak |-> peak, drawdown |-> Worse(s.drawdown, <<peak - equity, peak>>)]

HoldAll(quantity, candles) ==
  Loop(LAMBDA s, k : Hold(s, quantity * candles[k].close),
       [peak |-> Capital, drawdown |-> <<0, 1>>], Len(candles))

BuyHold(candles) ==
  LET quantity == Capital \div candles[1].close
      ending == quantity * Last(candles).close
  IN [ending |-> ending, pnl |-> ending - Capital, tradeCount |-> 1,
      drawdown |-> HoldAll(quantity, candles).drawdown]

OfType(trades, types) == {k \in DOMAIN trades : trades[k].type \in types}
Profit(trades, K) == Sum([k \in DOMAIN trades |-> IF k \in K THEN trades[k].pnl ELSE 0])

(* backtest-run.service's analytics of the stored trades.                   *)
Analytics(trades) ==
  LET exits == OfType(trades, Exits)
      wins == {k \in exits : trades[k].pnl > 0}
      losses == {k \in exits : trades[k].pnl < 0}
  IN [completedExitCount |-> Cardinality(exits),
      winningTradeCount |-> Cardinality(wins),
      losingTradeCount |-> Cardinality(losses),
      grossProfit |-> Profit(trades, wins),
      grossLoss |-> -Profit(trades, losses),
      maximumDcaLevelUsed |-> Max({0} \cup {trades[k].level : k \in DOMAIN trades}),
      independentEntries |-> Cardinality(OfType(trades, {"INDEPENDENT_ENTRY"})),
      independentExits |-> Cardinality(OfType(trades, {"INDEPENDENT_EXIT"}))]

-----------------------------------------------------------------------------
(* What the list of trades must explain, recomputed from it alone: what was *)
(* paid and what was got in the trades K of it.                             *)
Paid(t) == IF t.type \in Entries THEN t.quote ELSE -t.quote
Got(t) == IF t.type \in Entries THEN t.quantity ELSE -t.quantity

Spent(trades, K) == Sum([k \in DOMAIN trades |-> IF k \in K THEN Paid(trades[k]) ELSE 0])
Held(trades, K) == Sum([k \in DOMAIN trades |-> IF k \in K THEN Got(trades[k]) ELSE 0])
Worth(trades, K, price) == Capital - Spent(trades, K) + Held(trades, K) * price

Before(trades, slot) == {k \in DOMAIN trades : trades[k].slot <= slot}

(* A point of the curve is what the trades up to it are worth; they never   *)
(* spent more than there was nor sold more than was held.                   *)
PointExplained(trades, point, candle) ==
  LET past == Before(trades, candle.slot)
  IN /\ point.equity = Worth(trades, past, candle.close)
     /\ Spent(trades, past) <= Capital
     /\ Held(trades, past) >= 0

EquityExplained(r, candles) ==
  /\ r.ending = Worth(r.trades, DOMAIN r.trades, Last(candles).close)
  /\ Len(r.equity) = Len(candles)
  /\ \A k \in DOMAIN candles : PointExplained(r.trades, r.equity[k], candles[k])

(* The ladder is climbed once, level by level, a level is sold on its own   *)
(* at most once and after it was bought, and no candle both buys and sells. *)
LadderClimbedOnce(r, p) ==
  LET trades == r.trades
  IN /\ \A i \in OfType(trades, Entries) :
          /\ trades[i].level = Cardinality(OfType(trades, Entries) \cap (1..i))
          /\ trades[i].level <= p.maxEntries
     /\ \A i \in OfType(trades, {"INDEPENDENT_EXIT"}) :
          /\ \E e \in OfType(trades, {"INDEPENDENT_ENTRY"}) \cap (1..i) :
               /\ trades[e].level = trades[i].level
               /\ trades[e].quantity = trades[i].quantity
          /\ \A j \in OfType(trades, {"INDEPENDENT_EXIT"}) :
               trades[i].level = trades[j].level => i = j
     /\ \A i \in OfType(trades, Entries), j \in OfType(trades, Exits) :
          trades[i].slot # trades[j].slot

(* The columns of a result are about these events.                          *)
Agrees(r, e) ==
  /\ r.tradeCount = Len(e.trades)
  /\ r.ending = Last(e.equity).equity
  /\ \E k \in DOMAIN e.equity : r.drawdown \in {<<0, 1>>, e.equity[k].drawdown}

(* The columns and the report follow from the trades: every sale was a win  *)
(* (there are no fees), and once nothing is held, the profit of the run is  *)
(* the profit of its sales.                                                 *)
ColumnsExplained(r, p) ==
  LET a == Analytics(r.trades)
  IN /\ Agrees(r, EventsOf(r))
     /\ a.completedExitCount = a.winningTradeCount
     /\ a.maximumDcaLevelUsed <= p.maxEntries
     /\ a.independentExits <= a.independentEntries
     /\ Held(r.trades, DOMAIN r.trades) = 0 => r.pnl = a.grossProfit - a.grossLoss

(* A single entry without a target is the buy-and-hold baseline.            *)
SingleEntryHolds(candles) ==
  LET r == Simulate([maxEntries |-> 1, from |-> 2, target |-> 0], candles)
      b == BuyHold(candles)
  IN \A column \in DOMAIN b : r[column] = b[column]
=============================================================================
