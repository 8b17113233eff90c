# A TLA+ model of hbstrading

hbstrading is a DCA ("dollar cost averaging") trading program: a NestJS backend
that trades a strategy automatically on the Binance testnet, trades it on paper,
or replays it over historical candles, and a React frontend over its HTTP API.
Paths below are relative to `src/backend/src/` unless they start with `src/`.

What can go wrong in such a program is seldom in one function. The backend runs on
several instances; a cron tick fires every few seconds on each of them; a strategy's
rows are read, then an exchange is called, then the rows are written; the owner
presses buttons meanwhile; the exchange's answer may never arrive. The model is
about those interleavings.

## 1. Inventory

| Component | State | Operations | Works with |
|---|---|---|---|
| **Scheduler frame and lock** `redis/redis-lock.service.ts`, `trading/*-scheduler.service.ts` | Redis key with token and TTL; `running` flag per instance | cron handler, `acquire`, `release` | wraps runner, retry, sync, paper ticks |
| **Strategy actions** `trading/testnet-strategy-action.service.ts` | `StrategyAction` rows, unique `actionKey` | `claim`, `markCompleted`, `markFailed`, `manualRetry`, `cancelRetry`, `claimRetry` | called by execution, retry, HTTP |
| **Order execution** `trading/testnet-strategy-execution.service.ts` (+ risk wrapper) | positions, sub-positions, orders | `executeMarketOrder`, `closePosition`, `syncOrder` | claims actions, places orders |
| **Runner** `trading/testnet-strategy-runner.service.ts` | none of its own | one decision per strategy and tick | executes |
| **Retry scheduler** `trading/testnet-action-retry-scheduler.service.ts` | none | due query, `claimRetry`, execute, mark failed | actions, execution |
| **Order sync** `trading/testnet-order-sync-scheduler.service.ts` | none | sync unresolved orders, recover actions | execution, actions |
| **Emergency stop** `trading/testnet-emergency-stop.service.ts` | none | stop, cancel actions, cancel orders | all rows, exchange |
| **Exchange client** `exchange/binance/*` | orders at Binance | place, query, cancel; quantity filters | execution, sync, stop |
| **Strategy management, risk budget** `trading/strategy.service.ts`, `risk-budget.service.ts` | `TradingStrategy` | create, update, remove, set status | read by all |
| **Paper trading** `trading/paper-trading.service.ts`, `paper-strategy-*.ts` | paper positions and trades | open, add DCA, close, price processing | quote cache |
| **Backtests** `trading/backtest-*.ts` | runs, events, results | create, run, complete, fail; pure simulators | candles |
| **Candles** `trading/historical-candle-*.ts`, importer | candle rows | import pages, upsert, query | backtests |
| **Market stream and quotes** `market/*.ts` | sockets, subscriptions, timers, cache | subscribe, reconnect, getQuote | paper trading, UI |
| **Notifications** `notifications/*.ts` | notifications, webhook metrics | publish, deliver, clean up, restore | all services |
| **Accounts, credentials, frontend** | single rows | CRUD | — |

Hard behaviours, component by component, and what makes it correct:

- *Lock*: a TTL that runs out under its holder, lost replies, crashes, an earlier
  invocation still running. Correct if an instance runs one tick at a time, two
  instances hold the lock together only after a lapse, nobody deletes a lock that
  is not his, and every tick ends.
- *Actions*: one row is one intended exchange operation, written by the runner, the
  retry scheduler, the sync, the owner and the stop. Correct if a key buys at
  most one order, if the three columns that steer retries agree, if attempts
  are bounded, and if no retry is made of an action whose order is on record. `markFailed`,
  `manualRetry` and `cancelRetry` each read the row and write it later.
- *Execution and sync*: both write absolute column values computed from a snapshot
  taken before an exchange call. Correct if every fill reaches the books exactly
  once, if the strategy never sells more than it bought, and if orders settle.
- *Runner*: decides from a snapshot taken before its lock. Correct if it opens one
  position at a time and keeps to the ladder's limit.
- *Emergency stop*: works beside everything else; its cancellations may fail singly.
- *Strategy management*: an update or removal decides on the row it read and writes later.
  Correct if the risk budget holds all the same.
- *Paper trading*: checks and creates without a lock, and assigns totals computed from a
  position read earlier. Correct if there is one open position, if its books agree with
  its trades, and if a level is bought as a sub-position once.
- *Backtests and candles*: pages are read while an import writes, two requests may start one
  run, and errors and crashes fall between the steps of its life. Correct if a run is about
  its whole range, its trades explain its result, and its status is true.
- *Stream and quotes*: dead sockets have late events, answers overtake each other. Correct if no
  connection is left behind, a symbol stays connected, and no stale quote is served.
- *Notifications*: deliveries retry concurrently and write their totals unawaited; retention
  and restarts come between. Correct if the totals add up and every delivery ends.

`PROJECT.json` lists the hazards at their lines with the properties that cover them.

## 2. Modules

```
SchedulerLock ──implements──> Lease          SchedulerLockProofs (theorems)
      └── MCSchedulerLock

StrategyActions ─ TestnetState ┬─ OrderExecution ┬─ TestnetRunner ─┐
 (action table)  (rows, data)  │                 └─ ActionRetry ───┤
                               ├─ OrderSync ───────────────────────┼─ TestnetTrading ── MCTestnetTrading
                               └─ EmergencyStop ───────────────────┘        │
                                                                            ├─implements─> OrderLedger
                                                                            └─ TestnetTypingProofs ── OrderProofs ── BooksProofs

RiskBudget ─ StrategyManagement ─ PaperTrading ┬─ MCPaper
                                               └─ PaperProofs
QuoteCache ────┐                      ┌─ MCServices
MarketStream ──┼─ BackgroundServices ─┤
Notifications ─┘                      └─ ServicesProofs
CandleImport ──┬─ BacktestRuns ─┬─ MCBacktest
DcaSimulator ──┘                └─ BacktestProofs (with SimulatorProofs)
      └── SimulatorProofs
```

A line to the right is `EXTENDS`. There are three more systems beside testnet trading,
because the code keeps them apart: a strategy is traded on paper *or* on the testnet, a
backtest touches neither, and the background services share no state with any of them.
In testnet trading the variables are declared where their tables are (`actions` in `StrategyActions`, the others in `TestnetState`); each activity has its
own module with one action per step; `TestnetTrading` puts them together with the
owner's requests, the exchange and crashes, and states the properties.

### SchedulerLock, Lease

An instance is a Node process; cron fires while an earlier tick still awaits something,
so an instance has several invocation *slots*. `Fire` is the guard on the `running` flag,
`Acquire`/`AcquireTaken`/`AcquireError` the `SET NX PX`, `Work` the body, `Release`/
`ReleaseError` the compare-and-delete in the `finally` block. A Redis command may fail
before or after it took effect; `Expire` takes the key from under a holder at any time
(`lapsed` remembers it); `Crash` loses the instance's memory. The four lock-protected
schedulers share this frame. `Lease` is what the lock promises: a grant to somebody while
nobody who has not lapsed holds it.

### StrategyActions

The action table and each service operation as its effect on a row. The
delay before a retry is left out (`nextRetryAt` is kept as whether it is set): a due retry
may come at any time, which only adds behaviours. A key is a record of the parts the code
joins into a string, plus the list of `:retry:n` suffixes.

### TestnetState

The rows of one strategy, the exchange's view of its orders, and the processes. A process
is one asynchronous activity; `pc` says which `await` it stands at and `mem` holds its
locals. Money is left out, and every comparison of money (take-profit, DCA
triggers, risk limits) may go either way. Quantities are counted in lots. A Prisma
transaction is one step.

### OrderExecution

`executeMarketOrder` for its three callers. The steps: `Admit` (status and position are read and
checked; the two reads are merged), `Duplicate`/`RefuseClaim`/`PassClaim` (the reads of `claim`,
merged), `CreateAction` (its insert, arbitrated by the unique key), `Place`/`PlaceLost`/
`PlaceRefused` (the exchange), `Commit`/`CommitFails` (the transaction after it), `FailRead` and `FailClaim`
(the catch block: `markFailed` awaits the row, then writes what it has decided). Any check before the insert may refuse (`Refuse`).

### TestnetRunner, ActionRetry, OrderSync, EmergencyStop

- `TestnetRunner`: `TickDecide` (the snapshot before the lock, and every decision the
  price could lead to), `TickSkip`/`TickExecute` (`hasPendingExecution`). The decision is
  taken where the snapshot is: nothing read later but the price enters it.
- `ActionRetry`: `RetryPick` (the due query), `RetryClaim`/`RetryGone` (the conditional update),
  `GiveUpRead` and `GiveUp` (`markFailed` in the catch block, its read and its write), and the owner's
  `manualRetry`/`cancelRetry` as read and write.
- `OrderSync`: `SyncRead`, `SyncFetch`, `SyncApply`, `SyncFails`; `RecoverRead`, then `RecoverFilled`, or
  `RecoverEnded` and `RecoverFail` (again `markFailed`'s two halves).
- `EmergencyStop`: `StopRows` (one transaction), `StopList`, then per order `StopCancel` (the
  exchange call, whose request or answer may be lost) and `StopWrite`.

### RiskBudget, StrategyManagement

`BuildPlan` is the service's `buildPlan`: what each level of the ladder is allocated, from the
multiplier as a fraction, in sub-units of which a stored amount is a multiple of `Unit`.
`Round` matters: levels rounded up can add up to more than the budget, which is what
`assertWithinBudget` (`WithinBudget`) is there for. `Allocated` and `Power` are recursive functions, not
`RECURSIVE` operators, so that theorems may stand above them; a budget comes from its Decimal column and
is a multiple of `Unit` itself (`ConfigsAssumption`). `StrategyManagement` has the strategy's row and the
owner's requests: `update` (`UpdateRead`, `UpdateWrite`) and `remove` (`RemoveRead`,
`RemoveDelete`) are two steps each, since both decide on what they read before they write.
`RemoveDelete` deletes all that hangs on the strategy.

### PaperTrading

The ticks of one process (`TickRead`, `TickSkip`, `TickStart`, `TickQuote`) and the owner's
requests (`Request`) go through the same `paper-trading.service.ts`: `OpenCheck`/`OpenCreate`,
then `Load`, `CloseSubs`, `TakeProfit`, `Dca`, `Hold`. `local` holds what was read; the transaction of
`CloseSubs` ends by reading position and strategy again (`Refreshed`). Prices are left
out, so a comparison with the market price may go either way; a comparison
with a price that is null may not. A transaction that finds its position gone is rolled back (`Fails`).
A tick served by another process is not excluded by this process's set; to this one it
acts as the owner's requests to open and to tick do. Two things in the model are not columns: `hand`, which marks
an order made by an owner's request, and `peak`, the largest budget the row has had. Sums of lots and costs
are the sizes of sets of units (`Total`), of which the prover knows what it knows of sets.

### QuoteCache, MarketStream, Notifications, BackgroundServices

- `QuoteCache`: `getQuote` as cache hit, request, the exchange's look at its book (`LookUp`),
  and answer (`Fill`), on a clock, with any number of callers at once.
- `MarketStream`: one symbol. The state objects outlive their subscription, since a socket's handlers hold
  on to them; a state or socket is used again once nothing refers to it. `Subscribe`,
  `Unsubscribe`, and the handlers `Opens`, `Message`, `Closes` and the timer `Reconnect`. After
  `Unsubscribe` the price of the last message stays on show, as in the code.
- `Notifications`: `Publish` up to its first awaits, the row's write (`Persist`), the webhook
  (`Accept` is the receiver's side; `Delivered`, `Refused`, `TimedOut`, `Retry` the
  process's), the unawaited snapshot (`Saved`), retention (`TimePasses` and the two clean-ups) and
  `Restart`, which loses what was under way and restores the latest snapshot.
- `BackgroundServices` puts the three into one process. They share no state, so a behaviour
  of the process is one of each alone, and `part` says which is looked at: the
  interleavings of steps that cannot see each other are not enumerated.

`PaperTypeOK`, `QuoteTypeOK`, `StreamTypeOK` and `NotificationsTypeOK` say what the variables hold; the
last three are part of the invariants proved in `ServicesProofs`.

### CandleImport, DcaSimulator, BacktestRuns

- `CandleImport`: the importer's loop (`Fetch`, `Store`) with its four ways to end, against an
  exchange that lists one candle after another and whose newest candle is still forming
  (`Quotes`), and the query (`List`). A candle opens at an even time and closes at the odd one after it: the code's
  "plus one millisecond" is the step from one to the other.
- `DcaSimulator`: both simulators, pass by pass: `Enter`, `ExitParent`, `ExitIndependents`, `Measure`, and
  the run service's `Analytics`. The three loops of the ladder's simulator (over candles, levels and
  independent positions) are folds over their counters (`Loop`): `PassAll`, `EnterAll`, `ExitIndependents`. Fees and slippage
  are 0: the simulator takes both, but `backtest-candle-runner.service.ts` passes neither. The code computes in decimals,
  the model in integers; so that this loses nothing, `Capital` is a multiple of what divides it, and large enough that what a
  level is allocated buys something at every price (`Affords`, in `RunAssumption`), as any positive decimal does.
- `BacktestRuns`: the life of one run. `Load` is one page; after the last page it is also the
  simulation, which is synchronous. `complete()` is returned without being awaited inside the `try`
  block, so `CallFails` sends only a failing load to the catch block.

Names beginning with a definition's name and described as *Fault* (`Delta_Whole`) are not
part of the system: they are plausible bugs, substituted for the definition to see that
a property notices.

## 3. Runs

| Run | Question | Instance | Result |
|---|---|---|---|
| `lock` | Does the scheduler lock do what it promises, under lost replies, expiry and crashes? | 2 instances, 2 slots, 4 tokens | holds, 1,101 states |
| `auto` | Are orders, fills and positions consistent under the schedulers alone, with a crashing runner, lost answers, rolled-back transactions and retries? | 1 runner, 1 retrier, 1 syncer; BUYs of 2 lots, so that fills are partial; a DCA level and an independent level; 3 orders | holds, 834,447 states |
| `lapsed` | What is left when the strategy lock has run out and two ticks run at once? | 2 runners, 1 syncer; 3 orders | holds, 129,966 states |
| `sync` | What if owner and scheduler sync the same order, and are orders settled in the end? | 1 order of 2 lots, syncing by both | holds, 67,837 states |
| `close` | Can pausing, resuming and manual closes buy or sell twice under one key? | owner closes and changes status; 3 orders | holds, 612,549 states |
| `recovery` | Do the action and order rows stay consistent, and retries bounded, whatever the owner, the stop and the schedulers do? | owner retries, cancels, orders, stops; 1 order | holds, 1,095,118 states |
| `paper` | Does a paper strategy keep to one open position, to its books and to its budget, under overlapping ticks, requests, changes and restarts? | 2 ticks, 1 user; 2 requests, 2 positions; 2 sets of parameters | holds, 946,214 states |
| `services` | Are quotes fresh, streams connected and webhook totals right, whatever order answers, timers and closings come in? | 2 callers, 1 key, `Ttl` 2, clock to 3; 3 states, 3 sockets; 2 notifications, 2 attempts, 1 restart | holds, 230,326 states |
| `backtest` | Is a backtest's result about its whole range and explained by its trades, and is its status true? | 2 start requests, 1 import; 5 candles, 3 prices, pages of 2 and 3 | holds, 1,202,734 states |
| `stop_leaves_orders` | Does the emergency stop leave exchange orders alone, as its dialog says? | | violated |
| `retry_blocked` | Does a retry get past the action it retries? | | violated |
| `dca_count` | Does `dcaCount` count DCA orders? | | violated |

Bounds. `MaxOrders` is the number of orders the exchange accepts in a behaviour: three
are the least for a purchase, a sale and the forbidden third (or a second DCA level).
`Lots` 2 is the least for a partial fill. `MaxTries` bounds retry generations,
`MaxAttempts` is the code's own limit (1 or 2, so that it is reached), `AttemptCap` bounds how
often the owner retries by hand. `Requests` is the set of kinds of request the owner makes in
a run, `Mortal` the processes that may crash. The schedulers' processes need no copies beyond
one each while their locks hold; `lapsed` is the run where one does not. Deadlock is not checked
for trading: a tick that decides HOLD is not a step, and a paused strategy may rest for ever.

For `paper`, two ticks are the least that can overlap, and two requests the least for
one that reads before another writes. Of the two sets of parameters one rounds its second level
up, so that its third no longer fits the budget, and the other has an independent level. The ticks are
interchangeable, so they are a symmetry set. For `services`, three states and three sockets are
one subscribed, one being closed and one more; the delay between reconnects stops
growing with `AttemptsSeen`, so no behaviour depends on a larger count. With a `Ttl` of 2 a clock to 3 sees an
entry fresh, at its last instant and expired. Two notifications and two attempts give two
deliveries at once, each with a retry, whose totals are saved in either order. For
`backtest`, five candles at three prices are all courses of a market in which the ladder's levels, the parent's
exit and independent exits (two in one candle) occur; imports run over one of these courses and runs over all of them,
since the candles' prices do not matter to paging. A range ends on a full page, on a short one and on a page's
last candle. `Capital` is a multiple of all divisors, so that quantities are exact. No deadlock check:
all three may come to rest (bounds, removed strategies, ended requests).

Some properties hold only in the company they are checked in, and the README says so
rather than hide it:

- `PositionsMatchFills` and `OneOrderAtATime` say so themselves: they are about states in which no retry has got its action
  created, or only first ones (`FirstRetries`: nothing was retried twice, no retry was retried). `auto` therefore allows
  one attempt and one generation of retries and leaves out nothing they speak of: a second attempt or generation
  writes no order and no position before its own action is created, and that ends `FirstRetries` for good. TLC also finds
  both in two attempts with one generation (2,072,148 states, not kept as a run). The theorems say it of `~Retried` (section 4).
  They are also about the schedulers alone. With two lapsed runners, with an owner's orders, or with an owner's sync beside the
  scheduler's, writes from snapshots can overwrite each other (hazard at `testnet-strategy-execution.service.ts:235`).
- A retry of a retry can do so too, and no lock is in its way: the retry scheduler does not take the strategy's.
  A DCA entry is refused for a passing reason and its position closed; its retry, under a new key and
  without a position to add to, is refused as well, so that there are two rows to retry, one
  of them about no position. The retry of the first opens position 2; the retry of the second reads
  position 2, waits at `claim` while the sync accounts the first one's fills, passes (the row it
  would be blocked by is completed by now) and writes the position back from what it read. TLC finds two
  unresolved orders this way (48 states) with two attempts and two generations.
- `RetryWithinAttempts` allows one attempt for each owner beyond `MaxAttempts`, because the code does. `manualRetry` reads an action
  that is FAILED; `claimRetry` reopens it, its execution is refused, and `markFailed` reads that one attempt of two was
  used; `manualRetry` writes PENDING and a second attempt; `markFailed` writes FAILED and retryable over it, and a third
  attempt is due. Checked against `MaxAttempts` itself the property is violated in `recovery` by these steps (16 states).
  Each request that falls between such a read and its write adds one; without an owner `MaxAttempts` is kept. No text of the repository
  says that the owner's retries count against the limit, so this is recorded here and not as a finding.
- `OneOpenPosition` is checked for two overlapping runners and proved for one. A third would be needed for what the code
  does not exclude: an order to add to a position that was closed meanwhile opens a new one, so two of these, decided at
  different levels, could open two.
- `DcaWithinLimit` needs `MaxDca` > 0: `risk-budget.service.ts:62` accepts 0, and an initial entry that fills late
  is counted as a DCA order all the same (run `dca_count`).
- `NeverOversold` does not hold once the owner closes by hand: a manual close whose answer is lost
  leaves a position that looks open, and the automatic exit, under another key, sells again.
- `SettledOrdersAccounted` does not hold under the emergency stop: `StopWrite` gives the row a final
  status without its fills, and no sync looks at the row again.
- `OnePaperPosition` and `PaperBooks` exempt positions the owner opened or traded by hand. `openPosition`
  checks and creates in two steps, and totals are assigned from what was read, so an owner's request
  beside a tick can open a second position or lose a purchase from the totals (hazards at
  `paper-trading.service.ts:39` and `:216`).
- `CostWithinBudget` compares with the largest budget the strategy has had: `update` may
  lower the budget below what a position already cost.
- `RunStatusTrue` exempts a RUNNING run after a failed call or a crash: nothing takes it up again.
- What holds under the stop is `FinalOrdersEnded`: whichever cancellations fail, no order goes on working
  on the exchange behind a row that is final.
- The stop does not stop an execution between `claim` and placement: the order is placed,
  and `Bind` takes the row out of CANCELLED again.

What else a reader of the code may want to know, found while modelling and in no statement's
contradiction: `independentFromLevel` outside 2..`maxEntries` + 1 (which `StrategyService` accepts) makes every
backtest of the strategy FAILED; a run's `realizedPnlQuote` includes the value of what is still held;
the report of a run shows the strategy's parameters as they are now beside trades made under
those it had; the newest candle is stored while it forms and keeps that close until it is imported again;
`README.md` of the repository lists fees and slippage as supported, and a run is simulated without either.

### What the violations say

- `stop_leaves_orders`: `src/frontend/src/pages/DashboardPage.tsx:313` promises that submitted
  orders are not cancelled; the service cancels every unresolved order at Binance.
- `retry_blocked`: `claimRetry` sets the failed row to PENDING, the retry claims a fresh key for
  the same position, and `claim` finds the original as `blockingAction`. The refusal belongs to no
  retryable category, so the action fails for good without having been retried.
- `dca_count`: `syncOrder` increments `dcaCount` at the first fill of any BUY, so an initial entry that
  fills after its answer uses up one of `maxDcaOrders`; `testnet-fill-accounting.service.ts:133`
  (which no code calls) and the panel's label count DCA orders only.

### Fairness

The `lock` run assumes that an invocation that may go on does (weak fairness of its
steps); nothing is assumed of cron, of crashes or of a TTL. The `sync` run assumes that an order
on the exchange ends; that the sync scheduler, whose tick goes through *all* unresolved
orders and recoverable actions, comes round to each of them (strong fairness per order, since
each is interrupted by other work of the same process); and that an exchange and a database asked
again and again answer again and again (strong fairness of `SyncFetch` and `SyncApply`, which
compete with `SyncFails`). Nothing is assumed of owners, runners or crashes.

The `services` run assumes for the stream that a reconnect timer fires and a socket that is being
closed closes (weak fairness: Node's event loop does both), and that a network on which a symbol is tried
again and again lets a connection open again and again (strong fairness, since each
attempt may be broken off by `Closes`). Under this a symbol that stays subscribed is open again and
again (`StaysConnected`). For the notifications it assumes that a request under way is answered or times out (the code
sets an `AbortSignal` timeout) and that a retry's timer fires; then `DeliveriesEnd`. Nothing is assumed of the receiver.

## 4. Proofs

Eight modules hold theorems; TLC had checked each property on instances first.

**SchedulerLockProofs** (any instances, slots and tokens; the only assumption is
`NoToken \notin Tokens`). `Typing`; `OneTickPerInstance` (an instance runs one tick, and its flag
says exactly whether). `Ownership` is the inductive invariant: the tokens held are
distinct, and a holder's token is on the key unless its lock has lapsed. From it follow
`Exclusion` (two holders only after a lapse), `OwnKeyOnly` (a release deletes no other holder's
key) and `ImplementsLease` (every step is a step of `Lease` or a stutter).

**TestnetTypingProofs** (any processes, quantities and bounds). `TypeOK` alone is not
inductive: an execution writes the position and order its locals remember, so the next
state is well-typed only if those exist. `Linked` adds this: orders refer to
positions, actions to orders (`RowsOK`), and the locals of an activity, at each place
of its program, to rows and orders that exist (`LocalOK`). Rows are only ever added, so a
reference once good stays good whatever other activities do (`MoveStep`). `Linking` and `Typing` follow.

**OrderProofs** builds on it. The first subject is the code's idempotence: an action key buys at
most one order. `OneOrderPerKey` speaks of the exchange, which the code cannot see, so the
invariant (`Claiming`) ties it to the rows and to the executions in flight:

- an execution between its insert and the end of its transaction *holds* its key
  (`Held`): the row exists, is not FAILED and has no order, and no other execution
  holds it (`Claims`);
- keys on the exchange are in the table, so the insert of a key that was used would
  fail (`Sent`, `CreateClaims`); and the key held at `place` is not on the exchange yet, so
  placing it makes it the first (`AcceptSent`);
- a retry is only picked up for a FAILED row, which nobody holds (`PickClaims`), and then
  sends its order under a new key; what a retry takes up has no order and stays out of others' hands;
- FAILED rows have no order and SUBMITTED and COMPLETED ones have one; without this a failure
  written late could make a row that has bought its order due again. `markFailed`'s two steps need more of it:
  who is at the write holds or took up a row that is nobody else's to fail (`Held`, `Taken`), and a recovery, whose row has an
  order, is certain to fail it for good (`RecoverWriteClaims`).

Each lemma is one activity's step; a step that claims nothing (`Calm`, `QuietStep`) or writes one
row and gives up its claim (`WriteStep`) is treated once. `ExactlyOnce`, `RetryColumns`, `OrderedStay` (`OrderedNotRetried`) and `Reported`
follow. They hold with any number of runners, retriers, syncers and owners, all kinds of request, any of
which may crash. The assumptions are those the modules state of their constants:
`AttemptsAssumption` (`MaxAttempts` is positive), `NoKeyAssumption` (`NoKey` is no key) and
`BoundsAssumption` (quantities are naturals, at least one lot is bought, and orders end the ways
Binance ends them).

`RetryBound` needs another invariant, `Counted`, and that there are finitely many owners. Between `markFailed`'s read, which found
fewer than `MaxAttempts` attempts, and its write (`Scheduling`) only manual retries that were already asked for can add an attempt
(`Waiting`): nobody else reopens a row that is held or taken up, and no owner is let in, since it has not failed. So all
along that stretch the attempts and the owners waiting for the row are together fewer than `MaxAttempts` plus the number of owners (`Limit`), and
what is then scheduled is within the limit.

The second subject (any processes, requests and bounds) is what order rows say. They are written by an execution, by the syncs and by
the emergency stop, from answers that may be old. Nobody's knowledge of an order is ever *wrong*, only behind
(`Behind`: the order has executed more since, or has ended): `Following` says so of each row (`Booked`) and of
what each activity has in hand (`Informed`). Since an order only executes forwards (`ExchangeForward`, an action
property) what is behind stays behind, and each write keeps `Booked`. `NeverOverAccounted` and `FinalOrdersEnded`
follow for all activities together; `SettledOrdersAccounted` follows if the owner does not pull the emergency stop, the one writer that
makes a row final without its fills. That rows and exchange implement `OrderLedger` (`LedgerKept`) is proved for one
synchronizing activity (`OneSyncer`): with two, the older answer may be written last, and a row's fills shrink.

**BooksProofs** builds on `OrderProofs`. Its subject is what the locks are for: under `SchedulersAlone`
(one runner, one syncer, an owner who leaves the orders alone; retriers as many as you like, each process
may crash) and as long as no retry has got its action created (`~Retried`, whose necessity is shown in section 3), positions are the
sum of their orders' fills (`BooksBalance`), one order is unresolved and one position open at a time (`OrdersOneByOne`, `PositionsOneByOne`),
the exchange never sells more than it bought (`SalesCovered`) and the ladder keeps to its limit if that is not
0 (`LadderBounded`). Why snapshots are safe then is the invariant `BooksInv`:

- `Sound`: an order that is unresolved is the only one, and can be executed: what it may still sell is in stock;
- `Balanced`: every position and sub-position is what its order rows add up to;
- `Fresh`: what a runner holds since it read the rows is still in the rows, because no order is unresolved
  that the syncer could write about; and what the syncer holds is, because a runner that sees an
  unresolved order goes no further (`hasPendingExecution`);
- `Acting` and `Limits`: jobs are of the runner's making or a retry's, and the exchange executes no more than was ordered.

`Sales` adds that each sale on the exchange, reported or lost, is covered by purchases of the position
its key names; `Ladder` that a decision to buy a level is about the next one, or its key is taken and the order will
never be placed. Lots are counted as elements of a set (`Total`), so that sums are cardinalities.

**PaperProofs** (any ticks, owners, parameters and bounds). The assumptions are `ProcAssumption` (a tick is no
owner's request), `UnitAssumption`, `ConfigsAssumption` (parameters are a plan's, a budget is a multiple of
`Unit`) and `StatusesAssumption` (the statuses of the schema). `OnePosition`: two positions are open only if the owner opened one by hand. The
property says nothing of a tick that has looked for an open position and is about to create one, so
`PaperInv` adds what is known there: `running` is set while a tick is past its look at
the set and one tick at most is (`Exclusive`), and while that one stands at `create` all open
positions were opened by hand (`AllByHand`), whatever the owner does meanwhile. What columns hold is of no
account there (`RowsStand` types a row over *some* set of values).

What columns hold is the subject of the other theorems. `PaperStands` has the inductive invariant `PaperSound`: what
a process remembers of the strategy gives a plan and is no more than the largest budget (`Affordable`), what it has
read of a position cost no more than that, and every level bought as a sub-position has its row. `LevelsOnce`
follows, since the row's key is unique and rows go only with their position. For `BudgetKept` the rounding matters: the check
is of a rounded quote against the budget, while the first purchase is not checked at all. What a level is allocated is no more than the
budget (`AllocatedType`), and rounds to no more than the budget, because the budget is a multiple of `Unit`
(`RoundType`, `PlanType`). Were it not, a first purchase could round up past it.

`PaperBalances` says that totals assigned from what was read agree with the trades. Its invariant `BooksKept`
holds for positions no owner has traded: what is held is what was bought and not sold, the cost is what was paid and not
returned, and the open sub-positions hold less than the position does (`Backing`), so that selling them leaves
a quantity to sell (`Kept`). What the one working tick has read of such a position is what is there (`Fresh`), since
a trade by an owner makes the position one that was traded by hand, of which the property says nothing. The
sums add up by `TotalJoin` and `Weighed`.

**ServicesProofs** (any callers, keys, times to live; any states and sockets). `FreshQuotes` follows from `CacheInv`: no
time on record lies in the future, and an entry expires a time to live after it was fetched, whatever answer
overtook which. `NoOrphans` follows from `StreamInv`: only the subscribed state is not stopped; it
knows the one socket that is connecting or open; a socket being closed belongs to a stopped
state; a timer is set only where there is no socket. Both contain the modules' type invariants.

`TotalsAddUp` needs that not only the totals in memory but every snapshot of the metrics, stored or on its way to the
database, may be restored (`Restorable`): it counts no delivery twice and none that was
not received. Snapshots stay restorable because what has begun or been delivered only grows
(`StillPlausible`); with the module's type invariant this is `TalliesInv`.

**BacktestProofs** (any number of candles, pages and requests, any sizes of pages). `ImportsWhole`: an import that was not cut off leaves no hole.
The invariant says that all of the range below the cursor is stored (`StoredBelow`), that a page in hand is the
lowest part of what is left (`PageFits`), and that the cursor goes up (`Progress`). `RunsReadWholeRange`: a run reads
each candle of its range once and in order, and all that were stored when it began, although imports go on storing. Pages are the
lowest members of a set of slots; the lemmas about them (`RankTaken`, `RankGrows`, `LowestFirst`, `LowestSize`) number a page's members.
`SimulationsExplained`: the invariant `SimulationInv` says that a request works with parameters its strategy had when it
read the run, and that a result in hand is what they and the candles make; the candles come in order (`OrderedCandles`) at prices that were
quoted (`Quoted`), and the rest is a matter of the simulators. `RunStatusesTrue`: of all requests to start a run one works on it (`OneWorks`,
from the conditional update), and what it holds, at each place of its program, is what the row may say (`Worked`, `Settled`).
It has one hypothesis, `NoneIsNoRow`: the value for null is not a row.

**SimulatorProofs** (any capital, ladder and multiplier, any strategy that `simulate` accepts, any candles in order). The
theorems are about pure functions, but the argument is that of an invariant: each loop has a lemma that the fold is
what its passes make, one after the other (`Climbs`, `Looks`, `Passes`), and `Upwards`, an induction over a set of numbers,
puts together what every pass keeps. `EventsExplainResults` has these parts of what is kept after each trade (`Core`, `Steps`):

- `Books`: the balance is the capital less what the trades paid, what is in stock is what they got, and what is in stock
  cost what was paid and not returned; the sums are folds, and a trade added to the list adds one term to them
  (`SumGrows`, `SumNext`, `TradeAdds`);
- `Kept`: the balance still has what is not given away yet (`Given`), because the weights of all levels are the
  whole of it (`CapitalSuffices`); therefore no entry is cut short, and every one buys something;
- `Rungs`: the entries of the list are the levels 1, 2, 3, ... in order; `Lots`: the independent positions are the levels bought on
  their own and not sold, each once, so that removing entries while the list is walked from its end loses none and sells none twice (`SellsAll`);
- `Curve`: the points so far are about the trades up to their candle, and later trades come later (`Dated`);
- `OneSided`: no candle both buys and sells. Wherever the next level is reached, all that is in stock is worth no more than it
  cost (`Waits`, `Dear`), so a candle that buys sells nothing (`NothingToSell`). A level entered lies below those before it, a price that
  did not reach the next level leaves it where it is, and a sale only takes away from what is in stock (`SaleKeepsWaiting`).

`ColumnsExplained` follows: every sale was a win, and once all is sold the profits of the sales are the profit of the run (`AllSold`).
`SingleEntryIsBaseline` compares the loops of the two simulators candle by candle (`Alike`): after the first candle all the capital is in stock, so
each goes by the same equity, peak and drawdown. `SimulationsAgree` is the part that holds of candles in any
order: each entry and each exit is counted once (`Counted`), and the result's columns are about its own curve (`Measured`).

Every invariant and every action property that a passing run checks is stated by a theorem (those of `BooksProofs` under the hypotheses
said there, which for `PositionsMatchFills` and `OneOrderAtATime` are stronger than `FirstRetries`); what is model-checked alone are the liveness
properties (`EveryTickEnds`, `OrdersSettle`, `SubmittedActionsSettle`, `StaysConnected`, `DeliveriesEnd`).
Liveness and `ENABLED` are outside this prover's reach and rest on TLC. The library's induction theorems cannot be used
either; where an argument needs induction over numbers, it is made from a least counterexample (`LeastExists`).

## 5. Not modelled, and the plan

Left for later, most useful first:

1. `OrderQuantity`: normalization of quantities by the exchange's filters, checked against
   "the largest multiple of the step that is not more". The limits of
   `testnet-strategy-risk.service.ts` as sums rather than as a refusal that may always happen.
2. Two backend processes trading one strategy on paper: here the other process's ticks are requests
   of the owner, and so exempt from `OnePaperPosition`.

Left out for good: authentication, users and credentials (single database calls and
cryptography), the runner health page (timestamps nothing depends on), the frontend
(views; its texts are quoted where they make claims), `TestnetFillAccountingService` (no caller), logging
and formatting. Of the modelled parts: names and symbols, prices (except in the simulators), the
delays of retries and reconnects, the age of database rows beyond "past the retention", and lists, comparisons and
CSV views, which change no state.
