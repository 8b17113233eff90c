---------------------------- MODULE TestnetState ----------------------------
(***************************************************************************)
(* The state shared by everything that works on one Binance testnet        *)
(* strategy: the strategy's database rows, what the exchange knows of its  *)
(* orders, and the processes.                                              *)
(*                                                                         *)
(* A process is one asynchronous activity.  Its steps end where the code   *)
(* awaits something, and what it read before an await is a snapshot it may *)
(* use after another process has changed the rows.  A Prisma transaction   *)
(* is one step.  Money (prices, cost, profit) and the comparisons made on  *)
(* it are left out: a price trigger or a risk limit may go either way.     *)
(* Quantities are counted in lots.                                         *)
(***************************************************************************)
EXTENDS StrategyActions, FiniteSets

CONSTANTS
    Runners,          \* ticks of testnet-strategy-runner; one, while its lock holds
    Retriers,         \* ticks of testnet-action-retry-scheduler
    Syncers,          \* ticks of testnet-order-sync-scheduler
    Users,            \* HTTP requests of the owner
    Requests,         \* bound: the kinds of requests the owner makes
    NoKey,            \* the key of an order placed without an action
    Lots,             \* lots a BUY asks for
    MaxDca,           \* TradingStrategy.maxDcaOrders
    IndependentFrom,  \* TradingStrategy.independentFromLevel
    Mortal,           \* processes that may crash between two steps
    EndStatuses,      \* ways an exchange order ends short of being filled
    MaxOrders,        \* bound: orders the exchange accepts in a behaviour
    MaxTries,         \* bound: generations of retry keys
    AttemptCap        \* bound: attempts up to which a manual retry is asked for

Proc == Runners \union Retriers \union Syncers \union Users

ASSUME NoKeyAssumption == NoKey \notin Key
ASSUME BoundsAssumption ==
    /\ Lots \in Nat \ {0} /\ MaxDca \in Nat /\ IndependentFrom \in Nat
    /\ MaxOrders \in Nat /\ MaxTries \in Nat /\ AttemptCap \in Nat
    /\ EndStatuses \subseteq {"CANCELED", "EXPIRED", "EXPIRED_IN_MATCH"}

VARIABLES
    strategy,   \* TradingStrategy.status
    positions,  \* TradingPosition rows of the strategy, in the order opened
    subs,       \* TradingSubPosition rows, by position and level
    orders,     \* TradingOrder rows, by the exchange's order id
    exchange,   \* what the exchange knows of each order it accepted
    pc, mem     \* where each process stands, and its local variables

rows == <<strategy, actions, positions, subs, orders>>
vars == <<strategy, actions, positions, subs, orders, exchange, pc, mem>>

-----------------------------------------------------------------------------
(* Data *)

Side == {"BUY", "SELL"}
Position == [status : {"OPEN", "CLOSED"}, qty : Nat, dca : Nat, version : Nat]
Sub == [status : {"OPEN", "CLOSED"}, qty : Nat]
LiveOrder == {"PENDING", "PARTIALLY_FILLED"}
OrderStatus == LiveOrder \union {"FILLED", "CANCELLED", "REJECTED", "FAILED"}
Order == [pos : Nat, side : Side, level : Nat, independent : BOOLEAN,
          linked : BOOLEAN, status : OrderStatus, accounted : Nat]
Working == {"NEW", "PARTIALLY_FILLED"}
ExchangeOrder == [key : Key \union {NoKey}, side : Side, qty : Nat, executed : Nat,
                  status : Working \union {"FILLED", "CANCELED", "EXPIRED", "EXPIRED_IN_MATCH"}]
Job == [type : Types \union {"NONE"}, side : Side, key : Key \union {NoKey},
        qty : Nat, level : Nat, auto : BOOLEAN]

NoPosition == [status |-> "CLOSED", qty |-> 0, dca |-> 0, version |-> 0]
NoSub == [status |-> "CLOSED", qty |-> 0]
NoOrder == [pos |-> NoId, side |-> "BUY", level |-> 0, independent |-> FALSE,
            linked |-> FALSE, status |-> "FAILED", accounted |-> 0]
NoAck == [key |-> NoKey, side |-> "BUY", qty |-> 0, executed |-> 0, status |-> "NEW"]
NoJob == [type |-> "NONE", side |-> "BUY", key |-> NoKey, qty |-> 0, level |-> 0,
          auto |-> FALSE]

\* The locals of a process at rest.  pos/row/sub: snapshot of a position and of
\* a sub-position; oid/order: snapshot of an order row; ack: what the exchange
\* answered; orig: the action a retry or a request is about; retry: whether the
\* caught error is of a retryable category; permanent: what markFailed decided
\* from the row it read; todo/acks: the emergency stop's cancellations to send,
\* and those answered but not yet written.
Blank == [job |-> NoJob, pos |-> NoId, row |-> NoPosition, sub |-> NoSub,
          oid |-> NoId, order |-> NoOrder, ack |-> NoAck, orig |-> NoKey,
          retry |-> FALSE, permanent |-> FALSE, todo |-> {}, acks |-> {}]

Independent(job) == job.type \in {"INDEPENDENT_ENTRY", "INDEPENDENT_EXIT"}

\* Faults: Binance's spelling is passed through; what ended is taken for open.
MapStatus_Raw(s) == IF s = "NEW" THEN "PENDING" ELSE s
MapStatus_Open(s) == IF s \in {"PARTIALLY_FILLED", "FILLED"} THEN s ELSE "PENDING"

\* mapOrderStatus
MapStatus(s) ==
    CASE s = "NEW" -> "PENDING"
      [] s = "CANCELED" -> "CANCELLED"
      [] s = "EXPIRED" -> "REJECTED"
      [] s = "EXPIRED_IN_MATCH" -> "FAILED"
      [] OTHER -> s

Less(m, n) == IF n >= m THEN 0 ELSE m - n     \* Math.max(m - n, 0)

\* findFirst({status: OPEN}, orderBy openedAt desc): its id, or null.
NewestOpen(id) ==
    \/ /\ id \in DOMAIN positions /\ positions[id].status = "OPEN"
       /\ \A j \in DOMAIN positions : j > id => positions[j].status # "OPEN"
    \/ id = NoId /\ \A j \in DOMAIN positions : positions[j].status # "OPEN"

RowOf(id) == IF id = NoId THEN NoPosition ELSE positions[id]
SubOf(id, level) == IF <<id, level>> \in DOMAIN subs THEN subs[<<id, level>>] ELSE NoSub
OrderOf(k) == IF actions[k].order = NoId THEN NoOrder ELSE orders[actions[k].order]
UnresolvedOrders == {o \in DOMAIN orders : orders[o].status \in LiveOrder}

\* The owner's request p of this kind may arrive.
Asks(p, kind) == pc[p] = "idle" /\ p \in Users /\ kind \in Requests

Goto(p, l) == pc' = [pc EXCEPT ![p] = l]
Return(p) == Goto(p, "idle") /\ mem' = [mem EXCEPT ![p] = Blank]

\* executeMarketOrder rejects: the retry scheduler catches and marks the action
\* it retries as failed; the runner reports ERROR, HTTP answers with the error.
Throw(p, retry) == IF p \in Retriers
                   THEN /\ Goto(p, "giveUp")
                        /\ mem' = [mem EXCEPT ![p] = [Blank EXCEPT !.orig = mem[p].orig,
                                                                   !.retry = retry]]
                   ELSE Return(p)

-----------------------------------------------------------------------------
(* Fill accounting *)

\* A fill of d lots is written from a snapshot of the row: the columns are
\* assigned, not incremented.
BuyParent(id, row, d, dca) ==
    positions' = [positions EXCEPT ![id].qty = row.qty + d, ![id].dca = dca,
                                   ![id].version = @ + 1]
SellParent(id, row, d) ==
    positions' = [positions EXCEPT
        ![id].qty = Less(row.qty, d),
        ![id].status = IF Less(row.qty, d) = 0 THEN "CLOSED" ELSE "OPEN",
        ![id].version = @ + 1]
BuySub(id, level, sub, d) ==
    subs' = Put(subs, <<id, level>>, [status |-> "OPEN", qty |-> sub.qty + d])
\* Fault: the sub-position is closed with its quantity.
SellSub_KeepsQty(id, level, sub, d) ==
    subs' = Put(subs, <<id, level>>,
                [status |-> IF Less(sub.qty, d) = 0 THEN "CLOSED" ELSE "OPEN", qty |-> sub.qty])

SellSub(id, level, sub, d) ==
    subs' = Put(subs, <<id, level>>,
                [status |-> IF Less(sub.qty, d) = 0 THEN "CLOSED" ELSE "OPEN",
                 qty |-> Less(sub.qty, d)])
=============================================================================
