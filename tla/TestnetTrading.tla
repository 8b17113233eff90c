--------------------------- MODULE TestnetTrading ---------------------------
(***************************************************************************)
(* All that may work on one testnet strategy at a time: the runner, the    *)
(* retry scheduler, the order-sync scheduler, the owner's requests and the *)
(* emergency stop, with the exchange, crashes and changes of the           *)
(* strategy's status.                                                      *)
(***************************************************************************)
EXTENDS TestnetRunner, ActionRetry, OrderSync, EmergencyStop

(* The owner's order requests *)

Request(p, job) ==
    /\ mem' = [mem EXCEPT ![p].job = job]
    /\ Goto(p, "start")
    /\ UNCHANGED <<rows, exchange>>

\* POST :strategyId/testnet-order carries no action key: nothing is claimed.
RequestOrder(p) ==
    /\ Asks(p, "order")
    /\ \E side \in Side : Request(p, [NoJob EXCEPT !.side = side, !.qty = Lots])

\* closePosition, of a position or of one of its sub-positions.  The key of the
\* former carries the position's updatedAt, that of the latter never changes.
RequestClose(p) ==
    /\ Asks(p, "close")
    /\ strategy = "PAUSED"
    /\ \E id \in DOMAIN positions :
          /\ positions[id].status = "OPEN"
          /\ \A o \in UnresolvedOrders : orders[o].pos # id
          /\ \/ /\ positions[id].qty > 0
                /\ Request(p, [ParentExit(id) EXCEPT
                      !.auto = FALSE, !.level = 0, !.key.by = "manual",
                      !.key.tag = positions[id].version])
             \/ \E job \in IndependentExits(id) :
                   Request(p, [job EXCEPT !.auto = FALSE, !.key.by = "manual"])

\* The status may be set to anything at any time.
SetStatus ==
    /\ "status" \in Requests
    /\ strategy' \in {"RUNNING", "PAUSED", "STOPPED"} \ {strategy}
    /\ UNCHANGED <<actions, positions, subs, orders, exchange, pc, mem>>

-----------------------------------------------------------------------------
(* The exchange, and crashes *)

ExchangeFills(o) ==
    /\ exchange[o].status \in Working
    /\ \E e \in exchange[o].executed + 1 .. exchange[o].qty :
          exchange' = [exchange EXCEPT
              ![o].executed = e,
              ![o].status = IF e = exchange[o].qty THEN "FILLED" ELSE "PARTIALLY_FILLED"]
    /\ UNCHANGED <<rows, pc, mem>>

ExchangeEnds(o) ==
    /\ exchange[o].status \in Working
    /\ \E s \in EndStatuses : exchange' = [exchange EXCEPT ![o].status = s]
    /\ UNCHANGED <<rows, pc, mem>>

\* The instance running the activity dies; only the rows remain.
Crash(p) ==
    /\ pc[p] # "idle" /\ p \in Mortal
    /\ Return(p)
    /\ UNCHANGED <<rows, exchange>>

-----------------------------------------------------------------------------
\* The owner has created the strategy, and has started it or not.
Init ==
    /\ strategy \in {"RUNNING", "PAUSED"}
    /\ actions = <<>> /\ positions = <<>> /\ subs = <<>> /\ orders = <<>>
    /\ exchange = <<>>
    /\ pc = [p \in Proc |-> "idle"]
    /\ mem = [p \in Proc |-> Blank]

TickStep(p) == TickDecide(p) \/ TickSkip(p) \/ TickExecute(p)
RetryStep(p) == RetryPick(p) \/ RetryClaim(p) \/ RetryGone(p)
                \/ GiveUpRead(p) \/ GiveUp(p)
SyncStep(p) == \/ \E o \in DOMAIN orders : SyncRead(p, o)
               \/ SyncFetch(p) \/ SyncFails(p) \/ SyncApply(p)
               \/ \E k \in DOMAIN actions : RecoverRead(p, k)
               \/ Recover(p)
RequestStep(p) == \/ RequestOrder(p) \/ RequestClose(p)
                  \/ RequestRetry(p) \/ ManualRetry(p)
                  \/ RequestCancel(p) \/ ManualCancel(p)
StopStep(p) == StopRows(p) \/ StopList(p) \/ StopCancel(p) \/ StopWrite(p) \/ StopDone(p)

Next ==
    \/ \E p \in Proc : \/ TickStep(p) \/ ExecutionStep(p) \/ RetryStep(p)
                       \/ SyncStep(p) \/ RequestStep(p) \/ StopStep(p) \/ Crash(p)
    \/ SetStatus
    \/ \E o \in DOMAIN exchange : ExchangeFills(o) \/ ExchangeEnds(o)

Spec == Init /\ [][Next]_vars

\* An order on the exchange ends some time.  The sync scheduler goes through
\* all unresolved orders and recoverable actions at every tick; the exchange
\* and the database answer it again and again if it asks again and again.
SyncOrder(p, o) == o \in DOMAIN orders /\ SyncRead(p, o)
RecoverOrder(p, o) == \E k \in DOMAIN actions : actions[k].order = o /\ RecoverRead(p, k)
Ends(o) == o \in DOMAIN exchange /\ (ExchangeFills(o) \/ ExchangeEnds(o))
FairSpec ==
    /\ Spec
    /\ \A o \in 1..MaxOrders : WF_vars(Ends(o))
    /\ \A p \in Syncers :
          /\ \A o \in 1..MaxOrders : SF_vars(SyncOrder(p, o)) /\ SF_vars(RecoverOrder(p, o))
          /\ SF_vars(SyncFetch(p)) /\ SF_vars(SyncApply(p)) /\ WF_vars(Recover(p))

-----------------------------------------------------------------------------
(* Properties *)

PCs == {"idle", "tick", "start", "claim", "create", "place", "commit", "fail", "failWrite",
        "claimRetry", "giveUp", "giveUpWrite", "fetch", "apply", "recover", "recoverWrite",
        "retryWrite", "cancelWrite", "stopList", "stopping"}

Memory == [job : Job, pos : Nat, row : Position, sub : Sub, oid : Nat, order : Order,
           ack : ExchangeOrder, orig : Key \union {NoKey}, retry : BOOLEAN,
           permanent : BOOLEAN, todo : SUBSET Nat, acks : SUBSET Nat]

TypeOK ==
    /\ strategy \in {"RUNNING", "PAUSED", "STOPPED"}
    /\ ActionsTypeOK
    /\ positions \in Seq(Position)
    /\ DOMAIN subs \subseteq (DOMAIN positions) \X Nat /\ subs \in [DOMAIN subs -> Sub]
    /\ exchange \in Seq(ExchangeOrder)
    /\ DOMAIN orders \subseteq DOMAIN exchange /\ orders \in [DOMAIN orders -> Order]
    /\ pc \in [Proc -> PCs]
    /\ mem \in [Proc -> Memory]

\* An action key buys at most one order on the exchange, however many times it
\* is presented, by whom, and whatever crashes, is lost or is retried between
\* (README, `idempotent strategy actions').
OneOrderPerKey ==
    \A i, j \in DOMAIN exchange :
        exchange[i].key = exchange[j].key /\ exchange[i].key # NoKey => i = j

\* The books never run ahead of the exchange: no order has more fills accounted
\* than the exchange has executed.
NeverOverAccounted ==
    \A o \in DOMAIN orders : orders[o].accounted <= exchange[o].executed

\* The sum of numbers of lots, one for each order: the lots are counted.
LotsIn(f) == UNION {{o} \X (1..f[o]) : o \in DOMAIN f}
Total(f) == Cardinality(LotsIn(f))

\* What the order rows say was bought and sold, of a position or sub-position.
Accounted(os, side) ==
    Total([o \in {o \in os : orders[o].side = side} |-> orders[o].accounted])
OrdersOf(id) == {o \in DOMAIN orders : orders[o].pos = id /\ ~orders[o].independent}
OrdersOfSub(s) ==
    {o \in DOMAIN orders : /\ orders[o].pos = s[1] /\ orders[o].level = s[2]
                           /\ orders[o].independent}

\* No retry has got its action created; or only first ones have: nothing was
\* retried twice, and no retry was retried. (One attempt and one generation of
\* retries therefore leave no behaviour out of what is said of such states.)
Retried == \E k \in DOMAIN actions : k.tries # <<>>
FirstRetries ==
    ~Retried \/ \A k \in DOMAIN actions : actions[k].attempts <= 1 /\ Len(k.tries) <= 1

\* While only the schedulers work on a strategy, no fill is lost or counted twice
\* between an order row and the position it belongs to, although both are written
\* from snapshots: the runner stays out while an order is unresolved. The retry
\* scheduler does not take the strategy's lock, and a retry of a retry does write
\* from a snapshot that is stale (README), so this is said of first retries only.
PositionsMatchFills == FirstRetries =>
    /\ \A id \in DOMAIN positions :
          positions[id].qty = Accounted(OrdersOf(id), "BUY") - Accounted(OrdersOf(id), "SELL")
    /\ \A s \in DOMAIN subs :
          subs[s].qty = Accounted(OrdersOfSub(s), "BUY") - Accounted(OrdersOfSub(s), "SELL")

\* The exchange never executed more sales than purchases for the strategy,
\* lost answers, crashes and rolled-back transactions included: an exit that
\* may have gone through is never sent again under another key.
Executed(side) ==
    Total([o \in {o \in DOMAIN exchange : exchange[o].side = side} |-> exchange[o].executed])
NeverOversold == Executed("SELL") <= Executed("BUY")

\* The automatic ladder stays within the configured number of DCA orders.
DcaWithinLimit == \A id \in DOMAIN positions : positions[id].dca <= MaxDca

\* A position's dcaCount counts its filled DCA orders, those of level 2 and up
\* (testnet-fill-accounting.service.ts counts `order.level > 1' only).
DcaCountsDcaOrders ==
    \A id \in DOMAIN positions :
        positions[id].dca <= Cardinality({o \in OrdersOf(id) : orders[o].side = "BUY"
                                                              /\ orders[o].level > 1})

\* An order row in a final state has every fill of its order accounted: the
\* sync scheduler never looks at it again.
SettledOrdersAccounted ==
    \A o \in DOMAIN orders :
        orders[o].status \notin LiveOrder => orders[o].accounted = exchange[o].executed

\* An order whose row is final has ended on the exchange, although three services
\* write the rows from answers that may be lost or late: no order goes on working
\* that nobody looks after any more, cancellations that failed included.
FinalOrdersEnded ==
    \A o \in DOMAIN orders :
        orders[o].status \notin LiveOrder => exchange[o].status \notin Working

\* While only the schedulers work on a strategy, at most one of its orders is
\* unresolved at a time, which is what makes their writes from snapshots safe.
\* This too is said of first retries only.
OneOrderAtATime == FirstRetries => Cardinality(UnresolvedOrders) <= 1

\* The automatic strategy never opens a second position beside an open one,
\* although every tick decides from a snapshot taken before its lock.
OneOpenPosition ==
    Cardinality({id \in DOMAIN positions : positions[id].status = "OPEN"}) <= 1

\* A retry is scheduled with all attempts used up only if requests of the owner
\* got between markFailed's read of the row and its write: each that was under way
\* may have added one. Without an owner, MaxAttempts is never exceeded.
RetryWithinAttempts ==
    \A k \in DOMAIN actions :
        actions[k].retryable => actions[k].attempts < MaxAttempts + Cardinality(Users)

\* A retry that is due is not kept from executing by the very action it
\* retries (markFailed announces that the action `will be retried').
RetryNotSelfBlocked ==
    \A p \in Retriers : pc[p] = "claim" => mem[p].orig \notin Blockers(mem[p].job.key, mem[p].pos)

\* The emergency stop leaves orders on the exchange alone (its dialog: `does
\* not cancel already-submitted Binance orders').
StopLeavesOrders ==
    [][\A p \in Users : pc[p] = "stopping" /\ mem'[p] # mem[p] => exchange' = exchange]_vars

\* The order rows and the exchange, seen as a ledger: what was executed never
\* shrinks, what is accounted never shrinks and follows what was executed.
Ledger == INSTANCE OrderLedger WITH
              executed <- [o \in DOMAIN exchange |-> exchange[o].executed],
              accounted <- [o \in DOMAIN orders |-> orders[o].accounted]
LedgerSpec == Ledger!Spec

\* Whatever the exchange makes of an order, the books learn it: an order row
\* does not stay unresolved, and an action not SUBMITTED, for ever.
OrdersSettle ==
    \A o \in 1..MaxOrders : o \in UnresolvedOrders ~> o \notin UnresolvedOrders
Submitted(o) == \E k \in DOMAIN actions : actions[k].order = o /\ actions[k].status = "SUBMITTED"
SubmittedActionsSettle == \A o \in 1..MaxOrders : Submitted(o) ~> ~Submitted(o)
=============================================================================
