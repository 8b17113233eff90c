----------------------------- MODULE OrderSync ------------------------------
(***************************************************************************)
(* A tick of the order-sync scheduler                                      *)
(* (testnet-order-sync-scheduler.service.ts) and the owner's sync of one   *)
(* order: syncOrder, and the recovery of actions whose order has ended.    *)
(***************************************************************************)
EXTENDS TestnetState

\* syncOrder reads the order with its position and sub-position.  The scheduler
\* asks for unresolved orders only; the user may name any.
SyncRead(p, o) ==
    LET order == orders[o] IN
    /\ \/ pc[p] = "idle" /\ p \in Syncers /\ o \in UnresolvedOrders
       \/ Asks(p, "sync") /\ o \in DOMAIN orders
    /\ mem' = [mem EXCEPT ![p].oid = o, ![p].order = order, ![p].row = positions[order.pos],
                          ![p].sub = IF order.linked THEN SubOf(order.pos, order.level)
                                     ELSE NoSub]
    /\ Goto(p, "fetch")
    /\ UNCHANGED <<rows, exchange>>

SyncFetch(p) ==
    /\ pc[p] = "fetch"
    /\ mem' = [mem EXCEPT ![p].ack = exchange[mem[p].oid]]
    /\ Goto(p, "apply")
    /\ UNCHANGED <<rows, exchange>>

\* getOrder, or the transaction, throws: logged, and tried at a later tick.
SyncFails(p) ==
    /\ pc[p] \in {"fetch", "apply"}
    /\ Return(p)
    /\ UNCHANGED <<rows, exchange>>

\* The fills that the snapshot of the order row has not accounted.
\* Faults: what was accounted is not taken off; only a complete fill counts.
Delta_Whole(order, ack) == ack.executed
Delta_FilledOnly(order, ack) ==
    IF ack.status = "FILLED" THEN Less(ack.executed, order.accounted) ELSE 0
Delta(order, ack) == Less(ack.executed, order.accounted)

\* The transaction: the fills not yet accounted in the snapshot are added to
\* the snapshot, and the action follows the order's status.
SyncApply(p) ==
    LET m == mem[p]
        order == m.order
        d == Delta(order, m.ack)
        sub == IF order.linked THEN m.sub ELSE SubOf(order.pos, order.level)
    IN
    /\ pc[p] = "apply"
    /\ CASE d > 0 /\ ~order.independent /\ order.side = "BUY" ->
              BuyParent(order.pos, m.row, d, m.row.dca + IF order.accounted = 0 THEN 1 ELSE 0)
         [] d > 0 /\ ~order.independent /\ order.side = "SELL" ->
              SellParent(order.pos, m.row, d)
         [] OTHER -> UNCHANGED positions
    /\ CASE d > 0 /\ order.independent /\ order.side = "BUY" ->
              BuySub(order.pos, order.level, sub, d)
         [] d > 0 /\ order.independent /\ order.side = "SELL" ->
              SellSub(order.pos, order.level, m.sub, d)
         [] OTHER -> UNCHANGED subs
    /\ orders' = [orders EXCEPT
          ![m.oid].status = MapStatus(m.ack.status),
          ![m.oid].linked = order.linked \/ (order.independent /\ d > 0),
          ![m.oid].accounted = order.accounted + d]
    /\ actions' = [k \in DOMAIN actions |->
          IF actions[k].order = m.oid
          THEN Bound(actions[k], m.oid, order.pos, m.ack.status = "FILLED")
          ELSE actions[k]]
    /\ Return(p)
    /\ UNCHANGED <<strategy, exchange>>

\* Fault: the actions of orders that were cancelled or rejected are passed over.
RecoverRead_FilledOnly(p, k) ==
    /\ pc[p] = "idle" /\ p \in Syncers
    /\ actions[k].status \in Unresolved \/ RetryDue(k)
    /\ actions[k].order # NoId /\ OrderOf(k).status = "FILLED"
    /\ mem' = [mem EXCEPT ![p].orig = k, ![p].order = OrderOf(k)]
    /\ Goto(p, "recover")
    /\ UNCHANGED <<rows, exchange>>

\* After the orders, the scheduler goes through the recoverable actions, each
\* with its order as the query saw them; those without an order are left alone.
RecoverRead(p, k) ==
    /\ pc[p] = "idle" /\ p \in Syncers
    /\ actions[k].status \in Unresolved \/ RetryDue(k)
    /\ actions[k].order # NoId /\ OrderOf(k).status \notin LiveOrder
    /\ mem' = [mem EXCEPT ![p].orig = k, ![p].order = OrderOf(k)]
    /\ Goto(p, "recover")
    /\ UNCHANGED <<rows, exchange>>

\* The action of an order that was filled is completed.
RecoverFilled(p) ==
    /\ pc[p] = "recover" /\ mem[p].order.status = "FILLED"
    /\ MarkCompleted(mem[p].orig)
    /\ Return(p)
    /\ UNCHANGED <<strategy, positions, subs, orders, exchange>>

\* Fault: that an order ended is taken for a passing failure.
RecoverEnded_Retryable(p) ==
    /\ pc[p] = "recover" /\ mem[p].order.status # "FILLED"
    /\ mem' = [mem EXCEPT ![p].permanent = Permanent(actions[mem[p].orig], TRUE)]
    /\ Goto(p, "recoverWrite")
    /\ UNCHANGED <<rows, exchange>>

\* That of another is marked failed, with an error of no retryable category:
\* markFailed reads the action ...
RecoverEnded(p) ==
    /\ pc[p] = "recover" /\ mem[p].order.status # "FILLED"
    /\ mem' = [mem EXCEPT ![p].permanent = Permanent(actions[mem[p].orig], FALSE)]
    /\ Goto(p, "recoverWrite")
    /\ UNCHANGED <<rows, exchange>>

\* ... and writes its verdict.
RecoverFail(p) ==
    /\ pc[p] = "recoverWrite"
    /\ MarkFailed(mem[p].orig, mem[p].permanent)
    /\ Return(p)
    /\ UNCHANGED <<strategy, positions, subs, orders, exchange>>

Recover(p) == RecoverFilled(p) \/ RecoverEnded(p) \/ RecoverFail(p)
=============================================================================
