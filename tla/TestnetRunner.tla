--------------------------- MODULE TestnetRunner ----------------------------
(***************************************************************************)
(* A tick of the automatic runner (testnet-strategy-runner.service.ts): it *)
(* looks at the strategy's position and asks for at most one order.        *)
(***************************************************************************)
EXTENDS OrderExecution

AutoJob(type, side, pos, tag, qty, level) ==
    [type |-> type, side |-> side, qty |-> qty, level |-> level, auto |-> TRUE,
     key |-> [by |-> "auto", type |-> type, pos |-> pos, tag |-> tag, tries |-> <<>>]]

\* What a tick may do with the open position it saw, depending on the price.
\* The key of the initial entry names no position, and the key of an
\* independent exit names the sub-position's row, one per level.  The trigger
\* prices are null while nothing of the position has been bought.
InitialEntry == AutoJob("INITIAL_ENTRY", "BUY", NoId, 0, Lots, 1)
NextEntry(id) ==
    LET level == positions[id].dca + 2
    IN  AutoJob(IF level >= IndependentFrom THEN "INDEPENDENT_ENTRY" ELSE "DCA_ENTRY",
                "BUY", id, level, Lots, level)
ParentExit(id) ==
    AutoJob("PARENT_EXIT", "SELL", id, 0, positions[id].qty, positions[id].dca + 1)
IndependentExits(id) ==
    {AutoJob("INDEPENDENT_EXIT", "SELL", id, s[2], subs[s].qty, s[2]) :
        s \in {s \in DOMAIN subs : s[1] = id /\ subs[s].status = "OPEN" /\ subs[s].qty > 0}}

\* Fault: one DCA order too many.
Decisions_OneMore(id) ==
    IF id = NoId THEN {InitialEntry}
    ELSE {j \in {NextEntry(id)} : positions[id].qty > 0 /\ positions[id].dca <= MaxDca}

Decisions(id) ==
    IF id = NoId THEN {InitialEntry}
    ELSE {j \in {ParentExit(id)} : positions[id].qty > 0}
         \union {j \in {NextEntry(id)} : positions[id].qty > 0 /\ positions[id].dca < MaxDca}
         \union IndependentExits(id)

\* runUserStrategies reads the strategy, its newest open position and the open
\* sub-positions before it takes the strategy's lock.  The decision depends on
\* nothing read later but the price, so it is made here; HOLD is no step.
TickDecide(p) ==
    /\ pc[p] = "idle" /\ p \in Runners
    /\ strategy = "RUNNING"
    /\ \E id \in DOMAIN positions \union {NoId} :
          /\ NewestOpen(id)
          /\ \E job \in Decisions(id) : mem' = [mem EXCEPT ![p].job = job]
    /\ Goto(p, "tick")
    /\ UNCHANGED <<rows, exchange>>

\* hasPendingExecution, under the lock: skip, or go on to executeMarketOrder.
PendingExecution ==
    \/ UnresolvedOrders # {}
    \/ \E k \in DOMAIN actions : actions[k].status \in Unresolved

TickSkip(p) ==
    /\ pc[p] = "tick"
    /\ PendingExecution
    /\ Return(p)
    /\ UNCHANGED <<rows, exchange>>

TickExecute(p) ==
    /\ pc[p] = "tick"
    /\ ~PendingExecution
    /\ Goto(p, "start")
    /\ UNCHANGED <<rows, exchange, mem>>
=============================================================================
