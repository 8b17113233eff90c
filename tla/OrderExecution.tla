--------------------------- MODULE OrderExecution ---------------------------
(***************************************************************************)
(* executeMarketOrder (testnet-strategy-execution.service.ts, with the risk *)
(* check wrapped around it): the one path by which an order reaches the    *)
(* exchange, for the runner, the retry scheduler and the owner's requests. *)
(* The caller has put the order to make in mem[p].job.                     *)
(***************************************************************************)
EXTENDS TestnetState

\* A risk limit, a failed check or a failed query rejects the call before an
\* action is claimed.
Refuse(p) ==
    /\ pc[p] \in {"start", "claim", "create"}
    /\ \E retry \in BOOLEAN : Throw(p, retry)
    /\ UNCHANGED <<rows, exchange>>

\* The strategy's status and its newest open position are read and checked.
Admit(p) ==
    LET job == mem[p].job IN
    /\ pc[p] = "start"
    /\ strategy = "PAUSED" \/ (job.auto /\ strategy = "RUNNING")
    /\ \E id \in DOMAIN positions \union {NoId} :
          /\ NewestOpen(id)
          /\ CASE job.type = "INDEPENDENT_EXIT" ->
                    id # NoId /\ SubOf(id, job.level).status = "OPEN"
                              /\ job.qty <= SubOf(id, job.level).qty
               [] job.type # "INDEPENDENT_EXIT" /\ job.side = "SELL" ->
                    id # NoId /\ job.qty <= RowOf(id).qty
               [] OTHER -> TRUE
          /\ mem' = [mem EXCEPT ![p].pos = id, ![p].row = RowOf(id),
                                ![p].sub = SubOf(id, job.level)]
    /\ Goto(p, IF job.type = "NONE" THEN "place" ELSE "claim")
    /\ UNCHANGED <<rows, exchange>>

\* claim finds the key in the table: the call returns `duplicate'.
Duplicate(p) ==
    /\ pc[p] \in {"claim", "create"}
    /\ Exists(mem[p].job.key)
    /\ Return(p)
    /\ UNCHANGED <<rows, exchange>>

\* Fault: nothing but the key is checked.
Blocked_Never(p) == FALSE

Blocked(p) ==
    \/ Blockers(mem[p].job.key, mem[p].pos) # {}
    \/ mem[p].pos # NoId /\ \E o \in UnresolvedOrders : orders[o].pos = mem[p].pos

\* claim finds another action or order unresolved; the error it throws belongs
\* to no retryable category.
RefuseClaim(p) ==
    /\ pc[p] = "claim"
    /\ ~Exists(mem[p].job.key) /\ Blocked(p)
    /\ Throw(p, FALSE)
    /\ UNCHANGED <<rows, exchange>>

PassClaim(p) ==
    /\ pc[p] = "claim"
    /\ ~Exists(mem[p].job.key) /\ ~Blocked(p)
    /\ Goto(p, "create")
    /\ UNCHANGED <<rows, exchange, mem>>

\* Fault: the table has no unique key.
CreateAction_NotUnique(p) ==
    /\ pc[p] = "create"
    /\ Create(mem[p].job.key, Pending(mem[p].job.type, mem[p].pos, mem[p].job.qty, mem[p].job.level))
    /\ Goto(p, "place")
    /\ UNCHANGED <<strategy, positions, subs, orders, exchange, mem>>

\* The insert that the unique key arbitrates; the loser is a Duplicate.
CreateAction(p) ==
    LET job == mem[p].job IN
    /\ pc[p] = "create"
    /\ ~Exists(job.key)
    /\ Create(job.key, Pending(job.type, mem[p].pos, job.qty, job.level))
    /\ Goto(p, "place")
    /\ UNCHANGED <<strategy, positions, subs, orders, exchange, mem>>

\* What the exchange may have made of a new market order when it answers.
NewOrders(job) ==
    {o \in [key : {job.key}, side : {job.side}, qty : {job.qty}, executed : 0..job.qty,
            status : Working \union {"FILLED"} \union EndStatuses] :
        /\ o.status = "FILLED" <=> o.executed = o.qty
        /\ o.status = "NEW" => o.executed = 0
        /\ o.status = "PARTIALLY_FILLED" => o.executed > 0}

Accept(p) == /\ pc[p] = "place"
             /\ Len(exchange) < MaxOrders
             /\ \E o \in NewOrders(mem[p].job) : exchange' = Append(exchange, o)
             /\ UNCHANGED rows

\* The exchange accepts the order and its answer arrives ...
Place(p) ==
    /\ Accept(p)
    /\ mem' = [mem EXCEPT ![p].oid = Len(exchange'), ![p].ack = exchange'[Len(exchange')]]
    /\ Goto(p, "commit")

\* ... or is lost: the caller sees an error.
PlaceLost(p) ==
    /\ Accept(p)
    /\ \E retry \in BOOLEAN : mem' = [mem EXCEPT ![p].retry = retry]
    /\ Goto(p, "fail")

\* The exchange (or the service's own checks) refuses the order.
PlaceRefused(p) ==
    /\ pc[p] = "place"
    /\ \E retry \in BOOLEAN : mem' = [mem EXCEPT ![p].retry = retry]
    /\ Goto(p, "fail")
    /\ UNCHANGED <<rows, exchange>>

\* The transaction after the exchange answered: the position (created if none
\* was open when it was read), the sub-position, the order row, the action.
Commit(p) ==
    LET m == mem[p]
        job == m.job
        d == m.ack.executed
        ind == Independent(job)
        id == IF m.pos = NoId THEN Len(positions) + 1 ELSE m.pos
    IN
    /\ pc[p] = "commit"
    /\ CASE m.pos = NoId ->
              positions' = Append(positions, [status |-> "OPEN", qty |-> IF ind THEN 0 ELSE d,
                                              dca |-> 0, version |-> 0])
         [] m.pos # NoId /\ ~ind /\ d > 0 /\ job.side = "BUY" ->
              BuyParent(id, m.row, d, m.row.dca + 1)
         [] m.pos # NoId /\ ~ind /\ d > 0 /\ job.side = "SELL" -> SellParent(id, m.row, d)
         [] OTHER -> UNCHANGED positions
    /\ CASE ind /\ d > 0 /\ job.side = "BUY" ->
              BuySub(id, job.level, SubOf(id, job.level), d)
         [] ind /\ d > 0 /\ job.side = "SELL" -> SellSub(id, job.level, m.sub, d)
         [] OTHER -> UNCHANGED subs
    /\ orders' = Put(orders, m.oid,
          [pos |-> id, side |-> job.side, independent |-> ind,
           level |-> IF job.level # 0 THEN job.level
                     ELSE 1 + IF m.pos = NoId \/ d > 0 THEN positions'[id].dca ELSE m.row.dca,
           linked |-> ind /\ (d > 0 \/ job.side = "SELL"),
           status |-> MapStatus(m.ack.status), accounted |-> d])
    /\ IF job.type = "NONE" THEN UNCHANGED actions
       ELSE Bind(job.key, m.oid, id, m.ack.status = "FILLED")
    /\ Return(p)
    /\ UNCHANGED <<strategy, exchange>>

\* The transaction is rolled back: the order exists on the exchange only.
CommitFails(p) ==
    /\ pc[p] = "commit"
    /\ \E retry \in BOOLEAN : mem' = [mem EXCEPT ![p].retry = retry]
    /\ Goto(p, "fail")
    /\ UNCHANGED <<rows, exchange>>

\* The catch block: markFailed reads the claimed action, if one was claimed ...
FailRead(p) ==
    /\ pc[p] = "fail"
    /\ IF mem[p].job.type = "NONE" THEN Throw(p, mem[p].retry)
       ELSE /\ mem' = [mem EXCEPT ![p].permanent =
                          Permanent(actions[mem[p].job.key], mem[p].retry)]
            /\ Goto(p, "failWrite")
    /\ UNCHANGED <<rows, exchange>>

\* ... and writes its verdict on whatever the row is by then; the error is rethrown.
FailClaim(p) ==
    /\ pc[p] = "failWrite"
    /\ MarkFailed(mem[p].job.key, mem[p].permanent)
    /\ Throw(p, mem[p].retry)
    /\ UNCHANGED <<strategy, positions, subs, orders, exchange>>

ExecutionStep(p) ==
    \/ Refuse(p) \/ Admit(p) \/ Duplicate(p) \/ RefuseClaim(p) \/ PassClaim(p)
    \/ CreateAction(p) \/ Place(p) \/ PlaceLost(p) \/ PlaceRefused(p)
    \/ Commit(p) \/ CommitFails(p) \/ FailRead(p) \/ FailClaim(p)
=============================================================================
