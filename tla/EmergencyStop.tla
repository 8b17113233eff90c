--------------------------- MODULE EmergencyStop ----------------------------
(***************************************************************************)
(* testnet-emergency-stop.service.ts.                                      *)
(***************************************************************************)
EXTENDS TestnetState

\* One transaction stops the strategy and cancels its open actions ...
StopRows(p) ==
    /\ Asks(p, "stop")
    /\ strategy' = "STOPPED"
    /\ CancelAll
    /\ Goto(p, "stopList")
    /\ UNCHANGED <<positions, subs, orders, exchange, mem>>

\* ... then the unresolved orders are listed ...
StopList(p) ==
    /\ pc[p] = "stopList"
    /\ mem' = [mem EXCEPT ![p].todo = UnresolvedOrders]
    /\ Goto(p, "stopping")
    /\ UNCHANGED <<rows, exchange>>

\* ... and each is cancelled on the exchange.  An order that is still working
\* is; the request or the answer may be lost, and for an order that has ended
\* the answer may be an error.
StopCancel(p) ==
    /\ pc[p] = "stopping"
    /\ \E o \in mem[p].todo, answered \in BOOLEAN :
          /\ \/ /\ exchange[o].status \in Working
                /\ exchange' = [exchange EXCEPT ![o].status = "CANCELED"]
             \/ /\ exchange[o].status \in Working => ~answered
                /\ UNCHANGED exchange
          /\ mem' = [mem EXCEPT ![p].todo = @ \ {o},
                                ![p].acks = IF answered THEN @ \union {o} ELSE @]
    /\ UNCHANGED <<rows, pc>>

\* Fault: the order row is written before the exchange has answered.
StopWrite_Early(p) ==
    /\ pc[p] = "stopping"
    /\ \E o \in mem[p].todo \union mem[p].acks :
          /\ orders' = [orders EXCEPT ![o].status = "CANCELLED"]
          /\ mem' = [mem EXCEPT ![p].acks = @ \ {o}]
    /\ UNCHANGED <<strategy, actions, positions, subs, exchange, pc>>

\* The status answered (final on the exchange, so it is still the same) is
\* written to the order row; its fills are not looked at.
StopWrite(p) ==
    /\ pc[p] = "stopping"
    /\ \E o \in mem[p].acks :
          /\ orders' = IF exchange[o].status \in {"CANCELED", "FILLED"}
                       THEN [orders EXCEPT ![o].status = MapStatus(exchange[o].status)]
                       ELSE orders
          /\ mem' = [mem EXCEPT ![p].acks = @ \ {o}]
    /\ UNCHANGED <<strategy, actions, positions, subs, exchange, pc>>

StopDone(p) ==
    /\ pc[p] = "stopping"
    /\ mem[p].todo = {} /\ mem[p].acks = {}
    /\ Return(p)
    /\ UNCHANGED <<rows, exchange>>
=============================================================================
