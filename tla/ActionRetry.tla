---------------------------- MODULE ActionRetry -----------------------------
(***************************************************************************)
(* Retrying failed actions: the retry scheduler                            *)
(* (testnet-action-retry-scheduler.service.ts) and the owner's manual retry *)
(* and cancellation (testnet-strategy-action.service.ts).                  *)
(***************************************************************************)
EXTENDS OrderExecution

\* A due action of a running strategy, with its order, as the query saw it.
RetryPick(p) ==
    /\ pc[p] = "idle" /\ p \in Retriers
    /\ strategy = "RUNNING"
    /\ \E k \in DOMAIN actions :
          LET row == actions[k] IN
          /\ RetryDue(k)
          /\ Len(k.tries) < MaxTries
          /\ mem' = [mem EXCEPT
                ![p].orig = k,
                ![p].order = OrderOf(k),
                ![p].job = [type |-> row.type, qty |-> row.qty, level |-> row.level,
                            side |-> IF row.type \in Entries THEN "BUY" ELSE "SELL",
                            auto |-> TRUE, key |-> RetryKey(k, row.attempts + 1)]]
    /\ Goto(p, "claimRetry")
    /\ UNCHANGED <<rows, exchange>>

\* claimRetry, one conditional update, reopens the action ...
RetryClaim(p) ==
    /\ pc[p] = "claimRetry"
    /\ RetryDue(mem[p].orig)
    /\ Reopen(mem[p].orig)
    /\ Goto(p, IF mem[p].order.status \in LiveOrder THEN "giveUp" ELSE "start")
    /\ UNCHANGED <<strategy, positions, subs, orders, exchange, mem>>

\* ... or finds it no longer due.
RetryGone(p) ==
    /\ pc[p] = "claimRetry"
    /\ ~RetryDue(mem[p].orig)
    /\ Return(p)
    /\ UNCHANGED <<rows, exchange>>

\* markFailed reads the action that was retried ...
GiveUpRead(p) ==
    /\ pc[p] = "giveUp"
    /\ mem' = [mem EXCEPT ![p].permanent = Permanent(actions[mem[p].orig], mem[p].retry)]
    /\ Goto(p, "giveUpWrite")
    /\ UNCHANGED <<rows, exchange>>

\* ... and writes its verdict on whatever the row is by then.
GiveUp(p) ==
    /\ pc[p] = "giveUpWrite"
    /\ MarkFailed(mem[p].orig, mem[p].permanent)
    /\ Return(p)
    /\ UNCHANGED <<strategy, positions, subs, orders, exchange>>

\* manualRetry and cancelRetry read the action, check it, and then write.
RequestRetry(p) ==
    /\ Asks(p, "retry")
    /\ \E k \in DOMAIN actions :
          /\ actions[k].status \in {"FAILED", "PERMANENTLY_FAILED"}
          /\ actions[k].attempts < AttemptCap
          /\ OrderOf(k).status \notin LiveOrder
          /\ mem' = [mem EXCEPT ![p].orig = k]
    /\ Goto(p, "retryWrite")
    /\ UNCHANGED <<rows, exchange>>

ManualRetry(p) ==
    /\ pc[p] = "retryWrite"
    /\ Reopen(mem[p].orig)
    /\ Return(p)
    /\ UNCHANGED <<strategy, positions, subs, orders, exchange>>

RequestCancel(p) ==
    /\ Asks(p, "cancel")
    /\ \E k \in DOMAIN actions :
          /\ actions[k].status \in {"FAILED", "PENDING"}
          /\ mem' = [mem EXCEPT ![p].orig = k]
    /\ Goto(p, "cancelWrite")
    /\ UNCHANGED <<rows, exchange>>

ManualCancel(p) ==
    /\ pc[p] = "cancelWrite"
    /\ CancelRetry(mem[p].orig)
    /\ Return(p)
    /\ UNCHANGED <<strategy, positions, subs, orders, exchange>>
=============================================================================
