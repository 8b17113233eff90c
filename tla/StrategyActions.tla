--------------------------- MODULE StrategyActions ---------------------------
(***************************************************************************)
(* The StrategyAction table and the operations of the service that owns it *)
(* (testnet-strategy-action.service.ts).  A row is one intended exchange   *)
(* operation; its action key is unique in the table and makes it           *)
(* idempotent.  The operations are given as effects on one row or on the   *)
(* table; the processes that perform them are in the other modules.        *)
(*                                                                         *)
(* nextRetryAt is kept as whether it is set: the delay before a retry is   *)
(* due is not modelled, so a scheduled retry may be due at any time.       *)
(***************************************************************************)
EXTENDS Naturals, Sequences

CONSTANT MaxAttempts    \* StrategyAction.maxAttempts
ASSUME AttemptsAssumption == MaxAttempts \in Nat \ {0}

VARIABLE actions        \* the table: a function from action keys to rows

NoId == 0               \* a null foreign key; rows are numbered from 1

Entries == {"INITIAL_ENTRY", "DCA_ENTRY", "INDEPENDENT_ENTRY"}
Exits == {"PARENT_EXIT", "INDEPENDENT_EXIT"}
Types == Entries \union Exits
Unresolved == {"PENDING", "SUBMITTED"}
Status == Unresolved \union {"COMPLETED", "FAILED", "PERMANENTLY_FAILED", "CANCELLED"}

\* An action key names who builds it, for what, on which position, and a tag
\* (a level, or the time the position was last updated).  The retry scheduler
\* appends `:retry:<n>' to it, once per generation.
Key == [by : {"auto", "manual"}, type : Types, pos : Nat, tag : Nat, tries : Seq(Nat)]
RetryKey(k, n) == [k EXCEPT !.tries = Append(@, n)]

Row == [type : Types, status : Status, retryable : BOOLEAN, nextRetryAt : BOOLEAN,
        attempts : Nat, pos : Nat, order : Nat, qty : Nat, level : Nat]

\* f with k mapped to v, whether or not k was in its domain: an insert.
Put(f, k, v) == [x \in DOMAIN f \union {k} |-> IF x = k THEN v ELSE f[x]]

-----------------------------------------------------------------------------
(* Effects on one row *)

Pending(type, pos, qty, level) ==
    [type |-> type, status |-> "PENDING", retryable |-> FALSE, nextRetryAt |-> FALSE,
     attempts |-> 0, pos |-> pos, order |-> NoId, qty |-> qty, level |-> level]

Completed(row) == [row EXCEPT !.status = "COMPLETED", !.retryable = FALSE, !.nextRetryAt = FALSE]

\* Fault: one attempt too many is allowed.
Permanent_OneMore(row, retry) == ~retry \/ row.attempts > MaxAttempts

\* markFailed reads the row first: a failure of a retryable category is final
\* once the attempts are used up.
Permanent(row, retry) == ~retry \/ row.attempts >= MaxAttempts

\* Then it writes what it has decided; the attempts are not among the columns.
Failed(row, permanent) ==
    [row EXCEPT !.status = IF permanent THEN "PERMANENTLY_FAILED" ELSE "FAILED",
                !.retryable = ~permanent, !.nextRetryAt = ~permanent]

\* manualRetry and claimRetry write the same columns that matter here.
Reopened(row) == [row EXCEPT !.status = "PENDING", !.retryable = FALSE,
                             !.nextRetryAt = FALSE, !.attempts = @ + 1]

\* Fault: the retry columns stay as they were.
Cancelled_KeepsSchedule(row) == [row EXCEPT !.status = "CANCELLED"]

Cancelled(row) == [row EXCEPT !.status = "CANCELLED", !.retryable = FALSE, !.nextRetryAt = FALSE]

\* Fault: the order's id is not written.
Bound_NoOrder(row, order, pos, filled) ==
    [row EXCEPT !.pos = pos, !.status = IF filled THEN "COMPLETED" ELSE "SUBMITTED"]

\* The row is bound to the order row created or synchronized for it; the retry
\* columns are not among those written.
Bound(row, order, pos, filled) ==
    [row EXCEPT !.order = order, !.pos = pos,
                !.status = IF filled THEN "COMPLETED" ELSE "SUBMITTED"]

-----------------------------------------------------------------------------
(* The table *)

\* Fault: a key whose action failed is free again.
Exists_UnlessFailed(k) ==
    k \in DOMAIN actions /\ actions[k].status \notin {"FAILED", "PERMANENTLY_FAILED"}

Exists(k) == k \in DOMAIN actions

\* The actions that keep key k from being claimed for position pos.
Blockers(k, pos) ==
    {b \in DOMAIN actions \ {k} :
        /\ actions[b].status \in Unresolved
        /\ IF pos # NoId
           THEN \/ actions[b].pos = pos
                \/ actions[b].pos = NoId /\ actions[b].type = "INITIAL_ENTRY"
           ELSE actions[b].pos = NoId \/ actions[b].type = "INITIAL_ENTRY"}

RetryDue(k) == /\ Exists(k)
               /\ actions[k].status = "FAILED"
               /\ actions[k].retryable
               /\ actions[k].nextRetryAt

Create(k, row) == actions' = Put(actions, k, row)
MarkCompleted(k) == actions' = [actions EXCEPT ![k] = Completed(@)]
MarkFailed(k, permanent) == actions' = [actions EXCEPT ![k] = Failed(@, permanent)]
Reopen(k) == actions' = [actions EXCEPT ![k] = Reopened(@)]
CancelRetry(k) == actions' = [actions EXCEPT ![k] = Cancelled(@)]
Bind(k, order, pos, filled) == actions' = [actions EXCEPT ![k] = Bound(@, order, pos, filled)]

\* The emergency stop's updateMany over the user's pending and failed actions.
CancelAll == actions' = [k \in DOMAIN actions |->
                IF actions[k].status \in {"PENDING", "FAILED"}
                THEN Cancelled(actions[k]) ELSE actions[k]]

-----------------------------------------------------------------------------
(* Properties of the table *)

ActionsTypeOK == /\ DOMAIN actions \subseteq Key
                 /\ actions \in [DOMAIN actions -> Row]

\* The three columns that say whether a retry is to come agree: the due-retry
\* query, the recoverable list and claimRetry each test a different subset.
RetryColumnsAgree ==
    \A k \in DOMAIN actions :
        /\ actions[k].retryable <=> actions[k].status = "FAILED"
        /\ actions[k].nextRetryAt <=> actions[k].status = "FAILED"

\* An action whose order is on record is never scheduled again, however late a
\* failure is written: its retry would carry a key of its own, and buy twice
\* (OneOrderPerKey does not see that).
OrderedNotRetried ==
    \A k \in DOMAIN actions : actions[k].retryable => actions[k].order = NoId

\* An action that reports an order to have been submitted or filled names it.
ReportedActionsHaveOrders ==
    \A k \in DOMAIN actions :
        actions[k].status \in {"SUBMITTED", "COMPLETED"} => actions[k].order # NoId
=============================================================================
