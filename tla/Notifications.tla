----------------------------- MODULE Notifications -----------------------------
(***************************************************************************)
(* NotificationsService in one process: what is published is kept in       *)
(* memory, written to the database and sent to a webhook; the webhook's    *)
(* totals are saved as snapshots, of which the latest is restored when the *)
(* process starts; a daily job deletes what is older than the retention.   *)
(* A database row's age is only whether it has passed the retention.       *)
(***************************************************************************)
EXTENDS Integers, Sequences, SequencesExt, FiniteSets

CONSTANTS
    MinimumSeverity,   \* NOTIFICATION_WEBHOOK_MIN_SEVERITY, as its rank
    WebhookMaxAttempts,
    MaxRecent,         \* maxRecent
    MaxNotes,          \* bound: notifications published
    MaxRestarts        \* bound: restarts of the process

ASSUME NotificationsAssumption ==
    /\ MinimumSeverity \in 1..3 /\ WebhookMaxAttempts \in 1..5
    /\ MaxRecent \in Nat \ {0} /\ MaxNotes \in Nat /\ MaxRestarts \in Nat

VARIABLES
    notes,      \* everything published: its row, its delivery
    recent,     \* the list in memory, newest first
    metrics,    \* webhookMetrics in memory
    saving,     \* snapshots being written, by the delivery that writes them
    snapshots,  \* snapshot rows, in the order of recordedAt
    aged,       \* how many of them have passed the retention
    restarts    \* how often the process was started again

nvars == <<notes, recent, metrics, saving, snapshots, aged, restarts>>

InFlight == {"sending", "accepted", "waiting"}
\* got: how often the receiver has taken the notification in (its own state).
Note == [row : {"none", "writing", "stored", "old", "deleted"},
         phase : InFlight \union {"none", "delivered", "failed", "lost"},
         attempt : 0..WebhookMaxAttempts, got : 0..WebhookMaxAttempts]
Metrics == [attempted : Nat, delivered : Nat, failed : Nat, retried : Nat]
Zero == [attempted |-> 0, delivered |-> 0, failed |-> 0, retried |-> 0]

NInit ==
    /\ notes = <<>> /\ recent = <<>> /\ metrics = Zero
    /\ saving = <<>> /\ snapshots = <<>> /\ aged = 0 /\ restarts = 0

ShouldDeliver(severity) == severity >= MinimumSeverity

\* One more attempt, a retry if it is not the first.
Attempted(retry) ==
    metrics' = [metrics EXCEPT !.attempted = @ + 1, !.retried = IF retry THEN @ + 1 ELSE @]

\* publish, up to the first awaits of persist and deliverWebhook.
Publish(owned, severity) ==
    /\ Len(notes) < MaxNotes
    /\ notes' = Append(notes,
           [row |-> IF owned THEN "writing" ELSE "none",
            phase |-> IF ShouldDeliver(severity) THEN "sending" ELSE "none",
            attempt |-> IF ShouldDeliver(severity) THEN 1 ELSE 0, got |-> 0])
    /\ recent' = LET list == <<Len(notes) + 1>> \o recent
                 IN SubSeq(list, 1, IF Len(list) > MaxRecent THEN MaxRecent ELSE Len(list))
    /\ IF ShouldDeliver(severity) THEN Attempted(FALSE) ELSE UNCHANGED metrics
    /\ UNCHANGED <<saving, snapshots, aged, restarts>>

\* persist: the row is written, or the failure logged.
Persist(n) ==
    /\ notes[n].row = "writing"
    /\ \E r \in {"stored", "none"} : notes' = [notes EXCEPT ![n].row = r]
    /\ UNCHANGED <<recent, metrics, saving, snapshots, aged, restarts>>

\* The receiver takes the notification in; its answer is still to come.
Accept(n) ==
    /\ notes[n].phase = "sending"
    /\ notes' = [notes EXCEPT ![n].phase = "accepted", ![n].got = @ + 1]
    /\ UNCHANGED <<recent, metrics, saving, snapshots, aged, restarts>>

-----------------------------------------------------------------------------
(* deliverWebhook after the answer *)

\* A delivery ends: it is counted and the totals go to the database unawaited.
End(n, phase, m) ==
    /\ notes' = [notes EXCEPT ![n].phase = phase]
    /\ metrics' = m
    /\ saving' = [k \in DOMAIN saving \union {n} |-> IF k = n THEN m ELSE saving[k]]
    /\ UNCHANGED <<recent, snapshots, aged, restarts>>

Delivered(n) ==
    /\ notes[n].phase = "accepted"
    /\ End(n, "delivered", [metrics EXCEPT !.delivered = @ + 1])

\* Not worth another attempt, or none left.
GivesUp(n, retryable) == ~retryable \/ notes[n].attempt = WebhookMaxAttempts

\* Fault: a failure that is not worth another attempt is only logged.
Missed_Logged(n, retryable) ==
    IF GivesUp(n, retryable)
    THEN UNCHANGED nvars
    ELSE /\ notes' = [notes EXCEPT ![n].phase = "waiting"]
         /\ UNCHANGED <<recent, metrics, saving, snapshots, aged, restarts>>

\* An attempt that did not succeed: it is tried again later, or counted as failed.
Missed(n, retryable) ==
    IF GivesUp(n, retryable)
    THEN End(n, "failed", [metrics EXCEPT !.failed = @ + 1])
    ELSE /\ notes' = [notes EXCEPT ![n].phase = "waiting"]
         /\ UNCHANGED <<recent, metrics, saving, snapshots, aged, restarts>>

\* The receiver answers with an error (429 and 5xx are worth a retry).
Refused(n) ==
    notes[n].phase = "sending" /\ \E retryable \in BOOLEAN : Missed(n, retryable)

\* fetch throws; the receiver may have taken the notification in all the same.
TimedOut(n) == notes[n].phase \in {"sending", "accepted"} /\ Missed(n, TRUE)

\* Fault: the first attempt is counted as a retry, the retries are not.
Retry_Uncounted(n) ==
    /\ notes[n].phase = "waiting"
    /\ notes' = [notes EXCEPT ![n].phase = "sending", ![n].attempt = @ + 1]
    /\ Attempted(FALSE)
    /\ UNCHANGED <<recent, saving, snapshots, aged, restarts>>

\* The delay is over.
Retry(n) ==
    /\ notes[n].phase = "waiting"
    /\ notes' = [notes EXCEPT ![n].phase = "sending", ![n].attempt = @ + 1]
    /\ Attempted(TRUE)
    /\ UNCHANGED <<recent, saving, snapshots, aged, restarts>>

\* persistWebhookMetricsSnapshot: writes may be carried out in any order, or fail.
Saved(n) ==
    /\ n \in DOMAIN saving
    /\ \/ snapshots' = Append(snapshots, saving[n])
       \/ UNCHANGED snapshots
    /\ saving' = [k \in DOMAIN saving \ {n} |-> saving[k]]
    /\ UNCHANGED <<notes, recent, metrics, aged, restarts>>

-----------------------------------------------------------------------------
(* Retention and restarts *)

TimePasses ==
    /\ aged' = Len(snapshots)
    /\ notes' = [n \in DOMAIN notes |->
                    IF notes[n].row = "stored" THEN [notes[n] EXCEPT !.row = "old"] ELSE notes[n]]
    /\ <<aged, notes>>' # <<aged, notes>>
    /\ UNCHANGED <<recent, metrics, saving, snapshots, restarts>>

\* cleanupExpired and cleanupExpiredWebhookMetricsSnapshots; either may fail.
CleanupExpired ==
    /\ \E n \in DOMAIN notes : notes[n].row = "old"
    /\ notes' = [n \in DOMAIN notes |->
                    IF notes[n].row = "old" THEN [notes[n] EXCEPT !.row = "deleted"] ELSE notes[n]]
    /\ UNCHANGED <<recent, metrics, saving, snapshots, aged, restarts>>

CleanupSnapshots ==
    /\ aged > 0
    /\ snapshots' = SubSeq(snapshots, aged + 1, Len(snapshots)) /\ aged' = 0
    /\ UNCHANGED <<notes, recent, metrics, saving, restarts>>

\* restoreWebhookMetricsSnapshot: what it finds, or nothing if it cannot read.
Restored(m) == m = Zero \/ (snapshots # <<>> /\ m = Last(snapshots))

\* The process is started again: what was under way in it is lost, and the
\* totals are restored before anything is published.
Restart ==
    /\ restarts < MaxRestarts /\ notes # <<>>
    /\ restarts' = restarts + 1
    /\ notes' = [n \in DOMAIN notes |->
           [notes[n] EXCEPT !.row = IF @ = "writing" THEN "none" ELSE @,
                            !.phase = IF @ \in InFlight THEN "lost" ELSE @]]
    /\ recent' = <<>> /\ saving' = <<>>
    /\ \E m \in {Zero} \union Range(snapshots) : Restored(m) /\ metrics' = m
    /\ UNCHANGED <<snapshots, aged>>

NNext ==
    \/ \E owned \in BOOLEAN, severity \in 1..3 : Publish(owned, severity)
    \/ \E n \in DOMAIN notes : \/ Persist(n) \/ Accept(n) \/ Delivered(n) \/ Refused(n)
                               \/ TimedOut(n) \/ Retry(n) \/ Saved(n)
    \/ TimePasses \/ CleanupExpired \/ CleanupSnapshots \/ Restart

-----------------------------------------------------------------------------
(* Properties *)

NotificationsTypeOK ==
    /\ notes \in Seq(Note) /\ recent \in Seq(Nat) /\ Len(recent) <= MaxRecent
    /\ metrics \in Metrics /\ snapshots \in Seq(Metrics)
    /\ DOMAIN saving \subseteq DOMAIN notes /\ saving \in [DOMAIN saving -> Metrics]
    /\ aged \in 0..Len(snapshots) /\ restarts \in 0..MaxRestarts

Begun == {n \in DOMAIN notes : notes[n].attempt > 0}
Sum(m) == m.delivered + m.failed

\* The totals the owner is shown add up, although they are counted by several
\* deliveries at once, saved in any order and restored: every delivery begun is
\* under way, delivered or failed, once; over restarts a delivery may be missing,
\* but none is counted twice or as delivered without having been received.
MetricsAddUp ==
    LET underway == Cardinality({n \in DOMAIN notes : notes[n].phase \in InFlight})
        received == Cardinality({n \in DOMAIN notes : notes[n].got > 0})
        begun == metrics.attempted - metrics.retried
    IN /\ Sum(metrics) + underway <= begun
       /\ begun <= Cardinality(Begun)
       /\ restarts = 0 => Sum(metrics) + underway = begun
       /\ metrics.delivered <= received
       /\ \A i \in DOMAIN snapshots : Sum(snapshots[i]) > 0

\* A notification that is being delivered is delivered, failed, or lost with
\* its process, however the receiver behaves.
DeliveriesEnd ==
    \A n \in 1..MaxNotes :
        (n \in DOMAIN notes /\ notes[n].phase \in InFlight) ~>
        (n \in DOMAIN notes /\ notes[n].phase \notin InFlight)

Answered(n) == n \in DOMAIN notes /\ (Delivered(n) \/ Refused(n) \/ TimedOut(n))
Resumed(n) == n \in DOMAIN notes /\ Retry(n)
NotificationsFairness == \A n \in 1..MaxNotes : WF_nvars(Answered(n)) /\ WF_nvars(Resumed(n))
=============================================================================
