---------------------------- MODULE SchedulerLock ----------------------------
(***************************************************************************)
(* One cron scheduler, replicated on several backend instances, and the    *)
(* Redis lock its ticks run under (redis-lock.service.ts).  The four lock- *)
(* protected schedulers (testnet strategies, paper strategies, order sync, *)
(* action retry) share this frame and differ only in what Work does.       *)
(*                                                                         *)
(* An instance is a Node process.  Cron fires again while an earlier tick  *)
(* of the same instance still awaits something, so an instance has several *)
(* slots in which an invocation of the handler can be active; the          *)
(* `running' flag is what keeps it to one.  Redis commands may fail before *)
(* or after they took effect.  The key's TTL may run out at any moment,    *)
(* since nothing renews it and a tick has no time limit.                   *)
(***************************************************************************)
EXTENDS Naturals, FiniteSets

CONSTANTS Instances,   \* backend processes
          Slots,       \* invocations of the cron handler within a process
          Tokens,      \* lock tokens (randomUUID)
          NoToken      \* no lock: the key is absent, or the local is null

ASSUME TokenAssumption == NoToken \notin Tokens

Calls == Instances \X Slots
Of(i) == {i} \X Slots

VARIABLES store,    \* the value of the lock's key in Redis
          running,  \* the service's running flag, per instance
          pc,       \* where each invocation stands
          lock,     \* the local variable `lock' of each invocation
          lapsed    \* invocations whose lock's TTL ran out under them (history)

vars == <<store, running, pc, lock, lapsed>>

TypeOK == /\ store \in Tokens \union {NoToken}
          /\ running \in [Instances -> BOOLEAN]
          /\ pc \in [Calls -> {"idle", "acquire", "work", "release"}]
          /\ lock \in [Calls -> Tokens \union {NoToken}]
          /\ lapsed \subseteq Calls

Init == /\ store = NoToken
        /\ running = [i \in Instances |-> FALSE]
        /\ pc = [c \in Calls |-> "idle"]
        /\ lock = [c \in Calls |-> NoToken]
        /\ lapsed = {}

\* A UUID is never drawn twice; one that neither Redis nor an invocation
\* still remembers can stand for a new one.
Fresh(t) == t # store /\ \A c \in Calls : lock[c] # t

\* Fault: the finally block forgets the flag.
Finish_KeepsFlag(c) == /\ pc' = [pc EXCEPT ![c] = "idle"]
                       /\ UNCHANGED running

\* The finally block: the flag is reset and the invocation returns.
Finish(c) == /\ running' = [running EXCEPT ![c[1]] = FALSE]
             /\ pc' = [pc EXCEPT ![c] = "idle"]

-----------------------------------------------------------------------------
\* Fault: the flag is set but not looked at.
Fire_Unguarded(c) == /\ pc[c] = "idle"
                     /\ running' = [running EXCEPT ![c[1]] = TRUE]
                     /\ pc' = [pc EXCEPT ![c] = "acquire"]
                     /\ UNCHANGED <<store, lock, lapsed>>

\* Cron fires.  With the flag set the handler returns at once.
Fire(c) == /\ pc[c] = "idle"
           /\ ~running[c[1]]
           /\ running' = [running EXCEPT ![c[1]] = TRUE]
           /\ pc' = [pc EXCEPT ![c] = "acquire"]
           /\ UNCHANGED <<store, lock, lapsed>>

\* Fault: SET without NX.
Acquire_Overwrites(c) ==
    /\ pc[c] = "acquire"
    /\ \E t \in Tokens : Fresh(t) /\ store' = t /\ lock' = [lock EXCEPT ![c] = t]
    /\ pc' = [pc EXCEPT ![c] = "work"]
    /\ UNCHANGED <<running, lapsed>>

\* SET key token NX PX ttl answers OK.
Acquire(c) == /\ pc[c] = "acquire"
              /\ store = NoToken
              /\ \E t \in Tokens : /\ Fresh(t)
                                   /\ store' = t
                                   /\ lock' = [lock EXCEPT ![c] = t]
              /\ pc' = [pc EXCEPT ![c] = "work"]
              /\ UNCHANGED <<running, lapsed>>

\* The key exists: acquire returns null and the tick is skipped.
AcquireTaken(c) == /\ pc[c] = "acquire"
                   /\ store # NoToken
                   /\ Finish(c)
                   /\ UNCHANGED <<store, lock, lapsed>>

\* The command fails, before it was applied or with its reply lost.  Either
\* way the local stays null, so nobody will release a key that was set.
AcquireError(c) == /\ pc[c] = "acquire"
                   /\ \/ UNCHANGED store
                      \/ /\ store = NoToken
                         /\ \E t \in Tokens : Fresh(t) /\ store' = t
                   /\ Finish(c)
                   /\ UNCHANGED <<lock, lapsed>>

\* The tick's body ends, normally or in the catch block.
Work(c) == /\ pc[c] = "work"
           /\ pc' = [pc EXCEPT ![c] = "release"]
           /\ UNCHANGED <<store, running, lock, lapsed>>

\* Faults: DEL without comparing tokens; the script's reply kept as the value.
Deleted_Always(c) == NoToken
Deleted_Reply(c) == IF store = lock[c] THEN 1 ELSE 0

\* The script that deletes the key only if it still holds this token.
Deleted(c) == IF store = lock[c] THEN NoToken ELSE store

Release(c) == /\ pc[c] = "release"
              /\ store' = Deleted(c)
              /\ lock' = [lock EXCEPT ![c] = NoToken]
              /\ lapsed' = lapsed \ {c}
              /\ Finish(c)

\* The script fails, before or after it ran; the error is only logged.
ReleaseError(c) == /\ pc[c] = "release"
                   /\ store' \in {store, Deleted(c)}
                   /\ lock' = [lock EXCEPT ![c] = NoToken]
                   /\ lapsed' = lapsed \ {c}
                   /\ Finish(c)

\* Redis drops the key when its PX time is over.
Expire == /\ store # NoToken
          /\ store' = NoToken
          /\ lapsed' = lapsed \union {c \in Calls : lock[c] = store}
          /\ UNCHANGED <<running, pc, lock>>

\* The process dies and is restarted with empty memory; Redis keeps the key.
Crash(i) == /\ running' = [running EXCEPT ![i] = FALSE]
            /\ pc' = [c \in Calls |-> IF c \in Of(i) THEN "idle" ELSE pc[c]]
            /\ lock' = [c \in Calls |-> IF c \in Of(i) THEN NoToken ELSE lock[c]]
            /\ lapsed' = lapsed \ Of(i)
            /\ UNCHANGED store

Step(c) == \/ Acquire(c) \/ AcquireTaken(c) \/ AcquireError(c)
           \/ Work(c) \/ Release(c) \/ ReleaseError(c)

Next == \/ \E c \in Calls : Fire(c) \/ Step(c)
        \/ \E i \in Instances : Crash(i)
        \/ Expire

Spec == Init /\ [][Next]_vars

\* Awaited Redis commands and the body of a tick return or throw at some
\* time; cron firing, crashes and the expiry of a key are not assumed.
FairSpec == Spec /\ \A c \in Calls : WF_vars(Step(c))

-----------------------------------------------------------------------------
(* Properties *)

\* Single flight: on one instance at most one invocation gets past the
\* `running' check, and the flag is set exactly while it is in flight, so a
\* failed acquire or release never leaves it set (the finally block).
SingleFlight ==
    \A i \in Instances :
        /\ \A c, d \in Of(i) : pc[c] # "idle" /\ pc[d] # "idle" => c = d
        /\ running[i] <=> \E c \in Of(i) : pc[c] # "idle"

\* What the token means: an invocation holds one exactly between acquire and
\* release; no two invocations hold the same; and the key still carries it
\* unless the TTL ran out, after which the key never carries it again.
TokenOwnership ==
    /\ \A c \in Calls : lock[c] # NoToken <=> pc[c] \in {"work", "release"}
    /\ \A c, d \in Calls : lock[c] = lock[d] /\ lock[c] # NoToken => c = d
    /\ \A c \in Calls \ lapsed : lock[c] # NoToken => store = lock[c]
    /\ \A c \in lapsed : lock[c] # NoToken /\ store # lock[c]

\* Two invocations, on whatever instances, both hold the lock only if the
\* TTL ran out under one of them.
MutualExclusion ==
    \A c, d \in Calls :
        lock[c] # NoToken /\ lock[d] # NoToken /\ c # d
            => c \in lapsed \/ d \in lapsed

\* release never deletes a key that another holder's SET created after this
\* holder's TTL ran out (the script's token comparison).
ReleaseOnlyOwnKey ==
    [][\A c \in Calls :
          lock[c] # NoToken /\ lock'[c] = NoToken /\ store' # store
              => store = lock[c]]_vars

\* Every tick that starts ends and lets the next one start, whatever Redis
\* does (testnet-strategy-scheduler.service.spec.ts, `runs again after ...').
EveryTickEnds == \A i \in Instances : running[i] ~> ~running[i]

\* The ticks of all instances, seen as jobs under a lease.
Holders == {c \in Calls : lock[c] # NoToken}
L == INSTANCE Lease WITH Jobs <- Calls, active <- Holders, late <- lapsed

\* The lock implements the lease.
LeaseSpec == L!Spec
=============================================================================
