------------------------- MODULE SchedulerLockProofs -------------------------
(***************************************************************************)
(* Proofs about the scheduler lock for any number of instances, slots and  *)
(* tokens.  TokenOwnership is the inductive invariant: mutual exclusion by *)
(* itself says nothing of a key whose TTL ran out, and is preserved only   *)
(* because such a key can never again equal the late holder's token.       *)
(***************************************************************************)
EXTENDS SchedulerLock, TLAPS

\* The variables keep their types: in particular a crash or a failed Redis
\* command leaves every local of every invocation well formed.
THEOREM Typing == Spec => []TypeOK
<1>1. Init => TypeOK
  BY DEF Init, TypeOK
<1>2. TypeOK /\ [Next]_vars => TypeOK'
  <2> SUFFICES ASSUME TypeOK, [Next]_vars PROVE TypeOK'
    OBVIOUS
  <2> USE DEF TypeOK, Calls
  <2>1. ASSUME NEW c \in Calls, Fire(c) PROVE TypeOK'
    BY <2>1 DEF Fire
  <2>2. ASSUME NEW c \in Calls, Acquire(c) PROVE TypeOK'
    BY <2>2 DEF Acquire
  <2>3. ASSUME NEW c \in Calls, AcquireTaken(c) PROVE TypeOK'
    BY <2>3 DEF AcquireTaken, Finish
  <2>4. ASSUME NEW c \in Calls, AcquireError(c) PROVE TypeOK'
    BY <2>4 DEF AcquireError, Finish
  <2>5. ASSUME NEW c \in Calls, Work(c) PROVE TypeOK'
    BY <2>5 DEF Work
  <2>6. ASSUME NEW c \in Calls, Release(c) PROVE TypeOK'
    BY <2>6 DEF Release, Finish, Deleted
  <2>7. ASSUME NEW c \in Calls, ReleaseError(c) PROVE TypeOK'
    BY <2>7 DEF ReleaseError, Finish, Deleted
  <2>8. ASSUME NEW i \in Instances, Crash(i) PROVE TypeOK'
    BY <2>8 DEF Crash
  <2>9. CASE Expire
    BY <2>9 DEF Expire
  <2>10. CASE UNCHANGED vars
    BY <2>10 DEF vars
  <2>11. QED
    BY <2>1, <2>2, <2>3, <2>4, <2>5, <2>6, <2>7, <2>8, <2>9, <2>10 DEF Next, Step
<1>3. QED
  BY <1>1, <1>2, PTL DEF Spec

\* One step of the system preserves the meaning of the token.
LEMMA OwnershipStep ==
    ASSUME TypeOK, TokenOwnership, [Next]_vars
    PROVE  TokenOwnership'
<1> USE TokenAssumption DEF TypeOK, TokenOwnership
<1>1. ASSUME NEW c \in Calls, Fire(c) PROVE TokenOwnership'
  BY <1>1 DEF Fire
<1>2. ASSUME NEW c \in Calls, Acquire(c) PROVE TokenOwnership'
  <2>1. PICK t \in Tokens : /\ Fresh(t)
                            /\ store' = t
                            /\ lock' = [lock EXCEPT ![c] = t]
    BY <1>2 DEF Acquire
  <2>2. t # NoToken /\ \A d \in Calls : lock[d] # t
    BY <2>1 DEF Fresh
  <2>3. lock[c] = NoToken /\ c \notin lapsed
    BY <1>2 DEF Acquire
  <2>4. \A d \in Calls \ lapsed : lock[d] = NoToken
    BY <1>2 DEF Acquire
  <2>5. QED
    BY <1>2, <2>1, <2>2, <2>3, <2>4 DEF Acquire
<1>3. ASSUME NEW c \in Calls, AcquireTaken(c) PROVE TokenOwnership'
  BY <1>3 DEF AcquireTaken, Finish
<1>4. ASSUME NEW c \in Calls, AcquireError(c) PROVE TokenOwnership'
  BY <1>4 DEF AcquireError, Finish, Fresh
<1>5. ASSUME NEW c \in Calls, Work(c) PROVE TokenOwnership'
  BY <1>5 DEF Work
<1>6. ASSUME NEW c \in Calls, Release(c) \/ ReleaseError(c) PROVE TokenOwnership'
  <2>1. /\ pc[c] = "release"
        /\ store' = store \/ (store = lock[c] /\ store' = NoToken)
        /\ lock' = [lock EXCEPT ![c] = NoToken]
        /\ lapsed' = lapsed \ {c}
        /\ pc' = [pc EXCEPT ![c] = "idle"]
    BY <1>6 DEF Release, ReleaseError, Finish, Deleted
  <2>2. lock[c] # NoToken /\ \A d \in Calls : d # c => lock[d] # lock[c]
    BY <2>1
  <2>3. QED
    BY <2>1, <2>2
<1>7. ASSUME NEW i \in Instances, Crash(i) PROVE TokenOwnership'
  BY <1>7 DEF Crash
<1>8. CASE Expire
  BY <1>8 DEF Expire
<1>9. CASE UNCHANGED vars
  BY <1>9 DEF vars
<1>10. QED
  BY <1>1, <1>2, <1>3, <1>4, <1>5, <1>6, <1>7, <1>8, <1>9 DEF Next, Step

\* A lock token names one holder, and the key in Redis either carries it or
\* never will again.
THEOREM Ownership == Spec => []TokenOwnership
<1>1. Init => TokenOwnership
  BY DEF Init, TokenOwnership
<1>2. QED
  BY <1>1, OwnershipStep, Typing, PTL DEF Spec

\* Two invocations work at once only after the TTL ran out under one of them.
THEOREM Exclusion == Spec => []MutualExclusion
<1>1. TokenOwnership => MutualExclusion
  BY DEF TokenOwnership, MutualExclusion
<1>2. QED
  BY <1>1, Ownership, PTL

\* Giving up the lock never removes a key another invocation has set.
THEOREM OwnKeyOnly == Spec => ReleaseOnlyOwnKey
<1> DEFINE Safe == \A c \in Calls :
                     lock[c] # NoToken /\ lock'[c] = NoToken /\ store' # store
                         => store = lock[c]
<1>1. TypeOK /\ TokenOwnership /\ [Next]_vars => [Safe]_vars
  <2> SUFFICES ASSUME TypeOK, TokenOwnership, Next,
                      NEW d \in Calls,
                      lock[d] # NoToken, lock'[d] = NoToken, store' # store
               PROVE  store = lock[d]
    BY DEF vars
  <2> USE DEF TypeOK
  <2>1. ASSUME NEW c \in Calls, Step(c) \/ Fire(c) PROVE store = lock[d]
    BY <2>1, TokenAssumption
       DEF Fire, Step, Acquire, AcquireTaken, AcquireError, Work,
           Release, ReleaseError, Deleted, TokenOwnership
  <2>2. ASSUME NEW i \in Instances, Crash(i) PROVE store = lock[d]
    BY <2>2 DEF Crash
  <2>3. CASE Expire
    BY <2>3 DEF Expire
  <2>4. QED
    BY <2>1, <2>2, <2>3 DEF Next
<1>2. QED
  BY <1>1, Typing, Ownership, PTL DEF Spec, ReleaseOnlyOwnKey

\* Single flight holds for any number of overlapping cron firings, crashes and
\* Redis failures included.
THEOREM OneTickPerInstance == Spec => []SingleFlight
<1>1. Init => SingleFlight
  BY DEF Init, SingleFlight, Of, Calls
<1>2. TypeOK /\ SingleFlight /\ [Next]_vars => SingleFlight'
  <2> SUFFICES ASSUME TypeOK, SingleFlight, [Next]_vars,
                      NEW i \in Instances
               PROVE  /\ \A c, d \in Of(i) :
                            pc'[c] # "idle" /\ pc'[d] # "idle" => c = d
                      /\ running'[i] <=> \E c \in Of(i) : pc'[c] # "idle"
    BY DEF SingleFlight
  <2> DEFINE Goal == /\ \A c, d \in Of(i) :
                            pc'[c] # "idle" /\ pc'[d] # "idle" => c = d
                     /\ running'[i] <=> \E c \in Of(i) : pc'[c] # "idle"
  <2>a. \A c \in Calls : c[1] \in Instances /\ c \in Of(c[1])
    BY DEF Calls, Of
  <2>b. \A j \in Instances : \A c \in Of(j) : c \in Calls /\ c[1] = j
    BY DEF Calls, Of
  <2> USE DEF TypeOK, SingleFlight
  <2>1. ASSUME NEW c \in Calls, Fire(c) PROVE Goal
    BY <2>1, <2>a, <2>b DEF Fire
  <2>2. ASSUME NEW c \in Calls, Acquire(c) \/ Work(c) PROVE Goal
    BY <2>2, <2>a, <2>b DEF Acquire, Work
  <2>3. ASSUME NEW c \in Calls, pc[c] # "idle", Finish(c) PROVE Goal
    BY <2>3, <2>a, <2>b DEF Finish
  <2>4. ASSUME NEW c \in Calls, Step(c) PROVE Goal
    BY <2>2, <2>3, <2>4
       DEF Step, AcquireTaken, AcquireError, Release, ReleaseError
  <2>5. ASSUME NEW j \in Instances, Crash(j) PROVE Goal
    <3>1. /\ running' = [running EXCEPT ![j] = FALSE]
          /\ \A c \in Calls : pc'[c] = IF c \in Of(j) THEN "idle" ELSE pc[c]
      BY <2>5 DEF Crash
    <3>2. CASE i = j
      BY <3>1, <3>2, <2>b
    <3>3. CASE i # j
      <4>1. running'[i] = running[i]
        BY <3>1, <3>3
      <4>2. \A c \in Of(i) : pc'[c] = pc[c]
        BY <3>1, <3>3, <2>b
      <4>3. QED
        BY <4>1, <4>2
    <3>4. QED
      BY <3>2, <3>3
  <2>6. CASE Expire \/ UNCHANGED vars
    BY <2>6 DEF Expire, vars
  <2>7. QED
    BY <2>1, <2>4, <2>5, <2>6 DEF Next
<1>3. QED
  BY <1>1, <1>2, Typing, PTL DEF Spec

\* The lock implements the lease: every step of a scheduler, of Redis or of a
\* crash is a grant, a lapse or an end of the lease, or invisible to it.
THEOREM ImplementsLease == Spec => LeaseSpec
<1>1. Init => L!Init
  BY DEF Init, L!Init, Holders
<1>2. TypeOK /\ TokenOwnership /\ [Next]_vars => [L!Next]_<<Holders, lapsed>>
  <2> SUFFICES ASSUME TypeOK, TokenOwnership, [Next]_vars
               PROVE  L!Next \/ UNCHANGED <<Holders, lapsed>>
    OBVIOUS
  <2> USE TokenAssumption DEF TypeOK, TokenOwnership
  <2>1. ASSUME NEW c \in Calls, Acquire(c) PROVE L!Grant(c)
    <3>1. PICK t \in Tokens : lock' = [lock EXCEPT ![c] = t]
      BY <2>1 DEF Acquire
    <3>2. lock[c] = NoToken /\ UNCHANGED lapsed
      BY <2>1 DEF Acquire
    <3>3. Holders' = Holders \union {c} /\ c \notin Holders
      BY <3>1, <3>2 DEF Holders
    <3>4. Holders \subseteq lapsed
      BY <2>1 DEF Acquire, Holders
    <3>5. QED
      BY <3>2, <3>3, <3>4 DEF L!Grant
  <2>2. ASSUME NEW c \in Calls, Release(c) \/ ReleaseError(c) PROVE L!End({c})
    <3>1. lock[c] # NoToken /\ lock' = [lock EXCEPT ![c] = NoToken]
          /\ lapsed' = lapsed \ {c}
      BY <2>2 DEF Release, ReleaseError
    <3>2. QED
      BY <3>1 DEF L!End, Holders
  <2>3. ASSUME NEW c \in Calls,
               Fire(c) \/ AcquireTaken(c) \/ AcquireError(c) \/ Work(c)
        PROVE  UNCHANGED <<Holders, lapsed>>
    BY <2>3 DEF Fire, AcquireTaken, AcquireError, Work, Holders
  <2>4. ASSUME NEW i \in Instances, Crash(i) PROVE L!End(Holders \intersect Of(i))
    BY <2>4 DEF Crash, L!End, Holders
  <2>5. CASE Expire
    <3>1. CASE \E c \in Calls : lock[c] = store
      <4>1. PICK c \in Calls : lock[c] = store
        BY <3>1
      <4>2. {d \in Calls : lock[d] = store} = {c}
        BY <4>1, <2>5 DEF Expire
      <4>3. L!Lapse(c)
        BY <4>1, <4>2, <2>5 DEF Expire, L!Lapse, Holders
      <4>4. QED
        BY <4>3 DEF L!Next
    <3>2. CASE ~\E c \in Calls : lock[c] = store
      BY <3>2, <2>5 DEF Expire, Holders
    <3>3. QED
      BY <3>1, <3>2
  <2>6. CASE UNCHANGED vars
    BY <2>6 DEF vars, Holders
  <2>7. ASSUME NEW i \in Instances, Crash(i) PROVE L!Next
    <3>1. Holders \intersect Of(i) \in SUBSET Calls
      BY DEF Holders
    <3>2. QED
      BY <3>1, <2>4, <2>7 DEF L!Next
  <2>8. ASSUME NEW c \in Calls, Release(c) \/ ReleaseError(c) PROVE L!Next
    <3>1. {c} \in SUBSET Calls
      OBVIOUS
    <3>2. QED
      BY <3>1, <2>2, <2>8 DEF L!Next
  <2>9. ASSUME NEW c \in Calls, Fire(c) \/ Step(c)
        PROVE  L!Next \/ UNCHANGED <<Holders, lapsed>>
    BY <2>1, <2>3, <2>8, <2>9 DEF Step, L!Next
  <2>10. QED
    BY <2>5, <2>6, <2>7, <2>9 DEF Next
<1>3. QED
  BY <1>1, <1>2, Typing, Ownership, PTL DEF Spec, LeaseSpec, L!Spec
=============================================================================
