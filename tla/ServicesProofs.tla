---------------------------- MODULE ServicesProofs ----------------------------
(***************************************************************************)
(* What the background services promise, for any readers, sockets, notices *)
(* and bounds: quotes are fresh, no connection is left behind, and the     *)
(* webhook's totals add up.                                                *)
(***************************************************************************)
EXTENDS BackgroundServices, FiniteSetTheorems, SequenceTheorems, TLAPS

-----------------------------------------------------------------------------
(* The quote cache *)

\* An entry expires a time to live after it was fetched, at the latest; no time
\* on record lies in the future.
CacheInv ==
    /\ QuoteTypeOK
    /\ \A k \in Keys : /\ cache[k].asOf <= cache[k].fetched /\ cache[k].fetched <= now
                       /\ cache[k].expires <= cache[k].fetched + Ttl
    /\ \A r \in Readers : fetch[r].asOf <= now
    /\ QuotesAreFresh

\* The cache starts with nothing on record.
LEMMA CacheStarts == QInit => CacheInv
BY TtlAssumption DEF QInit, CacheInv, QuoteTypeOK, QuotesAreFresh, Quote, NoQuote, Fetch, Service

\* Every step of the cache keeps its invariant.
LEMMA CacheSteps == CacheInv /\ QNext => CacheInv'
<1> SUFFICES ASSUME CacheInv, QNext PROVE CacheInv'
  OBVIOUS
<1> USE TtlAssumption DEF QuoteTypeOK, Quote, Fetch, Service
<1>1. ASSUME NEW r \in Readers, NEW k \in Keys, FromCache(r, k) PROVE CacheInv'
  <2>1. /\ served' = [served EXCEPT ![r] = [key |-> k, asOf |-> cache[k].asOf,
              fetched |-> cache[k].fetched, at |-> now, source |-> "cache"]]
        /\ UNCHANGED <<now, cache, fetch>> /\ cache[k].expires > now
    BY <1>1 DEF FromCache, Serve, Fresh
  <2>2. now < cache[k].fetched + Ttl
    BY <2>1 DEF CacheInv
  <2>3. (QuoteTypeOK)'
    BY <2>1 DEF CacheInv
  <2>4. QuotesAreFresh'
    BY <2>1, <2>2 DEF CacheInv, QuotesAreFresh
  <2> QED BY <2>1, <2>3, <2>4 DEF CacheInv
<1>2. ASSUME NEW r \in Readers, NEW k \in Keys, NEW b \in BOOLEAN, Ask(r, k, b) PROVE CacheInv'
  BY <1>2 DEF Ask, CacheInv, QuotesAreFresh
<1>3. ASSUME NEW r \in Readers, LookUp(r) PROVE CacheInv'
  <2> DEFINE f == [fetch[r] EXCEPT !.stage = "answered", !.asOf = now]
  <2>1. fetch' = [fetch EXCEPT ![r] = f] /\ UNCHANGED <<now, cache, served>>
    BY <1>3 DEF LookUp
  <2>2. fetch[r] \in Fetch /\ now \in Nat
    BY DEF CacheInv
  <2>3. f \in Fetch /\ f.asOf = now
    BY <2>2
  <2> HIDE DEF f
  <2> QED BY <2>1, <2>3 DEF CacheInv, QuotesAreFresh
<1>4. ASSUME NEW r \in Readers, Fill(r) PROVE CacheInv'
  <2> DEFINE k == fetch[r].key
             q == [asOf |-> fetch[r].asOf, fetched |-> now, expires |-> now + Ttl]
  <2>1. /\ cache' = [cache EXCEPT ![k] = q]
        /\ served' = [served EXCEPT ![r] = [key |-> k, asOf |-> fetch[r].asOf,
              fetched |-> now, at |-> now, source |-> "binance"]]
        /\ fetch' = [fetch EXCEPT ![r].stage = "idle"] /\ now' = now
    BY <1>4 DEF Fill, Serve
  <2>2. k \in Keys /\ q \in Quote
    BY DEF CacheInv
  <2>3. QuoteTypeOK'
    BY <2>1, <2>2 DEF CacheInv
  <2>4. QuotesAreFresh'
    BY <2>1 DEF CacheInv, QuotesAreFresh
  <2>5. \A j \in Keys : /\ cache'[j].asOf <= cache'[j].fetched /\ cache'[j].fetched <= now
                        /\ cache'[j].expires <= cache'[j].fetched + Ttl
    BY <2>1, <2>2 DEF CacheInv
  <2>6. \A p \in Readers : fetch'[p].asOf <= now
    BY <2>1 DEF CacheInv
  <2> QED BY <2>1, <2>3, <2>4, <2>5, <2>6 DEF CacheInv
<1>5. ASSUME NEW r \in Readers, FetchFails(r) PROVE CacheInv'
  BY <1>5 DEF FetchFails, CacheInv, QuotesAreFresh
<1>6. ASSUME NEW ks \in SUBSET Keys, ClearCache(ks) PROVE CacheInv'
  BY <1>6 DEF ClearCache, NoQuote, CacheInv, QuotesAreFresh
<1>7. ASSUME Elapse PROVE CacheInv'
  BY <1>7 DEF Elapse, CacheInv, QuotesAreFresh
<1> QED BY <1>1, <1>2, <1>3, <1>4, <1>5, <1>6, <1>7 DEF QNext

\* The cache's invariant, for every behaviour of the services.
THEOREM CacheHolds == Spec => []CacheInv
<1>1. Init => CacheInv
  BY CacheStarts DEF Init
<1>2. CacheInv /\ [Next]_bvars => CacheInv'
  <2> SUFFICES ASSUME CacheInv, [Next]_bvars PROVE CacheInv'
    OBVIOUS
  <2>1. CASE QNext
    BY <2>1, CacheSteps
  <2>2. CASE UNCHANGED qvars
    BY <2>2 DEF qvars, CacheInv, QuoteTypeOK, QuotesAreFresh
  <2> QED BY <2>1, <2>2 DEF Next, Quotes, Stream, Notify, bvars
<1> QED BY <1>1, <1>2, PTL DEF Spec

\* No caller of getQuote is given a price older than the time to live and the
\* fetch that brought it, whatever fetches overtake each other.
THEOREM FreshQuotes == Spec => []QuotesAreFresh
<1>1. CacheInv => QuotesAreFresh
  BY DEF CacheInv
<1> QED BY <1>1, CacheHolds, PTL

-----------------------------------------------------------------------------
(* The price stream *)

CurrentUnstopped == \A i \in States : i = current <=> ~state[i].stopped
SocketsOwned == \A s \in Sockets : Alive(s) => socket[s].owner \in States
SocketsKnown ==
    \A i \in States : state[i].socket # NoSocket =>
        Alive(state[i].socket) /\ socket[state[i].socket].owner = i
ClosingUnknown == \A s \in Sockets : socket[s].phase = "closing" => socket[s].owner # current
TimerAlone == \A i \in States : state[i].timer => i = current /\ state[i].socket = NoSocket
LiveKnown ==
    \A s \in Sockets : socket[s].phase \in {"connecting", "open"} =>
        socket[s].owner = current /\ state[current].socket = s

\* Only the state subscribed is not stopped, and it has at most the one socket
\* it knows of, which is not dead; a socket being closed belongs to a stopped state.
StreamInv ==
    /\ StreamTypeOK
    /\ CurrentUnstopped /\ SocketsOwned /\ SocketsKnown
    /\ ClosingUnknown /\ TimerAlone /\ LiveKnown

\* The stream starts with nothing subscribed.
LEMMA StreamStarts == SInit => StreamInv
<1> SUFFICES ASSUME SInit PROVE StreamInv
  OBVIOUS
<1>1. \A i \in States : state[i] = [socket |-> NoSocket, timer |-> FALSE, stopped |-> TRUE,
                                   attempts |-> 0]
  BY DEF SInit, NewState
<1>2. StreamTypeOK
  <2>0. 0 \in 0..AttemptsSeen
    BY StreamAssumption
  <2>1. \A i \in States : state[i] \in StreamState
    <3>1. [socket |-> NoSocket, timer |-> FALSE, stopped |-> TRUE, attempts |-> 0]
             \in StreamState
      BY <2>0 DEF StreamState
    <3> QED BY <1>1, <3>1
  <2>2. state \in [States -> StreamState]
    BY <2>1 DEF SInit
  <2>3. socket \in [Sockets -> Socket]
    BY DEF SInit, Socket
  <2> QED BY <2>2, <2>3 DEF SInit, StreamTypeOK
<1>3. \A s \in Sockets : socket[s].phase = "none"
  BY DEF SInit
<1>4. current = NoState
  BY DEF SInit
<1> QED BY <1>1, <1>2, <1>3, <1>4, StreamAssumption
   DEF StreamInv, Alive, CurrentUnstopped, SocketsOwned, SocketsKnown, ClosingUnknown, TimerAlone, LiveKnown

\* Every step of the stream keeps its invariant.
LEMMA StreamSteps == StreamInv /\ SNext => StreamInv'
<1> SUFFICES ASSUME StreamInv, SNext PROVE StreamInv'
  OBVIOUS
<1> USE StreamAssumption DEF StreamTypeOK, StreamState, Socket, Alive, CurrentUnstopped,
        SocketsOwned, SocketsKnown, ClosingUnknown, TimerAlone, LiveKnown
<1>1. ASSUME NEW i \in States, Subscribe(i) PROVE StreamInv'
  <2>1. PICK s \in Sockets :
          /\ ~Alive(s)
          /\ socket' = [socket EXCEPT ![s] = [owner |-> i, phase |-> "connecting"]]
          /\ state' = [state EXCEPT ![i] = [socket |-> s, timer |-> FALSE,
                                            stopped |-> FALSE, attempts |-> 0]]
    BY <1>1 DEF Subscribe, Connect, NewState
  <2>2. current = NoState /\ current' = i /\ Garbage(i) /\ latest' = latest
    BY <1>1 DEF Subscribe
  <2>3. \A t \in Sockets : Alive(t) => socket[t].phase = "closing" /\ socket[t].owner # i
    BY <2>2 DEF StreamInv, Garbage
  <2>4. StreamTypeOK'
    BY <2>1, <2>2 DEF StreamInv
  <2> QED BY <2>1, <2>2, <2>3, <2>4 DEF StreamInv
<1>2. ASSUME Unsubscribe PROVE StreamInv'
  <2> DEFINE st == [state[current] EXCEPT !.stopped = TRUE, !.timer = FALSE]
  <2>1. current \in States /\ current' = NoState /\ latest' = latest
    BY <1>2 DEF Unsubscribe, StreamInv
  <2>2. state' = [state EXCEPT ![current] = st]
    BY <1>2 DEF Unsubscribe
  <2>3. state[current] \in StreamState
    BY <2>1 DEF StreamInv
  <2>4. st \in StreamState /\ st.stopped /\ ~st.timer
    BY <2>3
  <2> HIDE DEF st
  <2>5. socket' = [s \in Sockets |-> IF s = state[current].socket
                      THEN [socket[s] EXCEPT !.phase = "closing"] ELSE socket[s]]
    BY <1>2 DEF Unsubscribe, CloseSocket
  <2>6. \A s \in Sockets : /\ socket'[s] \in Socket /\ socket'[s].owner = socket[s].owner
                           /\ s = state[current].socket => socket'[s].phase = "closing"
                           /\ s # state[current].socket => socket'[s] = socket[s]
    BY <2>5 DEF StreamInv
  <2>7. StreamTypeOK'
    BY <2>1, <2>2, <2>4, <2>5, <2>6 DEF StreamInv
  <2>8. /\ state'[current] = st /\ \A i \in States : i # current => state'[i] = state[i]
        /\ state[current].socket # NoSocket => socket[state[current].socket].owner = current
        /\ \A i \in States : state[i].socket \in Sockets \union {NoSocket}
        /\ CurrentUnstopped /\ SocketsOwned /\ SocketsKnown /\ ClosingUnknown /\ TimerAlone
        /\ LiveKnown /\ NoSocket \notin Sockets /\ NoState \notin States
    BY <2>1, <2>2 DEF StreamInv
  <2>9. st.socket = state[current].socket
    BY <2>3 DEF st
  <2> HIDE DEF StreamTypeOK, StreamState, Socket
  <2>11. CurrentUnstopped'
    BY <2>1, <2>4, <2>6, <2>8, <2>9
  <2>12. SocketsOwned'
    <3> SUFFICES ASSUME NEW s \in Sockets, socket'[s].phase # "none"
                 PROVE  socket'[s].owner \in States
      BY DEF SocketsOwned, Alive
    <3>1. CASE s = state[current].socket
      <4>1. s # NoSocket
        BY <2>8
      <4>2. socket[s].owner = current
        BY <4>1, <3>1, <2>8
      <4> QED BY <2>1, <2>6, <4>2
    <3>2. CASE s # state[current].socket
      BY <3>2, <2>6, <2>8
    <3> QED BY <3>1, <3>2
  <2>13. SocketsKnown'
    BY <2>1, <2>4, <2>6, <2>8, <2>9
  <2>14. ClosingUnknown'
    BY <2>1, <2>4, <2>6, <2>8, <2>9
  <2>15. TimerAlone'
    BY <2>1, <2>4, <2>6, <2>8, <2>9
  <2>16. LiveKnown'
    BY <2>1, <2>4, <2>6, <2>8, <2>9
  <2> QED BY <2>7, <2>11, <2>12, <2>13, <2>14, <2>15, <2>16 DEF StreamInv
<1>3. ASSUME NEW s \in Sockets, Opens(s) PROVE StreamInv'
  <2>1. /\ socket[s].phase = "connecting" /\ UNCHANGED <<current, latest>>
        /\ socket' = [socket EXCEPT ![s].phase = "open"]
        /\ state' = [state EXCEPT ![current].attempts = 0]
    BY <1>3 DEF Opens, StreamInv
  <2>2. current \in States
    BY <2>1 DEF StreamInv
  <2>3. StreamTypeOK'
    BY <2>1, <2>2 DEF StreamInv
  <2>11. CurrentUnstopped'
    BY <2>1, <2>2 DEF StreamInv
  <2>12. SocketsOwned'
    BY <2>1, <2>2 DEF StreamInv
  <2>13. SocketsKnown'
    BY <2>1, <2>2 DEF StreamInv
  <2>14. ClosingUnknown'
    BY <2>1, <2>2 DEF StreamInv
  <2>15. TimerAlone'
    BY <2>1, <2>2 DEF StreamInv
  <2>16. LiveKnown'
    BY <2>1, <2>2 DEF StreamInv
  <2> QED BY <2>3, <2>11, <2>12, <2>13, <2>14, <2>15, <2>16 DEF StreamInv
<1>4. ASSUME NEW s \in Sockets, Message(s) PROVE StreamInv'
  BY <1>4 DEF Message, StreamInv
<1>5. ASSUME NEW s \in Sockets, Closes(s) PROVE StreamInv'
  <2> DEFINE o == socket[s].owner
  <2>1. /\ Alive(s) /\ o \in States
        /\ state[o] \in StreamState /\ state' = [state EXCEPT ![o] = Closed(state[o])]
        /\ socket' = [socket EXCEPT ![s].phase = "none", ![s].owner = NoState]
        /\ UNCHANGED <<current, latest>>
    BY <1>5 DEF Closes, StreamInv
  <2>2. CASE state[o].stopped
    <3>1. state' = [state EXCEPT ![o] = [state[o] EXCEPT !.socket = NoSocket]]
      BY <2>1, <2>2 DEF Closed
    <3>2. StreamTypeOK'
      BY <2>1, <3>1 DEF StreamInv
    <3>11. CurrentUnstopped'
      BY <2>1, <2>2, <3>1 DEF StreamInv
    <3>12. SocketsOwned'
      BY <2>1, <2>2, <3>1 DEF StreamInv
    <3>13. SocketsKnown'
      BY <2>1, <2>2, <3>1 DEF StreamInv
    <3>14. ClosingUnknown'
      BY <2>1, <2>2, <3>1 DEF StreamInv
    <3>15. TimerAlone'
      BY <2>1, <2>2, <3>1 DEF StreamInv
    <3>16. LiveKnown'
      BY <2>1, <2>2, <3>1 DEF StreamInv
    <3> QED BY <3>2, <3>11, <3>12, <3>13, <3>14, <3>15, <3>16 DEF StreamInv
  <2>3. CASE ~state[o].stopped
    <3> DEFINE n == Counted(state[o].attempts)
    <3>0. n \in 0..AttemptsSeen
      BY <2>1 DEF Counted, StreamInv
    <3>1. state' = [state EXCEPT ![o] = [socket |-> NoSocket, timer |-> TRUE,
                                         stopped |-> state[o].stopped, attempts |-> n]]
      BY <2>1, <2>3 DEF Closed, StreamInv
    <3> HIDE DEF n
    <3>2. StreamTypeOK'
      BY <2>1, <3>0, <3>1 DEF StreamInv
    <3>11. CurrentUnstopped'
      BY <2>1, <2>3, <3>0, <3>1 DEF StreamInv
    <3>12. SocketsOwned'
      BY <2>1, <2>3, <3>0, <3>1 DEF StreamInv
    <3>13. SocketsKnown'
      BY <2>1, <2>3, <3>0, <3>1 DEF StreamInv
    <3>14. ClosingUnknown'
      BY <2>1, <2>3, <3>0, <3>1 DEF StreamInv
    <3>15. TimerAlone'
      BY <2>1, <2>3, <3>0, <3>1 DEF StreamInv
    <3>16. LiveKnown'
      BY <2>1, <2>3, <3>0, <3>1 DEF StreamInv
    <3> QED BY <3>2, <3>11, <3>12, <3>13, <3>14, <3>15, <3>16 DEF StreamInv
  <2> QED BY <2>2, <2>3
<1>6. ASSUME NEW i \in States, Reconnect(i) PROVE StreamInv'
  <2>1. i = current /\ ~state[i].stopped /\ state[i].socket = NoSocket
    BY <1>6 DEF Reconnect, StreamInv
  <2>2. Connect(i, [state[i] EXCEPT !.timer = FALSE]) /\ UNCHANGED <<current, latest>>
    BY <1>6, <2>1 DEF Reconnect
  <2>3. PICK s \in Sockets :
          /\ ~Alive(s)
          /\ socket' = [socket EXCEPT ![s] = [owner |-> i, phase |-> "connecting"]]
          /\ state' = [state EXCEPT ![i] =
                          [[state[i] EXCEPT !.timer = FALSE] EXCEPT !.socket = s]]
    BY <2>2, Zenon DEF Connect
  <2> DEFINE st == [[state[i] EXCEPT !.timer = FALSE] EXCEPT !.socket = s]
  <2>4. state[i] \in StreamState
    BY DEF StreamInv
  <2>5. st \in StreamState /\ ~st.timer /\ st.socket = s /\ ~st.stopped
    BY <2>1, <2>4
  <2>6. state' = [state EXCEPT ![i] = st]
    BY <2>3
  <2> HIDE DEF st
  <2>7. StreamTypeOK'
    BY <2>2, <2>3, <2>5, <2>6 DEF StreamInv
  <2>8. \A t \in Sockets : t # s /\ Alive(t) => socket[t].owner # i
    BY <2>1 DEF StreamInv
  <2> QED BY <2>1, <2>2, <2>3, <2>5, <2>6, <2>7, <2>8 DEF StreamInv
<1> QED BY <1>1, <1>2, <1>3, <1>4, <1>5, <1>6 DEF SNext

\* The stream's invariant, for every behaviour of the services.
THEOREM StreamHolds == Spec => []StreamInv
<1>1. Init => StreamInv
  BY StreamStarts DEF Init
<1>2. StreamInv /\ [Next]_bvars => StreamInv'
  <2> SUFFICES ASSUME StreamInv, [Next]_bvars PROVE StreamInv'
    OBVIOUS
  <2>1. CASE SNext
    BY <2>1, StreamSteps
  <2>2. CASE UNCHANGED svars
    BY <2>2 DEF svars, StreamInv, StreamTypeOK, Alive, CurrentUnstopped, SocketsOwned, SocketsKnown,
               ClosingUnknown, TimerAlone, LiveKnown
  <2> QED BY <2>1, <2>2 DEF Next, Quotes, Stream, Notify, bvars
<1> QED BY <1>1, <1>2, PTL DEF Spec

\* A socket that is connecting or open is the one of the subscription, and no
\* reconnect timer waits beside it, for any number of sockets and subscriptions.
THEOREM NoOrphans == Spec => []NoOrphanSocket
<1>1. StreamInv => NoOrphanSocket
  BY StreamAssumption DEF StreamInv, StreamTypeOK, NoOrphanSocket, Alive, SocketsOwned, TimerAlone, LiveKnown
<1> QED BY <1>1, StreamHolds, PTL

-----------------------------------------------------------------------------
(* The notifications. What makes their property inductive is that not only  *)
(* the totals in memory but every snapshot, stored or on its way to the     *)
(* database, is such that it may be restored.                               *)

AnyNote == [row : {"none", "writing", "stored", "old", "deleted"},
            phase : InFlight \union {"none", "delivered", "failed", "lost"},
            attempt : Nat, got : Nat]

Underway(s) == {n \in DOMAIN s : s[n].phase \in InFlight}
Ended(s) == {n \in DOMAIN s : s[n].phase = "delivered"}
BegunIn(s) == {n \in DOMAIN s : s[n].attempt > 0}
First(m) == m.attempted - m.retried

Coherent(note) ==
    /\ note.phase # "none" => note.attempt > 0
    /\ note.phase \in {"accepted", "delivered"} => note.got > 0

\* Totals that count nothing twice and nothing that was not done to s.
Plausible(m, s) ==
    /\ Sum(m) <= First(m) /\ First(m) <= Cardinality(BegunIn(s))
    /\ m.delivered <= Cardinality(Ended(s))
Restorable(m, s) == m \in Metrics /\ Plausible(m, s) /\ Sum(m) > 0

Typed ==
    /\ notes \in Seq(AnyNote) /\ metrics \in Metrics /\ snapshots \in Seq(Metrics)
    /\ aged \in 0..Len(snapshots) /\ restarts \in Nat
TalliesInv ==
    /\ Typed
    /\ \A n \in DOMAIN notes : Coherent(notes[n])
    /\ Plausible(metrics, notes)
    /\ Sum(metrics) + Cardinality(Underway(notes)) <= First(metrics)
    /\ restarts = 0 => Sum(metrics) + Cardinality(Underway(notes)) = First(metrics)
    /\ \A k \in DOMAIN saving : Restorable(saving[k], notes)
    /\ \A i \in DOMAIN snapshots : Restorable(snapshots[i], notes)

-----------------------------------------------------------------------------
(* Counting *)

\* What is counted of a list of notifications is finite.
LEMMA Countable ==
    ASSUME NEW s \in Seq(AnyNote)
    PROVE  /\ IsFiniteSet(Underway(s)) /\ Cardinality(Underway(s)) \in Nat
           /\ IsFiniteSet(Ended(s)) /\ Cardinality(Ended(s)) \in Nat
           /\ IsFiniteSet(BegunIn(s)) /\ Cardinality(BegunIn(s)) \in Nat
<1>1. Len(s) \in Nat /\ DOMAIN s = 1..Len(s)
  OBVIOUS
<1>2. IsFiniteSet(DOMAIN s)
  BY <1>1, FS_Interval
<1>3. \A T \in SUBSET DOMAIN s : IsFiniteSet(T)
  BY <1>2, FS_Subset
<1>4. Underway(s) \in SUBSET DOMAIN s /\ Ended(s) \in SUBSET DOMAIN s
      /\ BegunIn(s) \in SUBSET DOMAIN s
  BY DEF Underway, Ended, BegunIn
<1> QED BY <1>3, <1>4, FS_CardinalityType

\* Totals stay plausible, and restorable, when more is begun and delivered.
LEMMA StillPlausible ==
    ASSUME NEW s \in Seq(AnyNote), NEW t \in Seq(AnyNote), NEW m \in Metrics,
           BegunIn(s) \subseteq BegunIn(t), Ended(s) \subseteq Ended(t)
    PROVE  /\ Plausible(m, s) => Plausible(m, t)
           /\ Restorable(m, s) => Restorable(m, t)
<1>1. Cardinality(BegunIn(s)) <= Cardinality(BegunIn(t))
  BY Countable, FS_Subset
<1>2. Cardinality(Ended(s)) <= Cardinality(Ended(t))
  BY Countable, FS_Subset
<1>3. First(m) \in Int /\ m.delivered \in Nat
  BY DEF First, Metrics
<1>4. Plausible(m, s) => Plausible(m, t)
  BY <1>1, <1>2, <1>3, Countable DEF Plausible
<1> QED BY <1>4 DEF Restorable

\* What one more attempt, retry, delivery or failure makes of the totals.
LEMMA TotalsCounted ==
    ASSUME NEW m \in Metrics
    PROVE  /\ Sum(m) \in Nat /\ First(m) \in Int /\ m.delivered \in Nat
           /\ \A v : v = [m EXCEPT !.attempted = @ + 1, !.retried = @] =>
                 /\ v \in Metrics /\ Sum(v) = Sum(m) /\ First(v) = First(m) + 1
                 /\ v.delivered = m.delivered
           /\ \A v : v = [m EXCEPT !.attempted = @ + 1, !.retried = @ + 1] =>
                 /\ v \in Metrics /\ Sum(v) = Sum(m) /\ First(v) = First(m)
                 /\ v.delivered = m.delivered
           /\ \A v : v = [m EXCEPT !.delivered = @ + 1] =>
                 /\ v \in Metrics /\ Sum(v) = Sum(m) + 1 /\ First(v) = First(m)
                 /\ v.delivered = m.delivered + 1
           /\ \A v : v = [m EXCEPT !.failed = @ + 1] =>
                 /\ v \in Metrics /\ Sum(v) = Sum(m) + 1 /\ First(v) = First(m)
                 /\ v.delivered = m.delivered
<1>1. m.attempted + 1 \in Nat /\ m.retried \in Nat /\ m.retried + 1 \in Nat
  BY DEF Metrics
<1>2. ASSUME NEW a \in Nat, NEW r \in Nat, NEW v, v = [m EXCEPT !.attempted = a, !.retried = r]
      PROVE  /\ v \in Metrics /\ v.attempted = a /\ v.delivered = m.delivered
             /\ v.failed = m.failed /\ v.retried = r
  BY <1>2 DEF Metrics
<1>3. /\ \A v : v = [m EXCEPT !.attempted = @ + 1, !.retried = @] =>
            /\ v \in Metrics /\ v.attempted = m.attempted + 1 /\ v.delivered = m.delivered
            /\ v.failed = m.failed /\ v.retried = m.retried
      /\ \A v : v = [m EXCEPT !.attempted = @ + 1, !.retried = @ + 1] =>
            /\ v \in Metrics /\ v.attempted = m.attempted + 1 /\ v.delivered = m.delivered
            /\ v.failed = m.failed /\ v.retried = m.retried + 1
  BY <1>1, <1>2, Zenon
<1>4. ASSUME NEW v, v = [m EXCEPT !.delivered = @ + 1]
      PROVE  /\ v \in Metrics /\ v.attempted = m.attempted /\ v.delivered = m.delivered + 1
             /\ v.failed = m.failed /\ v.retried = m.retried
  BY <1>4 DEF Metrics
<1>5. ASSUME NEW v, v = [m EXCEPT !.failed = @ + 1]
      PROVE  /\ v \in Metrics /\ v.attempted = m.attempted /\ v.delivered = m.delivered
             /\ v.failed = m.failed + 1 /\ v.retried = m.retried
  BY <1>5 DEF Metrics
<1>6. m.attempted \in Nat /\ m.delivered \in Nat /\ m.failed \in Nat /\ m.retried \in Nat
  BY DEF Metrics
<1> QED BY <1>3, <1>4, <1>5, <1>6 DEF Sum, First

\* A step that neither begins nor ends a delivery leaves what is counted alone.
LEMMA SameTallies ==
    ASSUME NEW s \in Seq(AnyNote), NEW t \in Seq(AnyNote), DOMAIN t = DOMAIN s,
           \A n \in DOMAIN s : /\ t[n].phase \in InFlight <=> s[n].phase \in InFlight
                               /\ t[n].phase = "delivered" <=> s[n].phase = "delivered"
                               /\ t[n].attempt > 0 <=> s[n].attempt > 0
    PROVE  Underway(t) = Underway(s) /\ Ended(t) = Ended(s) /\ BegunIn(t) = BegunIn(s)
BY DEF Underway, Ended, BegunIn

\* Such a step, if it keeps the notifications coherent and touches neither the
\* totals nor the snapshots, keeps the invariant.
LEMMA Uncounted ==
    ASSUME TalliesInv, notes' \in Seq(AnyNote), DOMAIN notes' = DOMAIN notes,
           UNCHANGED <<metrics, saving, snapshots, restarts>>, aged' \in 0..Len(snapshots),
           \A n \in DOMAIN notes :
              /\ notes'[n].phase \in InFlight <=> notes[n].phase \in InFlight
              /\ notes'[n].phase = "delivered" <=> notes[n].phase = "delivered"
              /\ notes'[n].attempt > 0 <=> notes[n].attempt > 0
              /\ Coherent(notes'[n])
    PROVE  TalliesInv'
<1>1. PICK t \in Seq(AnyNote) : t = notes'
  OBVIOUS
<1>2. /\ Underway(t) = Underway(notes) /\ Ended(t) = Ended(notes)
      /\ BegunIn(t) = BegunIn(notes)
  BY <1>1, SameTallies DEF TalliesInv, Typed
<1>3. Typed'
  BY DEF TalliesInv, Typed
<1>4. \A m : Plausible(m, t) <=> Plausible(m, notes)
  BY <1>2 DEF Plausible
<1>5. \A m : Restorable(m, t) <=> Restorable(m, notes)
  BY <1>4 DEF Restorable
<1> QED BY <1>1, <1>2, <1>3, <1>4, <1>5 DEF TalliesInv

-----------------------------------------------------------------------------
(* The steps *)

\* A notification is published and, if its severity is enough, begun.
LEMMA PublishStep ==
    ASSUME TalliesInv, NEW owned \in BOOLEAN, NEW severity \in 1..3, Publish(owned, severity)
    PROVE  TalliesInv'
<1> DEFINE e == [row |-> IF owned THEN "writing" ELSE "none",
                 phase |-> IF ShouldDeliver(severity) THEN "sending" ELSE "none",
                 attempt |-> IF ShouldDeliver(severity) THEN 1 ELSE 0, got |-> 0]
           k == Len(notes) + 1
<1>1. e \in AnyNote /\ Coherent(e)
  BY DEF AnyNote, InFlight, Coherent
<1> HIDE DEF e
<1>0. notes \in Seq(AnyNote)
  BY DEF TalliesInv, Typed
<1>2. PICK t \in Seq(AnyNote) : t = Append(notes, e) /\ t = notes'
  <2>1. Append(notes, e) \in Seq(AnyNote)
    BY <1>0, <1>1
  <2>2. notes' = Append(notes, e)
    BY DEF Publish, e
  <2> QED BY <2>1, <2>2
<1>3. /\ DOMAIN t = DOMAIN notes \union {k} /\ t[k] = e /\ k \notin DOMAIN notes
      /\ \A n \in DOMAIN notes : t[n] = notes[n]
  <2>1. Len(notes) \in Nat /\ DOMAIN notes = 1..Len(notes)
    BY <1>0
  <2>2. Len(t) = k /\ t[k] = e /\ \A n \in 1..Len(notes) : t[n] = notes[n]
    <3>1. PICK x \in AnyNote : x = e
      BY <1>1
    <3>2. /\ Len(Append(notes, x)) = Len(notes) + 1 /\ Append(notes, x)[Len(notes) + 1] = x
          /\ \A n \in 1..Len(notes) : Append(notes, x)[n] = notes[n]
      BY <1>0
    <3>3. t = Append(notes, x)
      BY <1>2, <3>1
    <3>4. Len(t) = Len(notes) + 1 /\ t[Len(notes) + 1] = x
      BY <3>2, <3>3, Zenon
    <3>5. \A n \in 1..Len(notes) : t[n] = notes[n]
      BY <3>2, <3>3, Zenon
    <3> QED BY <3>1, <3>4, <3>5
  <2>3. DOMAIN t = 1..k
    BY <2>2
  <2> QED BY <2>1, <2>2, <2>3
<1>4. UNCHANGED <<saving, snapshots, aged, restarts>>
  BY DEF Publish
<1>5. Ended(t) = Ended(notes)
  BY <1>3 DEF Ended, e
<1>6. CASE ShouldDeliver(severity)
  <2>1. Underway(t) = Underway(notes) \union {k} /\ BegunIn(t) = BegunIn(notes) \union {k}
    BY <1>3, <1>6 DEF Underway, BegunIn, InFlight, e
  <2>2. k \notin Underway(notes) /\ k \notin BegunIn(notes)
    BY <1>3 DEF Underway, BegunIn
  <2>3. /\ Cardinality(Underway(t)) = Cardinality(Underway(notes)) + 1
        /\ Cardinality(BegunIn(t)) = Cardinality(BegunIn(notes)) + 1
    BY <2>1, <2>2, Countable, FS_AddElement DEF TalliesInv, Typed
  <2>4. metrics' = [metrics EXCEPT !.attempted = @ + 1, !.retried = @]
    BY <1>6 DEF Publish, Attempted
  <2>5. /\ metrics' \in Metrics /\ metrics'.delivered = metrics.delivered
        /\ Sum(metrics') = Sum(metrics) /\ First(metrics') = First(metrics) + 1
        /\ Sum(metrics) \in Nat /\ First(metrics) \in Int /\ metrics.delivered \in Nat
    BY <2>4, TotalsCounted DEF TalliesInv, Typed
  <2>6. \A m \in Metrics : Restorable(m, notes) => Restorable(m, t)
    BY <2>1, <1>5, StillPlausible DEF TalliesInv, Typed
  <2>7. /\ Plausible(metrics', t)
        /\ Sum(metrics') + Cardinality(Underway(t)) <= First(metrics')
        /\ restarts = 0 => Sum(metrics') + Cardinality(Underway(t)) = First(metrics')
    <3>1. /\ Cardinality(Underway(notes)) \in Nat /\ Cardinality(BegunIn(notes)) \in Nat
          /\ Cardinality(Ended(notes)) \in Nat
      BY <1>0, Countable
    <3>2. Cardinality(Ended(t)) = Cardinality(Ended(notes))
      BY <1>5
    <3> QED BY <2>3, <2>5, <3>1, <3>2 DEF TalliesInv, Plausible
  <2>8. Typed'
    BY <1>2, <1>4, <2>5 DEF TalliesInv, Typed
  <2>9. /\ \A j \in DOMAIN saving : Restorable(saving[j], t)
        /\ \A i \in DOMAIN snapshots : Restorable(snapshots[i], t)
    BY <2>6 DEF TalliesInv, Restorable
  <2>10. \A n \in DOMAIN t : Coherent(t[n])
    BY <1>1, <1>3 DEF TalliesInv
  <2> QED BY <1>2, <1>4, <2>7, <2>8, <2>9, <2>10 DEF TalliesInv
<1>7. CASE ~ShouldDeliver(severity)
  <2>1. Underway(t) = Underway(notes) /\ BegunIn(t) = BegunIn(notes)
    BY <1>3, <1>7 DEF Underway, BegunIn, InFlight, e
  <2>2. metrics' = metrics
    BY <1>7 DEF Publish
  <2>3. \A m : Plausible(m, t) <=> Plausible(m, notes)
    BY <2>1, <1>5 DEF Plausible
  <2>4. \A m : Restorable(m, t) <=> Restorable(m, notes)
    BY <2>3 DEF Restorable
  <2>5. Typed'
    BY <1>2, <1>4, <2>2 DEF TalliesInv, Typed
  <2>6. \A n \in DOMAIN t : Coherent(t[n])
    BY <1>1, <1>3 DEF TalliesInv
  <2> QED BY <1>2, <1>4, <2>1, <2>2, <2>3, <2>4, <2>5, <2>6 DEF TalliesInv
<1> QED BY <1>6, <1>7

\* A delivery under way ends: v are the totals with it counted once.
LEMMA EndStep ==
    ASSUME TalliesInv, NEW n \in DOMAIN notes, notes[n].phase \in InFlight,
           NEW phase \in {"delivered", "failed"}, phase = "delivered" => notes[n].got > 0,
           NEW v \in Metrics, End(n, phase, v),
           Sum(v) = Sum(metrics) + 1, First(v) = First(metrics),
           v.delivered = IF phase = "delivered" THEN metrics.delivered + 1
                         ELSE metrics.delivered
    PROVE  TalliesInv'
<1>1. notes[n] \in AnyNote /\ notes \in Seq(AnyNote) /\ Coherent(notes[n])
  BY DEF TalliesInv, Typed
<1> DEFINE e == [notes[n] EXCEPT !.phase = phase]
<1>2. /\ e \in AnyNote /\ Coherent(e) /\ e.phase = phase /\ e.attempt = notes[n].attempt
      /\ e.phase \notin InFlight
  BY <1>1 DEF AnyNote, Coherent, InFlight
<1>3. notes' = [notes EXCEPT ![n] = e]
  BY DEF End
<1> HIDE DEF e
<1>4. PICK t \in Seq(AnyNote) : t = notes'
  BY <1>1, <1>2, <1>3
<1>5. /\ DOMAIN t = DOMAIN notes /\ t[n] = e
      /\ \A j \in DOMAIN notes : j # n => t[j] = notes[j]
  BY <1>3, <1>4
<1>6. /\ metrics' = v /\ UNCHANGED <<snapshots, aged, restarts>>
      /\ saving' = [j \in DOMAIN saving \union {n} |-> IF j = n THEN v ELSE saving[j]]
  BY DEF End
<1>7. BegunIn(t) = BegunIn(notes)
  BY <1>2, <1>5 DEF BegunIn
<1>8. Underway(t) = Underway(notes) \ {n} /\ n \in Underway(notes)
  BY <1>2, <1>5 DEF Underway
<1>9. Cardinality(Underway(t)) = Cardinality(Underway(notes)) - 1
  <2>1. IsFiniteSet(Underway(notes))
    BY <1>1, Countable
  <2>2. QED
    BY <1>8, <2>1, FS_RemoveElement
<1>10. Ended(t) = IF phase = "delivered" THEN Ended(notes) \union {n} ELSE Ended(notes)
  BY <1>2, <1>5 DEF Ended, InFlight
<1>11. n \notin Ended(notes)
  BY DEF Ended, InFlight
<1>12. Cardinality(Ended(t)) = IF phase = "delivered" THEN Cardinality(Ended(notes)) + 1
                               ELSE Cardinality(Ended(notes))
  <2>1. IsFiniteSet(Ended(notes))
    BY <1>1, Countable
  <2>2. QED
    BY <1>10, <1>11, <2>1, FS_AddElement
<1>13. /\ Sum(metrics) \in Nat /\ First(metrics) \in Int /\ metrics.delivered \in Nat
       /\ Cardinality(Underway(notes)) \in Nat /\ Cardinality(Ended(notes)) \in Nat
       /\ Cardinality(BegunIn(notes)) \in Nat
  BY <1>1, Countable, TotalsCounted DEF TalliesInv, Typed
<1>14. Cardinality(Underway(notes)) >= 1
  <2>1. Cardinality(Underway(t)) \in Nat
    BY <1>4, Countable
  <2> QED BY <1>9, <1>13, <2>1
<1>15. /\ Sum(v) + Cardinality(Underway(t)) <= First(v)
       /\ restarts = 0 => Sum(v) + Cardinality(Underway(t)) = First(v)
  BY <1>9, <1>13 DEF TalliesInv
<1>16. Sum(v) <= First(v)
  BY <1>13, <1>14 DEF TalliesInv
<1>17. First(v) <= Cardinality(BegunIn(t)) /\ v.delivered <= Cardinality(Ended(t))
  BY <1>7, <1>12, <1>13 DEF TalliesInv, Plausible
<1>18. Plausible(v, t) /\ Restorable(v, t)
  BY <1>13, <1>16, <1>17 DEF Plausible, Restorable
<1>19. \A m \in Metrics : Restorable(m, notes) => Restorable(m, t)
  BY <1>1, <1>7, <1>10, StillPlausible
<1>20. /\ \A j \in DOMAIN saving' : Restorable(saving'[j], t)
       /\ \A i \in DOMAIN snapshots : Restorable(snapshots[i], t)
  BY <1>6, <1>18, <1>19 DEF TalliesInv, Restorable
<1>21. Typed'
  BY <1>4, <1>6 DEF TalliesInv, Typed
<1>22. \A j \in DOMAIN t : Coherent(t[j])
  BY <1>2, <1>5 DEF TalliesInv
<1> QED BY <1>4, <1>6, <1>15, <1>18, <1>20, <1>21, <1>22 DEF TalliesInv

\* An attempt that does not succeed waits for the next one, or is counted.
LEMMA MissedStep ==
    ASSUME TalliesInv, NEW n \in DOMAIN notes, notes[n].phase \in {"sending", "accepted"},
           NEW retryable \in BOOLEAN, Missed(n, retryable)
    PROVE  TalliesInv'
<1>1. notes[n] \in AnyNote /\ notes \in Seq(AnyNote) /\ Coherent(notes[n])
  BY DEF TalliesInv, Typed
<1>2. CASE GivesUp(n, retryable)
  <2> DEFINE v == [metrics EXCEPT !.failed = @ + 1]
  <2>1. /\ v \in Metrics /\ Sum(v) = Sum(metrics) + 1 /\ First(v) = First(metrics)
        /\ v.delivered = metrics.delivered
    BY TotalsCounted DEF TalliesInv, Typed
  <2>2. End(n, "failed", v)
    BY <1>2 DEF Missed
  <2> HIDE DEF v
  <2> QED BY <2>1, <2>2, EndStep DEF InFlight
<1>3. CASE ~GivesUp(n, retryable)
  <2> DEFINE e == [notes[n] EXCEPT !.phase = "waiting"]
  <2>1. e \in AnyNote /\ Coherent(e) /\ e.phase = "waiting" /\ e.attempt = notes[n].attempt
    BY <1>1 DEF AnyNote, Coherent, InFlight
  <2>2. notes' = [notes EXCEPT ![n] = e] /\ UNCHANGED <<metrics, saving, snapshots, aged, restarts>>
    BY <1>3 DEF Missed
  <2> HIDE DEF e
  <2>3. notes' \in Seq(AnyNote) /\ DOMAIN notes' = DOMAIN notes /\ aged' \in 0..Len(snapshots)
    BY <1>1, <2>1, <2>2 DEF TalliesInv, Typed
  <2>4. \A j \in DOMAIN notes : notes'[j] = IF j = n THEN e ELSE notes[j]
    BY <2>2
  <2> QED BY <2>1, <2>2, <2>3, <2>4, Uncounted DEF InFlight, TalliesInv
<1> QED BY <1>2, <1>3

\* The delay is over: one more attempt, and one more retry.
LEMMA RetryStep ==
    ASSUME TalliesInv, NEW n \in DOMAIN notes, Retry(n)
    PROVE  TalliesInv'
<1>1. notes[n] \in AnyNote /\ notes \in Seq(AnyNote) /\ Coherent(notes[n])
      /\ notes[n].phase = "waiting"
  BY DEF TalliesInv, Typed, Retry
<1> DEFINE e == [notes[n] EXCEPT !.phase = "sending", !.attempt = @ + 1]
<1>2. e \in AnyNote /\ Coherent(e) /\ e.phase = "sending" /\ e.attempt > 0 /\ notes[n].attempt > 0
  <2> DEFINE a == notes[n].attempt + 1
  <2>1. a \in Nat /\ a > 0 /\ notes[n].attempt \in Nat
    BY <1>1 DEF AnyNote
  <2>2. e = [notes[n] EXCEPT !.phase = "sending", !.attempt = a]
    OBVIOUS
  <2> HIDE DEF a, e
  <2>3. e \in AnyNote /\ e.phase = "sending" /\ e.attempt = a
    BY <1>1, <2>1, <2>2 DEF AnyNote, InFlight
  <2> QED BY <1>1, <2>1, <2>3 DEF Coherent, InFlight
<1>3. notes' = [notes EXCEPT ![n] = e] /\ UNCHANGED <<saving, snapshots, aged, restarts>>
  BY DEF Retry
<1> HIDE DEF e
<1>4. PICK t \in Seq(AnyNote) : t = notes' /\ DOMAIN t = DOMAIN notes
  BY <1>1, <1>2, <1>3
<1>5. \A j \in DOMAIN notes : t[j] = IF j = n THEN e ELSE notes[j]
  BY <1>3, <1>4
<1>6. Underway(t) = Underway(notes) /\ Ended(t) = Ended(notes) /\ BegunIn(t) = BegunIn(notes)
  BY <1>1, <1>2, <1>4, <1>5, SameTallies DEF InFlight
<1>7. metrics' = [metrics EXCEPT !.attempted = @ + 1, !.retried = @ + 1]
  BY DEF Retry, Attempted
<1>8. /\ metrics' \in Metrics /\ metrics'.delivered = metrics.delivered
      /\ Sum(metrics') = Sum(metrics) /\ First(metrics') = First(metrics)
  BY <1>7, TotalsCounted DEF TalliesInv, Typed
<1>9. Plausible(metrics', t) /\ \A m : Restorable(m, t) <=> Restorable(m, notes)
  BY <1>6, <1>8 DEF TalliesInv, Plausible, Restorable
<1>10. Typed'
  BY <1>3, <1>4, <1>8 DEF TalliesInv, Typed
<1>11. \A j \in DOMAIN t : Coherent(t[j])
  BY <1>2, <1>4, <1>5 DEF TalliesInv
<1> QED BY <1>3, <1>4, <1>6, <1>8, <1>9, <1>10, <1>11 DEF TalliesInv

\* The process starts again, with totals that were saved or none.
LEMMA RestartStep ==
    ASSUME TalliesInv, Restart
    PROVE  TalliesInv'
<1>1. notes \in Seq(AnyNote) /\ restarts \in Nat
  BY DEF TalliesInv, Typed
<1> DEFINE again(e) == [e EXCEPT !.row = IF @ = "writing" THEN "none" ELSE @,
                                 !.phase = IF @ \in InFlight THEN "lost" ELSE @]
<1>2. ASSUME NEW e \in AnyNote, Coherent(e)
      PROVE  /\ again(e) \in AnyNote /\ Coherent(again(e)) /\ again(e).attempt = e.attempt
             /\ again(e).phase \notin InFlight
             /\ again(e).phase = "delivered" <=> e.phase = "delivered"
  <2> DEFINE row == IF e.row = "writing" THEN "none" ELSE e.row
             phase == IF e.phase \in InFlight THEN "lost" ELSE e.phase
  <2>1. /\ row \in {"none", "stored", "old", "deleted"}
        /\ phase \in {"none", "delivered", "failed", "lost"}
        /\ phase = "delivered" <=> e.phase = "delivered"
        /\ phase = "none" <=> e.phase = "none"
    BY DEF AnyNote, InFlight
  <2>2. again(e) = [e EXCEPT !.row = row, !.phase = phase]
    OBVIOUS
  <2> HIDE DEF row, phase
  <2>3. ASSUME NEW v, v = [e EXCEPT !.row = row, !.phase = phase]
        PROVE  /\ v \in AnyNote /\ v.phase = phase /\ v.attempt = e.attempt /\ v.got = e.got
    BY <2>1, <2>3 DEF AnyNote, InFlight
  <2> HIDE DEF again
  <2> QED BY <1>2, <2>1, <2>2, <2>3 DEF Coherent, InFlight
<1>3. notes' = [n \in DOMAIN notes |-> again(notes[n])]
  BY DEF Restart
<1> HIDE DEF again
<1>4. \A n \in DOMAIN notes : notes[n] \in AnyNote /\ Coherent(notes[n])
  BY DEF TalliesInv, Typed
<1>5. PICK t \in Seq(AnyNote) : t = notes' /\ DOMAIN t = DOMAIN notes
  <2>1. \A n \in DOMAIN notes : again(notes[n]) \in AnyNote
    BY <1>2, <1>4
  <2>2. DOMAIN notes = 1..Len(notes) /\ Len(notes) \in Nat
    BY <1>1
  <2>3. [n \in DOMAIN notes |-> again(notes[n])] \in Seq(AnyNote)
    BY <2>1, <2>2
  <2> QED BY <1>3, <2>3
<1>6. \A n \in DOMAIN notes : t[n] = again(notes[n])
  BY <1>3, <1>5
<1>7. Underway(t) = {}
  BY <1>2, <1>4, <1>5, <1>6 DEF Underway
<1>8. Cardinality(Underway(t)) = 0
  BY <1>7, FS_EmptySet
<1>9. Ended(t) = Ended(notes) /\ BegunIn(t) = BegunIn(notes)
  BY <1>2, <1>4, <1>5, <1>6 DEF Ended, BegunIn
<1>10. \A m : /\ Plausible(m, t) <=> Plausible(m, notes)
              /\ Restorable(m, t) <=> Restorable(m, notes)
  BY <1>9 DEF Plausible, Restorable
<1>11. /\ restarts' = restarts + 1 /\ saving' = <<>> /\ UNCHANGED <<snapshots, aged>>
       /\ \E m \in {Zero} \union Range(snapshots) : metrics' = m
  BY DEF Restart
<1>12. metrics' \in Metrics /\ Plausible(metrics', notes)
  <2>1. CASE metrics' = Zero
    <3>1. Zero \in Metrics /\ Sum(Zero) = 0 /\ First(Zero) = 0 /\ Zero.delivered = 0
      BY DEF Zero, Metrics, Sum, First
    <3> QED BY <1>1, <2>1, <3>1, Countable DEF Plausible
  <2>2. CASE metrics' \in Range(snapshots)
    BY <2>2 DEF Range, TalliesInv, Restorable
  <2> QED BY <1>11, <2>1, <2>2
<1>13. Sum(metrics') \in Nat /\ Sum(metrics') <= First(metrics')
  BY <1>12 DEF Plausible, Metrics, Sum
<1>14. Typed'
  BY <1>1, <1>5, <1>11, <1>12 DEF TalliesInv, Typed
<1>15. \A n \in DOMAIN t : Coherent(t[n])
  BY <1>2, <1>4, <1>5, <1>6
<1>16. DOMAIN saving' = {} /\ restarts' # 0
  BY <1>1, <1>11
<1> QED BY <1>5, <1>8, <1>10, <1>11, <1>12, <1>13, <1>14, <1>15, <1>16 DEF TalliesInv

\* A snapshot reaches the database, or does not.
LEMMA SavedStep ==
    ASSUME TalliesInv, NEW n \in DOMAIN notes, Saved(n)
    PROVE  TalliesInv'
<1>1. /\ n \in DOMAIN saving /\ UNCHANGED <<notes, metrics, aged, restarts>>
      /\ saving' = [k \in DOMAIN saving \ {n} |-> saving[k]]
      /\ snapshots' = Append(snapshots, saving[n]) \/ snapshots' = snapshots
  BY DEF Saved
<1>2. Restorable(saving[n], notes) /\ snapshots \in Seq(Metrics)
  BY <1>1 DEF TalliesInv, Typed
<1>3. PICK m \in Metrics : m = saving[n]
  BY <1>2 DEF Restorable
<1>4. /\ snapshots' \in Seq(Metrics) /\ Len(snapshots) <= Len(snapshots')
      /\ \A i \in DOMAIN snapshots' : snapshots'[i] = m \/ \E j \in DOMAIN snapshots : snapshots'[i] = snapshots[j]
  BY <1>1, <1>2, <1>3
<1>5. aged' \in 0..Len(snapshots')
  BY <1>1, <1>2, <1>4 DEF TalliesInv, Typed
<1>6. Typed'
  BY <1>1, <1>4, <1>5 DEF TalliesInv, Typed
<1>7. \A i \in DOMAIN snapshots' : Restorable(snapshots'[i], notes)
  BY <1>2, <1>3, <1>4 DEF TalliesInv
<1>8. \A k \in DOMAIN saving' : Restorable(saving'[k], notes)
  BY <1>1 DEF TalliesInv
<1> QED BY <1>1, <1>6, <1>7, <1>8 DEF TalliesInv

\* What has passed the retention is deleted, and the snapshots left are old ones.
LEMMA CleanupSnapshotsStep ==
    ASSUME TalliesInv, CleanupSnapshots
    PROVE  TalliesInv'
<1>1. /\ snapshots' = SubSeq(snapshots, aged + 1, Len(snapshots)) /\ aged' = 0 /\ aged > 0
      /\ UNCHANGED <<notes, metrics, saving, restarts>>
  BY DEF CleanupSnapshots
<1>2. snapshots \in Seq(Metrics) /\ aged \in 0..Len(snapshots) /\ Len(snapshots) \in Nat
  BY DEF TalliesInv, Typed
<1>3. /\ snapshots' \in Seq(Metrics)
      /\ \A i \in DOMAIN snapshots' : \E j \in DOMAIN snapshots : snapshots'[i] = snapshots[j]
  BY <1>1, <1>2
<1>4. Typed'
  BY <1>1, <1>3 DEF TalliesInv, Typed
<1>5. \A i \in DOMAIN snapshots' : Restorable(snapshots'[i], notes)
  BY <1>3 DEF TalliesInv
<1> QED BY <1>1, <1>4, <1>5 DEF TalliesInv

\* Steps that change what is stored of a notification, or whether it was received.
LEMMA RowSteps ==
    ASSUME TalliesInv
    PROVE  /\ \A n \in DOMAIN notes : Persist(n) => TalliesInv'
           /\ \A n \in DOMAIN notes : Accept(n) => TalliesInv'
           /\ TimePasses => TalliesInv'
           /\ CleanupExpired => TalliesInv'
<1>1. /\ notes \in Seq(AnyNote) /\ aged \in 0..Len(snapshots) /\ Len(snapshots) \in Nat
      /\ DOMAIN notes = 1..Len(notes) /\ Len(notes) \in Nat
  BY DEF TalliesInv, Typed
<1>2. \A n \in DOMAIN notes : notes[n] \in AnyNote /\ Coherent(notes[n])
  BY <1>1 DEF TalliesInv
<1>3. ASSUME NEW e \in AnyNote, Coherent(e),
             NEW r \in {"none", "writing", "stored", "old", "deleted"}
      PROVE  \A v : v = [e EXCEPT !.row = r] =>
                 v \in AnyNote /\ Coherent(v) /\ v.phase = e.phase /\ v.attempt = e.attempt
  BY <1>3 DEF AnyNote, Coherent
<1>4. ASSUME NEW n \in DOMAIN notes, Persist(n) PROVE TalliesInv'
  <2>1. PICK r \in {"stored", "none"} : notes' = [notes EXCEPT ![n].row = r]
    BY <1>4 DEF Persist
  <2> DEFINE e == [notes[n] EXCEPT !.row = r]
  <2>2. e \in AnyNote /\ Coherent(e) /\ e.phase = notes[n].phase /\ e.attempt = notes[n].attempt
    BY <1>2, <1>3
  <2>3. notes' = [notes EXCEPT ![n] = e] /\ UNCHANGED <<metrics, saving, snapshots, aged, restarts>>
    BY <1>4, <2>1 DEF Persist
  <2> HIDE DEF e
  <2>4. notes' \in Seq(AnyNote) /\ DOMAIN notes' = DOMAIN notes
    BY <1>1, <2>2, <2>3
  <2>5. \A j \in DOMAIN notes : notes'[j] = IF j = n THEN e ELSE notes[j]
    BY <2>3
  <2> QED BY <1>1, <1>2, <2>2, <2>3, <2>4, <2>5, Uncounted
<1>5. ASSUME NEW n \in DOMAIN notes, Accept(n) PROVE TalliesInv'
  <2> DEFINE g == notes[n].got + 1
             e == [notes[n] EXCEPT !.phase = "accepted", !.got = g]
  <2>1. g \in Nat /\ g > 0 /\ notes[n].phase = "sending"
    BY <1>2, <1>5 DEF AnyNote, Accept
  <2>2. notes' = [notes EXCEPT ![n] = e] /\ UNCHANGED <<metrics, saving, snapshots, aged, restarts>>
    BY <1>5 DEF Accept
  <2> HIDE DEF g
  <2>3. e \in AnyNote /\ e.phase = "accepted" /\ e.attempt = notes[n].attempt /\ e.got = g
    BY <1>2, <2>1 DEF AnyNote, InFlight
  <2> HIDE DEF e
  <2>4. Coherent(e)
    BY <1>2, <2>1, <2>3 DEF Coherent
  <2>5. notes' \in Seq(AnyNote) /\ DOMAIN notes' = DOMAIN notes
    BY <1>1, <2>2, <2>3
  <2>6. \A j \in DOMAIN notes : notes'[j] = IF j = n THEN e ELSE notes[j]
    BY <2>2
  <2> QED BY <1>1, <1>2, <2>1, <2>2, <2>3, <2>4, <2>5, <2>6, Uncounted DEF InFlight
<1>6. ASSUME NEW from, NEW to \in {"old", "deleted"}, aged' \in 0..Len(snapshots),
             notes' = [n \in DOMAIN notes |-> IF notes[n].row = from
                          THEN [notes[n] EXCEPT !.row = to] ELSE notes[n]],
             UNCHANGED <<metrics, saving, snapshots, restarts>>
      PROVE  TalliesInv'
  <2>1. \A n \in DOMAIN notes : /\ notes'[n] \in AnyNote /\ Coherent(notes'[n])
                              /\ notes'[n].phase = notes[n].phase
                              /\ notes'[n].attempt = notes[n].attempt
    <3> TAKE n \in DOMAIN notes
    <3> DEFINE e == [notes[n] EXCEPT !.row = to]
    <3>1. e \in AnyNote /\ Coherent(e) /\ e.phase = notes[n].phase /\ e.attempt = notes[n].attempt
      BY <1>2, <1>3
    <3>2. notes'[n] = IF notes[n].row = from THEN e ELSE notes[n]
      BY <1>6
    <3> HIDE DEF e
    <3> QED BY <1>2, <3>1, <3>2
  <2>2. notes' \in Seq(AnyNote) /\ DOMAIN notes' = DOMAIN notes
    BY <1>1, <1>6, <2>1
  <2> QED BY <1>6, <2>1, <2>2, Uncounted
<1>7. ASSUME TimePasses PROVE TalliesInv'
  <2>1. aged' \in 0..Len(snapshots)
    BY <1>1, <1>7 DEF TimePasses
  <2> QED BY <1>6, <1>7, <2>1 DEF TimePasses
<1>8. ASSUME CleanupExpired PROVE TalliesInv'
  BY <1>1, <1>6, <1>8 DEF CleanupExpired
<1> QED BY <1>4, <1>5, <1>7, <1>8

-----------------------------------------------------------------------------
\* Nothing is published, counted or saved when the process first starts.
LEMMA TalliesStart == NInit => TalliesInv
<1> SUFFICES ASSUME NInit PROVE TalliesInv
  OBVIOUS
<1>1. /\ notes = <<>> /\ metrics = Zero /\ saving = <<>> /\ snapshots = <<>>
      /\ aged = 0 /\ restarts = 0
  BY DEF NInit
<1>2. Underway(notes) = {} /\ Ended(notes) = {} /\ BegunIn(notes) = {}
  BY <1>1 DEF Underway, Ended, BegunIn
<1>3. /\ Cardinality(Underway(notes)) = 0 /\ Cardinality(Ended(notes)) = 0
      /\ Cardinality(BegunIn(notes)) = 0
  BY <1>2, FS_EmptySet
<1>4. Zero \in Metrics /\ Sum(Zero) = 0 /\ First(Zero) = 0 /\ Zero.delivered = 0
  BY DEF Zero, Metrics, Sum, First
<1> QED BY <1>1, <1>3, <1>4 DEF TalliesInv, Typed, Plausible

\* Every step of the notifications keeps their invariant.
LEMMA TalliesSteps == TalliesInv /\ NNext => TalliesInv'
<1> SUFFICES ASSUME TalliesInv, NNext PROVE TalliesInv'
  OBVIOUS
<1>1. ASSUME NEW n \in DOMAIN notes, Delivered(n) PROVE TalliesInv'
  <2> DEFINE v == [metrics EXCEPT !.delivered = @ + 1]
  <2>1. /\ v \in Metrics /\ Sum(v) = Sum(metrics) + 1 /\ First(v) = First(metrics)
        /\ v.delivered = metrics.delivered + 1
    BY TotalsCounted DEF TalliesInv, Typed
  <2>2. End(n, "delivered", v) /\ notes[n].phase = "accepted"
    BY <1>1 DEF Delivered
  <2>3. notes[n].got > 0
    BY <2>2 DEF TalliesInv, Coherent
  <2> HIDE DEF v
  <2> QED BY <2>1, <2>2, <2>3, EndStep DEF InFlight
<1>2. ASSUME NEW n \in DOMAIN notes, Refused(n) \/ TimedOut(n) PROVE TalliesInv'
  BY <1>2, MissedStep DEF Refused, TimedOut
<1> QED BY <1>1, <1>2, PublishStep, RetryStep, SavedStep, RowSteps, CleanupSnapshotsStep,
           RestartStep DEF NNext

\* The totals and every snapshot of them are plausible, for every behaviour.
THEOREM TalliesHold == Spec => []TalliesInv
<1>1. Init => TalliesInv
  BY TalliesStart DEF Init
<1>2. TalliesInv /\ [Next]_bvars => TalliesInv'
  <2> SUFFICES ASSUME TalliesInv, [Next]_bvars PROVE TalliesInv'
    OBVIOUS
  <2>1. CASE NNext
    BY <2>1, TalliesSteps
  <2>2. CASE UNCHANGED nvars
    BY <2>2 DEF nvars, TalliesInv, Typed
  <2> QED BY <2>1, <2>2 DEF Next, Quotes, Stream, Notify, bvars
<1> QED BY <1>1, <1>2, PTL DEF Spec

\* The webhook's totals add up over any interleaving of deliveries, snapshots and
\* restarts: none is counted twice, or as delivered without being received.
THEOREM TotalsAddUp == Spec => []MetricsAddUp
<1>1. TalliesInv => MetricsAddUp
  <2> SUFFICES ASSUME TalliesInv PROVE MetricsAddUp
    OBVIOUS
  <2> DEFINE R == {n \in DOMAIN notes : notes[n].got > 0}
  <2>1. notes \in Seq(AnyNote) /\ DOMAIN notes = 1..Len(notes) /\ Len(notes) \in Nat
    BY DEF TalliesInv, Typed
  <2>2. IsFiniteSet(R) /\ Cardinality(R) \in Nat
    <3>1. IsFiniteSet(DOMAIN notes)
      BY <2>1, FS_Interval
    <3> QED BY <3>1, FS_Subset, FS_CardinalityType
  <2>3. Ended(notes) \subseteq R
    BY DEF Ended, TalliesInv, Coherent
  <2>4. Cardinality(Ended(notes)) <= Cardinality(R)
    BY <2>2, <2>3, FS_Subset
  <2>5. metrics.delivered <= Cardinality(R)
    BY <2>1, <2>2, <2>4, Countable DEF TalliesInv, Typed, Metrics, Plausible
  <2>6. Begun = BegunIn(notes)
        /\ Underway(notes) = {n \in DOMAIN notes : notes[n].phase \in InFlight}
    BY DEF Begun, BegunIn, Underway
  <2>7. First(metrics) = metrics.attempted - metrics.retried
    BY DEF First
  <2>8. \A i \in DOMAIN snapshots : Sum(snapshots[i]) > 0
    BY DEF TalliesInv, Restorable
  <2> QED BY <2>5, <2>6, <2>7, <2>8 DEF MetricsAddUp, TalliesInv, Plausible
<1> QED BY <1>1, TalliesHold, PTL
=============================================================================
