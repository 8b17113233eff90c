----------------------------- MODULE MarketStream -----------------------------
(***************************************************************************)
(* BinanceWebsocketMarketDataService for one symbol: subscriptions, their  *)
(* sockets and reconnect timers.  The handlers of a socket keep the state  *)
(* of the subscription that made it, and outlive the subscription.         *)
(***************************************************************************)
EXTENDS Naturals, FiniteSets

CONSTANTS
    States,       \* StreamState objects; one is used again when nothing refers to it
    Sockets,      \* sockets, likewise
    NoState,      \* no entry in the map
    NoSocket,     \* state.socket = null
    AttemptsSeen  \* bound: attempts are counted up to here (the delay stops growing)

ASSUME StreamAssumption ==
    NoState \notin States /\ NoSocket \notin Sockets /\ AttemptsSeen \in Nat

VARIABLES
    current,   \* the map's entry for the symbol
    state,     \* the StreamState objects
    socket,    \* the sockets: whose handlers they carry, and how far they are
    latest     \* whose socket the latest price came from

svars == <<current, state, socket, latest>>

StreamState == [socket : Sockets \union {NoSocket}, timer : BOOLEAN, stopped : BOOLEAN,
                attempts : 0..AttemptsSeen]
Socket == [owner : States \union {NoState},
           phase : {"none", "connecting", "open", "closing"}]
NewState == [socket |-> NoSocket, timer |-> FALSE, stopped |-> FALSE, attempts |-> 0]

Alive(s) == socket[s].phase # "none"
\* Nothing refers to a stopped state any more once its last socket has closed.
Garbage(i) == i # current /\ state[i].stopped /\ \A s \in Sockets : Alive(s) => socket[s].owner # i

SInit ==
    /\ current = NoState
    /\ state = [i \in States |-> [NewState EXCEPT !.stopped = TRUE]]
    /\ socket = [s \in Sockets |-> [owner |-> NoState, phase |-> "none"]]
    /\ latest = NoState

\* connect: state i, as left by its caller, gets a socket.
Connect(i, st) ==
    \E s \in Sockets :
        /\ ~Alive(s)
        /\ socket' = [socket EXCEPT ![s] = [owner |-> i, phase |-> "connecting"]]
        /\ state' = [state EXCEPT ![i] = [st EXCEPT !.socket = s]]

\* A symbol that is subscribed is left alone.
Subscribe(i) ==
    /\ current = NoState /\ Garbage(i)
    /\ current' = i
    /\ Connect(i, NewState)
    /\ UNCHANGED latest

CloseSocket(i) ==
    socket' = [s \in Sockets |-> IF s = state[i].socket THEN [socket[s] EXCEPT !.phase = "closing"]
                                 ELSE socket[s]]

\* Fault: the timer is cleared and the socket closed, the state not marked.
Unsubscribe_Unmarked ==
    /\ current # NoState
    /\ state' = [state EXCEPT ![current].timer = FALSE]
    /\ CloseSocket(current)
    /\ current' = NoState
    /\ UNCHANGED latest

\* unsubscribe, or onModuleDestroy.
Unsubscribe ==
    /\ current # NoState
    /\ state' = [state EXCEPT ![current].stopped = TRUE, ![current].timer = FALSE]
    /\ CloseSocket(current)
    /\ current' = NoState
    /\ UNCHANGED latest

Opens(s) ==
    /\ socket[s].phase = "connecting"
    /\ socket' = [socket EXCEPT ![s].phase = "open"]
    /\ state' = [state EXCEPT ![socket[s].owner].attempts = 0]
    /\ UNCHANGED <<current, latest>>

\* A valid ticker; a socket being closed may still deliver one.
Message(s) ==
    /\ socket[s].phase \in {"open", "closing"}
    /\ latest' = socket[s].owner
    /\ UNCHANGED <<current, state, socket>>

Counted(n) == IF n < AttemptsSeen THEN n + 1 ELSE n

\* Fault: a closed stream waits for somebody to subscribe again.
Closed_GivesUp(st) == [st EXCEPT !.socket = NoSocket]

\* What the close handler makes of its state (scheduleReconnect unless stopped).
Closed(st) ==
    IF st.stopped THEN [st EXCEPT !.socket = NoSocket]
    ELSE [st EXCEPT !.socket = NoSocket, !.timer = TRUE, !.attempts = Counted(@)]

Closes(s) ==
    /\ Alive(s)
    /\ state' = [state EXCEPT ![socket[s].owner] = Closed(@)]
    /\ socket' = [socket EXCEPT ![s].phase = "none", ![s].owner = NoState]
    /\ UNCHANGED <<current, latest>>

\* The reconnect timer; connect returns at once if the state was stopped.
Reconnect(i) ==
    /\ state[i].timer
    /\ IF state[i].stopped
       THEN state' = [state EXCEPT ![i].timer = FALSE] /\ UNCHANGED socket
       ELSE Connect(i, [state[i] EXCEPT !.timer = FALSE])
    /\ UNCHANGED <<current, latest>>

SNext ==
    \/ \E i \in States : Subscribe(i) \/ Reconnect(i)
    \/ Unsubscribe
    \/ \E s \in Sockets : Opens(s) \/ Message(s) \/ Closes(s)

\* Timers fire, sockets that are being closed close, and a network that is tried
\* again and again lets a connection be opened again and again.
Connecting(i) == \E s \in Sockets : socket[s].owner = i /\ Opens(s)
Closing(s) == socket[s].phase = "closing" /\ Closes(s)
StreamFairness ==
    /\ \A i \in States : WF_svars(Reconnect(i)) /\ SF_svars(Connecting(i))
    /\ \A s \in Sockets : WF_svars(Closing(s))

-----------------------------------------------------------------------------
(* Properties *)

StreamTypeOK ==
    /\ current \in States \union {NoState}
    /\ state \in [States -> StreamState]
    /\ socket \in [Sockets -> Socket]
    /\ latest \in States \union {NoState}

\* Whatever a dead socket's close event, a reconnect timer and new subscriptions
\* do in whatever order, a socket that is connecting or open is the one its
\* state knows of, that state is the one subscribed, and no timer waits beside it:
\* no connection is left behind that nobody could close.
NoOrphanSocket ==
    /\ \A s \in Sockets : socket[s].phase \in {"connecting", "open"} =>
          /\ socket[s].owner = current /\ state[current].socket = s
          /\ ~state[current].timer
    /\ \A i \in States : state[i].timer => i = current

\* A symbol that stays subscribed is connected again and again, however often
\* its connection breaks.
Streaming == current # NoState /\ \E s \in Sockets : socket[s].phase = "open"
StaysConnected == <>[](current # NoState) => []<>Streaming
=============================================================================
