------------------------- MODULE TestnetTypingProofs -------------------------
(***************************************************************************)
(* TestnetTrading keeps its rows and locals well-typed and its references  *)
(* intact, for any set of processes and any bounds.                        *)
(***************************************************************************)
EXTENDS TestnetTrading, TLAPS

\* The rows are well-typed and refer to rows that exist.
RowsOK ==
    /\ strategy \in {"RUNNING", "PAUSED", "STOPPED"}
    /\ ActionsTypeOK
    /\ positions \in Seq(Position)
    /\ DOMAIN subs \subseteq (DOMAIN positions) \X Nat /\ subs \in [DOMAIN subs -> Sub]
    /\ exchange \in Seq(ExchangeOrder)
    /\ DOMAIN orders \subseteq DOMAIN exchange /\ orders \in [DOMAIN orders -> Order]
    /\ \A o \in DOMAIN orders : orders[o].pos \in DOMAIN positions
    /\ \A k \in DOMAIN actions : actions[k].order \in DOMAIN orders \union {NoId}

\* What the locals v of an activity at l refer to exists.
LocalOK(l, v) ==
    /\ l \in PCs
    /\ v \in Memory
    /\ v.pos \in DOMAIN positions \union {NoId}
    /\ l = "commit" => v.oid \in DOMAIN exchange
    /\ l \in {"fetch", "apply"} =>
          v.oid \in DOMAIN orders /\ v.order.pos \in DOMAIN positions
    /\ v.job.type = "NONE" <=> v.job.key = NoKey
    /\ l \in {"claim", "create", "failWrite"} => v.job.type # "NONE"

\* The locals of every activity.
LocalsOK ==
    /\ pc \in [Proc -> PCs]
    /\ mem \in [Proc -> Memory]
    /\ \A q \in Proc : LocalOK(pc[q], mem[q])

\* An activity at rest refers to nothing.
LEMMA BlankOK ==
    ASSUME NEW l \in PCs \ {"commit", "fetch", "apply", "claim", "create", "failWrite"}
    PROVE  LocalOK(l, Blank)
<1>1. Blank \in Memory
  BY DEF Blank, Memory, NoJob, NoPosition, NoSub, NoOrder, NoAck, Job, Position, Sub, Order,
         ExchangeOrder, NoId, Side, LiveOrder, OrderStatus, Working
<1>2. Blank.pos = NoId /\ Blank.job.type = "NONE" /\ Blank.job.key = NoKey
  BY DEF Blank, NoJob
<1>3. QED
  BY <1>1, <1>2 DEF LocalOK

\* A step of p that only adds rows, to l with locals v.
LEMMA MoveStep ==
    ASSUME LocalsOK, NEW p \in Proc, NEW l, NEW v,
           DOMAIN positions \subseteq DOMAIN positions',
           DOMAIN orders \subseteq DOMAIN orders',
           DOMAIN exchange \subseteq DOMAIN exchange',
           pc' = [pc EXCEPT ![p] = l], mem' = [mem EXCEPT ![p] = v],
           LocalOK(l, v)'
    PROVE  LocalsOK'
<1>1. ASSUME NEW q \in Proc PROVE LocalOK(pc[q], mem[q])'
  <2>1. CASE q = p
    BY <2>1 DEF LocalsOK
  <2>2. CASE q # p
    BY <2>2 DEF LocalsOK, LocalOK
  <2>3. QED
    BY <2>1, <2>2
<1>2. QED
  BY <1>1 DEF LocalsOK, LocalOK

\* The initial states.
LEMMA InitOK == Init => RowsOK /\ LocalsOK
<1> SUFFICES ASSUME Init PROVE RowsOK /\ LocalsOK
  OBVIOUS
<1>1. RowsOK
  BY DEF Init, RowsOK, ActionsTypeOK
<1>2. LocalsOK
  BY BlankOK DEF Init, LocalsOK, LocalOK, PCs
<1>3. QED
  BY <1>1, <1>2

\* Nothing written, nothing spoiled.
LEMMA RowsKept == RowsOK /\ UNCHANGED <<rows, exchange>> => RowsOK'
BY DEF RowsOK, ActionsTypeOK, rows

\* A step of p that leaves the rows alone, to place l with locals v.
LEMMA LocalStep ==
    ASSUME RowsOK, LocalsOK, UNCHANGED <<rows, exchange>>, NEW p \in Proc, NEW l, NEW v,
           pc' = [pc EXCEPT ![p] = l], mem' = [mem EXCEPT ![p] = v], LocalOK(l, v)
    PROVE  RowsOK' /\ LocalsOK'
<1>1. RowsOK'
  BY RowsKept
<1>2. LocalOK(l, v)'
  BY DEF LocalOK, rows
<1>3. LocalsOK'
  BY <1>2, MoveStep DEF rows
<1>4. QED
  BY <1>1, <1>3

\* An activity comes to rest, or dies.
LEMMA ReturnOK ==
    ASSUME LocalsOK, NEW p \in Proc, Return(p),
           DOMAIN positions \subseteq DOMAIN positions',
           DOMAIN orders \subseteq DOMAIN orders',
           DOMAIN exchange \subseteq DOMAIN exchange'
    PROVE  LocalsOK'
<1>1. LocalOK("idle", Blank)'
  BY BlankOK DEF LocalOK, PCs
<1>2. QED
  BY <1>1, MoveStep DEF Return, Goto

\* An execution throws.
LEMMA ThrowOK ==
    ASSUME LocalsOK, NEW p \in Proc, NEW retry \in BOOLEAN, Throw(p, retry),
           DOMAIN positions \subseteq DOMAIN positions',
           DOMAIN orders \subseteq DOMAIN orders',
           DOMAIN exchange \subseteq DOMAIN exchange'
    PROVE  LocalsOK'
<1>1. CASE p \notin Retriers
  BY <1>1, ReturnOK DEF Throw
<1>2. CASE p \in Retriers
  <2> PICK v : v = [Blank EXCEPT !.orig = mem[p].orig, !.retry = retry]
    OBVIOUS
  <2>1. v \in Memory /\ v.pos = NoId /\ v.job = NoJob
    <3>1. mem[p] \in Memory
      BY DEF LocalsOK
    <3>2. "idle" \in PCs \ {"commit", "fetch", "apply", "claim", "create", "failWrite"}
      BY DEF PCs
    <3>3. Blank \in Memory
      BY <3>2, BlankOK DEF LocalOK
    <3>4. Blank.pos = NoId /\ Blank.job = NoJob
      BY DEF Blank
    <3>5. QED
      BY <3>1, <3>3, <3>4 DEF Memory
  <2>2. LocalOK("giveUp", v)'
    BY <2>1 DEF LocalOK, PCs, NoJob
  <2>3. QED
    BY <1>2, <2>2, MoveStep DEF Throw, Goto
<1>3. QED
  BY <1>1, <1>2

-----------------------------------------------------------------------------
(* Runner *)

\* The jobs of the automatic strategy.
LEMMA AutoJobOK ==
    ASSUME NEW type \in Types, NEW side \in Side, NEW pos \in Nat, NEW tag \in Nat,
           NEW qty \in Nat, NEW level \in Nat
    PROVE  LET job == AutoJob(type, side, pos, tag, qty, level)
           IN  job \in Job /\ job.type \in Types /\ job.type # "NONE" /\ job.key \in Key
               /\ job.key # NoKey
<1> DEFINE job == AutoJob(type, side, pos, tag, qty, level)
<1>1. job.key \in Key
  BY DEF AutoJob, Key
<1>2. job \in Job /\ job.type = type /\ type # "NONE"
  BY <1>1 DEF AutoJob, Job, Types, Entries, Exits
<1>3. QED
  BY <1>1, <1>2, NoKeyAssumption

\* What the runner decides is a job.
LEMMA DecisionOK ==
    ASSUME RowsOK, NEW id \in DOMAIN positions \union {NoId}, NEW job \in Decisions(id)
    PROVE  job \in Job /\ job.type # "NONE" /\ job.key # NoKey
<1>0. /\ "INITIAL_ENTRY" \in Types /\ "DCA_ENTRY" \in Types /\ "INDEPENDENT_ENTRY" \in Types
      /\ "PARENT_EXIT" \in Types /\ "INDEPENDENT_EXIT" \in Types
      /\ "BUY" \in Side /\ "SELL" \in Side /\ Lots \in Nat
      /\ 0 \in Nat /\ 1 \in Nat /\ NoId \in Nat
  BY BoundsAssumption DEF Types, Entries, Exits, Side, NoId
<1>1. CASE id = NoId
  <2>1. job = InitialEntry
    BY <1>1 DEF Decisions
  <2>2. QED
    BY <1>0, <2>1, AutoJobOK, Zenon DEF InitialEntry
<1>2. CASE id # NoId
  <2>1. id \in Nat /\ positions[id].qty \in Nat /\ positions[id].dca \in Nat
        /\ positions[id].dca + 1 \in Nat /\ positions[id].dca + 2 \in Nat
    <3>1. id \in Nat /\ positions[id] \in Position
      BY <1>2 DEF RowsOK
    <3>2. positions[id].qty \in Nat /\ positions[id].dca \in Nat
      BY <3>1 DEF Position
    <3>3. QED
      BY <3>1, <3>2
  <2>2. CASE job = ParentExit(id)
    BY <1>0, <2>1, <2>2, AutoJobOK, Zenon DEF ParentExit
  <2>3. CASE job = NextEntry(id)
    <3>1. PICK type \in Types : job = AutoJob(type, "BUY", id, positions[id].dca + 2, Lots,
                                             positions[id].dca + 2)
      <4>1. CASE positions[id].dca + 2 >= IndependentFrom
        BY <1>0, <2>3, <4>1 DEF NextEntry
      <4>2. CASE ~(positions[id].dca + 2 >= IndependentFrom)
        BY <1>0, <2>3, <4>2 DEF NextEntry
      <4>3. QED
        BY <4>1, <4>2
    <3>2. QED
      BY <1>0, <2>1, <3>1, AutoJobOK, Zenon
  <2>4. CASE job \in IndependentExits(id)
    <3>1. PICK s \in DOMAIN subs :
             job = AutoJob("INDEPENDENT_EXIT", "SELL", id, s[2], subs[s].qty, s[2])
      BY <2>4 DEF IndependentExits
    <3>2. s[2] \in Nat /\ subs[s].qty \in Nat
      BY DEF RowsOK, Sub
    <3>3. QED
      BY <1>0, <2>1, <3>1, <3>2, AutoJobOK
  <2>5. QED
    BY <1>2, <2>2, <2>3, <2>4 DEF Decisions
<1>3. QED
  BY <1>1, <1>2

\* The runner.
LEMMA TickOK ==
    ASSUME RowsOK, LocalsOK, NEW p \in Proc, TickStep(p)
    PROVE  RowsOK' /\ LocalsOK'
<1>1. CASE TickDecide(p)
  <2>1. PICK id \in DOMAIN positions \union {NoId} :
           \E job \in Decisions(id) : mem' = [mem EXCEPT ![p].job = job]
    BY <1>1 DEF TickDecide
  <2>0. PICK job \in Decisions(id) : mem' = [mem EXCEPT ![p].job = job]
    BY <2>1
  <2>2. job \in Job /\ job.type # "NONE" /\ job.key # NoKey
    BY <2>1, <2>0, DecisionOK
  <2> DEFINE v == [mem[p] EXCEPT !.job = job]
  <2>3. LocalOK("tick", v)
    BY <2>2 DEF LocalsOK, LocalOK, PCs, Memory
  <2>4. mem' = [mem EXCEPT ![p] = v]
    BY <2>0
  <2>5. QED
    BY <1>1, <2>3, <2>4, LocalStep DEF TickDecide, Goto
<1>2. CASE TickSkip(p)
  BY <1>2, ReturnOK, RowsKept DEF TickSkip, rows
<1>3. CASE TickExecute(p)
  <2>1. LocalOK("start", mem[p]) /\ mem' = [mem EXCEPT ![p] = mem[p]]
    BY <1>3 DEF TickExecute, LocalsOK, LocalOK, PCs
  <2>2. QED
    BY <1>3, <2>1, LocalStep DEF TickExecute, Goto
<1>4. QED
  BY <1>1, <1>2, <1>3 DEF TickStep

-----------------------------------------------------------------------------
(* Execution *)

\* A step that writes the action table only.
LEMMA ActionsKept ==
    ASSUME RowsOK, UNCHANGED <<strategy, positions, subs, orders, exchange>>,
           actions' \in [DOMAIN actions' -> Row], DOMAIN actions' \subseteq Key,
           \A k \in DOMAIN actions' : actions'[k].order \in DOMAIN orders \union {NoId}
    PROVE  RowsOK'
BY DEF RowsOK, ActionsTypeOK

\* The effects on an action row keep its type and its order.
LEMMA EffectsOK ==
    ASSUME NEW row \in Row
    PROVE  /\ Completed(row) \in Row /\ Completed(row).order = row.order
           /\ \A permanent \in BOOLEAN : Failed(row, permanent) \in Row
                                         /\ Failed(row, permanent).order = row.order
           /\ Reopened(row) \in Row /\ Reopened(row).order = row.order
           /\ Cancelled(row) \in Row /\ Cancelled(row).order = row.order
<1>1. Completed(row) \in Row /\ Completed(row).order = row.order
  BY DEF Row, Status, Unresolved, Completed
<1>2. ASSUME NEW permanent \in BOOLEAN
      PROVE  Failed(row, permanent) \in Row /\ Failed(row, permanent).order = row.order
  BY DEF Row, Status, Unresolved, Failed
<1>3. Reopened(row) \in Row /\ Reopened(row).order = row.order
  <2>1. row.attempts + 1 \in Nat
    BY DEF Row
  <2>2. QED
    BY <2>1 DEF Row, Status, Unresolved, Reopened
<1>4. Cancelled(row) \in Row /\ Cancelled(row).order = row.order
  BY DEF Row, Status, Unresolved, Cancelled
<1>5. QED
  BY <1>1, <1>2, <1>3, <1>4

\* The operations on one row that keep its order.
LEMMA UpdateOK ==
    ASSUME RowsOK, NEW k, NEW permanent \in BOOLEAN,
           MarkCompleted(k) \/ MarkFailed(k, permanent) \/ Reopen(k) \/ CancelRetry(k),
           UNCHANGED <<strategy, positions, subs, orders, exchange>>
    PROVE  RowsOK'
<1>1. PICK row : /\ actions' = [actions EXCEPT ![k] = row]
                 /\ k \in DOMAIN actions => row \in Row /\ row.order = actions[k].order
  <2>0. k \in DOMAIN actions => actions[k] \in Row
    BY DEF RowsOK, ActionsTypeOK
  <2>1. CASE MarkCompleted(k)
    BY <2>0, <2>1, EffectsOK DEF MarkCompleted
  <2>2. CASE MarkFailed(k, permanent)
    BY <2>0, <2>2, EffectsOK DEF MarkFailed
  <2>3. CASE Reopen(k)
    BY <2>0, <2>3, EffectsOK DEF Reopen
  <2>4. CASE CancelRetry(k)
    BY <2>0, <2>4, EffectsOK DEF CancelRetry
  <2>5. QED
    BY <2>1, <2>2, <2>3, <2>4
<1>2. DOMAIN actions' = DOMAIN actions
  BY <1>1
<1>3. ASSUME NEW x \in DOMAIN actions'
      PROVE  actions'[x] \in Row /\ actions'[x].order \in DOMAIN orders \union {NoId}
  BY <1>1, <1>2 DEF RowsOK, ActionsTypeOK
<1>4. actions' \in [DOMAIN actions' -> Row]
  BY <1>1, <1>2, <1>3 DEF RowsOK, ActionsTypeOK
<1>5. QED
  BY <1>2, <1>3, <1>4, ActionsKept DEF RowsOK, ActionsTypeOK

\* The action row is created.
LEMMA CreateActionOK ==
    ASSUME RowsOK, LocalsOK, NEW p \in Proc, CreateAction(p)
    PROVE  RowsOK' /\ LocalsOK'
<1>1. /\ mem[p].job \in Job /\ mem[p].job.key \in Key /\ mem[p].job.type \in Types
      /\ mem[p].pos \in Nat
  BY DEF CreateAction, LocalsOK, LocalOK, Memory, Job
<1> DEFINE row == Pending(mem[p].job.type, mem[p].pos, mem[p].job.qty, mem[p].job.level)
<1>2. row \in Row /\ row.order = NoId
  BY <1>1 DEF Pending, Row, Status, Unresolved, Job, NoId
<1>3. /\ DOMAIN actions' = DOMAIN actions \union {mem[p].job.key}
      /\ actions' \in [DOMAIN actions' -> Row]
      /\ \A k \in DOMAIN actions' : actions'[k].order \in DOMAIN orders \union {NoId}
  <2> HIDE DEF row
  <2>1. actions' = Put(actions, mem[p].job.key, row)
    BY DEF CreateAction, Create, row
  <2>2. QED
    BY <1>2, <2>1 DEF Put, RowsOK, ActionsTypeOK
<1>4. RowsOK'
  BY <1>1, <1>3, ActionsKept DEF CreateAction, RowsOK, ActionsTypeOK
<1>5. PICK v : v = mem[p]
  OBVIOUS
<1>6. LocalOK("place", v)'
  BY <1>5 DEF CreateAction, LocalsOK, LocalOK, PCs
<1>7. mem' = [mem EXCEPT ![p] = v]
  BY <1>5 DEF CreateAction, LocalsOK
<1>8. QED
  BY <1>4, <1>6, <1>7, MoveStep DEF CreateAction, Goto

\* What the queries for a position and a sub-position return.
LEMMA RowOfOK ==
    ASSUME RowsOK, NEW id \in DOMAIN positions \union {NoId}
    PROVE  RowOf(id) \in Position
<1>1. NoPosition \in Position
  BY DEF NoPosition, Position
<1>2. QED
  BY <1>1 DEF RowOf, RowsOK

\* The snapshot of a sub-position.
LEMMA SubOfOK ==
    ASSUME RowsOK, NEW id, NEW level
    PROVE  SubOf(id, level) \in Sub
<1>1. NoSub \in Sub
  BY DEF NoSub, Sub
<1>2. QED
  BY <1>1 DEF SubOf, RowsOK

\* The steps of an execution that change no row.
LEMMA AdmitOK ==
    ASSUME RowsOK, LocalsOK, NEW p \in Proc, Admit(p)
    PROVE  RowsOK' /\ LocalsOK'
<1>1. PICK id \in DOMAIN positions \union {NoId} :
         mem' = [mem EXCEPT ![p].pos = id, ![p].row = RowOf(id),
                            ![p].sub = SubOf(id, mem[p].job.level)]
  BY DEF Admit
<1>2. PICK row, sub : row = RowOf(id) /\ sub = SubOf(id, mem[p].job.level)
  OBVIOUS
<1>3. row \in Position /\ sub \in Sub
  BY <1>2, RowOfOK, SubOfOK
<1> DEFINE v == [mem[p] EXCEPT !.pos = id, !.row = row, !.sub = sub]
           l == IF mem[p].job.type = "NONE" THEN "place" ELSE "claim"
<1>4. mem' = [mem EXCEPT ![p] = v]
  BY <1>1, <1>2
<1>5. v \in Memory /\ v.pos = id /\ v.job = mem[p].job
  <2>1. id \in Nat /\ mem[p] \in Memory
    BY DEF LocalsOK, RowsOK, NoId
  <2>2. QED
    BY <2>1, <1>3 DEF Memory
<1>6. LocalOK(l, v)
  <2> HIDE DEF v
  <2>1. mem[p].job.type = "NONE" <=> mem[p].job.key = NoKey
    BY DEF LocalsOK, LocalOK
  <2>2. QED
    BY <1>5, <2>1 DEF LocalOK, PCs
<1>7. QED
  BY <1>4, <1>6, LocalStep DEF Admit, Goto

\* The error paths of an execution.
LEMMA ErrorOK ==
    ASSUME RowsOK, LocalsOK, NEW p \in Proc, NEW retry \in BOOLEAN,
           mem' = [mem EXCEPT ![p].retry = retry], Goto(p, "fail"),
           RowsOK',
           DOMAIN positions \subseteq DOMAIN positions',
           DOMAIN orders \subseteq DOMAIN orders',
           DOMAIN exchange \subseteq DOMAIN exchange'
    PROVE  RowsOK' /\ LocalsOK'
<1>1. PICK v : v = [mem[p] EXCEPT !.retry = retry]
  OBVIOUS
<1>2. v \in Memory /\ v.pos = mem[p].pos /\ v.job = mem[p].job
  BY <1>1 DEF LocalsOK, Memory
<1>3. /\ mem[p].job.type = "NONE" <=> mem[p].job.key = NoKey
      /\ mem[p].pos \in DOMAIN positions' \union {NoId}
  BY DEF LocalsOK, LocalOK
<1>4. LocalOK("fail", v)'
  BY <1>2, <1>3 DEF LocalOK, PCs
<1>5. QED
  BY <1>1, <1>4, MoveStep DEF Goto

\* The exchange takes an order.
LEMMA AcceptOK ==
    ASSUME RowsOK, LocalsOK, NEW p \in Proc, Accept(p)
    PROVE  /\ RowsOK'
           /\ UNCHANGED rows
           /\ DOMAIN exchange' = DOMAIN exchange \union {Len(exchange')}
           /\ exchange'[Len(exchange')] \in ExchangeOrder
<1>1. PICK o \in NewOrders(mem[p].job) : exchange' = Append(exchange, o)
  BY DEF Accept
<1>2. o \in ExchangeOrder
  <2>1. mem[p].job \in Job
    BY DEF LocalsOK, Memory
  <2>2. o \in [key : {mem[p].job.key}, side : {mem[p].job.side}, qty : {mem[p].job.qty},
               executed : 0..mem[p].job.qty,
               status : Working \union {"FILLED"} \union EndStatuses]
    BY DEF NewOrders
  <2>3. Working \union {"FILLED"} \union EndStatuses
           \subseteq Working \union {"FILLED", "CANCELED", "EXPIRED", "EXPIRED_IN_MATCH"}
    BY BoundsAssumption
  <2>4. QED
    BY <2>1, <2>2, <2>3 DEF Job, ExchangeOrder
<1>3. /\ exchange' \in Seq(ExchangeOrder)
      /\ DOMAIN exchange' = DOMAIN exchange \union {Len(exchange')}
      /\ exchange'[Len(exchange')] = o
  BY <1>1, <1>2 DEF RowsOK
<1>4. RowsOK'
  BY <1>3 DEF Accept, rows, RowsOK, ActionsTypeOK
<1>5. QED
  BY <1>2, <1>3, <1>4 DEF Accept

\* The order is placed, or is not.
LEMMA PlaceOK ==
    ASSUME RowsOK, LocalsOK, NEW p \in Proc, Place(p)
    PROVE  RowsOK' /\ LocalsOK'
<1>1. PICK n, ack : n = Len(exchange') /\ ack = exchange'[n]
  OBVIOUS
<1>2. RowsOK' /\ UNCHANGED rows /\ DOMAIN exchange' = DOMAIN exchange \union {n}
      /\ ack \in ExchangeOrder
  BY <1>1, AcceptOK DEF Place
<1>3. n \in Nat
  BY <1>1, <1>2 DEF RowsOK
<1>4. PICK v : v = [mem[p] EXCEPT !.oid = n, !.ack = ack]
  OBVIOUS
<1>5. v \in Memory /\ v.pos = mem[p].pos /\ v.job = mem[p].job /\ v.oid = n
  BY <1>2, <1>3, <1>4 DEF LocalsOK, Memory
<1>6. /\ mem[p].job.type = "NONE" <=> mem[p].job.key = NoKey
      /\ mem[p].pos \in DOMAIN positions' \union {NoId}
  BY <1>2 DEF LocalsOK, LocalOK, rows
<1>7. LocalOK("commit", v)'
  BY <1>2, <1>5, <1>6 DEF LocalOK, PCs
<1>8. mem' = [mem EXCEPT ![p] = v]
  BY <1>1, <1>4 DEF Place
<1>9. QED
  BY <1>2, <1>7, <1>8, MoveStep DEF Place, Goto, rows

-----------------------------------------------------------------------------
(* Writing fills *)

\* Math.max(m - n, 0) is a quantity.
LEMMA LessOK == \A m, n \in Nat : Less(m, n) \in Nat
BY DEF Less

\* Every status of the exchange maps to one of an order row.
LEMMA MapStatusOK ==
    ASSUME NEW ack \in ExchangeOrder
    PROVE  MapStatus(ack.status) \in OrderStatus
BY DEF ExchangeOrder, Working, MapStatus, OrderStatus, LiveOrder

\* A buy fill on a position.
LEMMA BuyParentOK ==
    ASSUME RowsOK, NEW id \in DOMAIN positions, NEW row \in Position, NEW d \in Nat,
           NEW dca \in Nat, BuyParent(id, row, d, dca)
    PROVE  positions' \in Seq(Position) /\ DOMAIN positions' = DOMAIN positions
<1>1. positions[id] \in Position /\ row.qty + d \in Nat /\ positions[id].version + 1 \in Nat
  <2>1. positions[id] \in Position
    BY DEF RowsOK
  <2>2. positions[id].version \in Nat /\ row.qty \in Nat
    BY <2>1 DEF Position
  <2>3. QED
    BY <2>1, <2>2
<1> DEFINE r == [positions[id] EXCEPT !.qty = row.qty + d, !.dca = dca, !.version = @ + 1]
<1>2. r \in Position
  BY <1>1 DEF Position
<1>3. positions' = [positions EXCEPT ![id] = r]
  BY DEF BuyParent, RowsOK
<1> HIDE DEF r
<1>4. QED
  BY <1>2, <1>3 DEF RowsOK

\* A sell fill on a position.
LEMMA SellParentOK ==
    ASSUME RowsOK, NEW id \in DOMAIN positions, NEW row \in Position, NEW d \in Nat,
           SellParent(id, row, d)
    PROVE  positions' \in Seq(Position) /\ DOMAIN positions' = DOMAIN positions
<1>1. PICK left : left = Less(row.qty, d)
  OBVIOUS
<1>2. left \in Nat
  BY <1>1, LessOK DEF Position
<1>3. positions[id] \in Position /\ positions[id].version + 1 \in Nat
  <2>1. positions[id] \in Position
    BY DEF RowsOK
  <2>2. positions[id].version \in Nat
    BY <2>1 DEF Position
  <2>3. QED
    BY <2>1, <2>2
<1> DEFINE r == [positions[id] EXCEPT !.qty = left,
                                      !.status = IF left = 0 THEN "CLOSED" ELSE "OPEN",
                                      !.version = @ + 1]
<1>4. r \in Position
  BY <1>2, <1>3 DEF Position
<1>5. positions' = [positions EXCEPT ![id] = r]
  BY <1>1 DEF SellParent, RowsOK
<1> HIDE DEF r
<1>6. QED
  BY <1>4, <1>5 DEF RowsOK

\* subs after a fill of the sub-position of an existing position.
LEMMA SubFillOK ==
    ASSUME RowsOK, NEW id \in DOMAIN positions', NEW level \in Nat, NEW sub \in Sub, NEW d \in Nat,
           DOMAIN positions \subseteq DOMAIN positions',
           BuySub(id, level, sub, d) \/ SellSub(id, level, sub, d) \/ UNCHANGED subs
    PROVE  DOMAIN subs' \subseteq (DOMAIN positions') \X Nat /\ subs' \in [DOMAIN subs' -> Sub]
<1>1. CASE BuySub(id, level, sub, d)
  <2> DEFINE s == [status |-> "OPEN", qty |-> sub.qty + d]
  <2>1. s \in Sub
    BY DEF Sub
  <2>2. subs' = Put(subs, <<id, level>>, s)
    BY <1>1 DEF BuySub
  <2> HIDE DEF s
  <2>3. QED
    BY <2>1, <2>2 DEF Put, RowsOK
<1>2. CASE SellSub(id, level, sub, d)
  <2> DEFINE s == [status |-> IF Less(sub.qty, d) = 0 THEN "CLOSED" ELSE "OPEN",
                   qty |-> Less(sub.qty, d)]
  <2>1. s \in Sub
    BY LessOK DEF Sub
  <2>2. subs' = Put(subs, <<id, level>>, s)
    BY <1>2 DEF SellSub
  <2> HIDE DEF s
  <2>3. QED
    BY <2>1, <2>2 DEF Put, RowsOK
<1>3. CASE UNCHANGED subs
  BY <1>3 DEF RowsOK
<1>4. QED
  BY <1>1, <1>2, <1>3

\* The transaction of an execution.
LEMMA CommitOK ==
    ASSUME RowsOK, LocalsOK, NEW p \in Proc, Commit(p)
    PROVE  RowsOK' /\ LocalsOK'
<1> DEFINE m == mem[p]
           job == m.job
           d == m.ack.executed
           ind == Independent(job)
           id == IF m.pos = NoId THEN Len(positions) + 1 ELSE m.pos
<1>1. /\ m \in Memory /\ job \in Job /\ m.row \in Position /\ m.sub \in Sub
      /\ m.ack \in ExchangeOrder /\ m.oid \in DOMAIN exchange
      /\ m.pos \in DOMAIN positions \union {NoId}
      /\ job.type = "NONE" <=> job.key = NoKey
  BY DEF Commit, LocalsOK, LocalOK, Memory
<1>2. d \in Nat /\ job.level \in Nat /\ job.key \in Key \union {NoKey} /\ m.row.dca \in Nat
      /\ job.side \in Side /\ m.oid \in Nat /\ m.row.dca + 1 \in Nat
  BY <1>1 DEF ExchangeOrder, Job, Position, Memory
<1>3. /\ positions' \in Seq(Position) /\ DOMAIN positions \subseteq DOMAIN positions'
      /\ id \in DOMAIN positions' /\ id \in Nat
  <2>1. CASE m.pos = NoId
    <3> DEFINE new == [status |-> "OPEN", qty |-> IF ind THEN 0 ELSE d, dca |-> 0, version |-> 0]
    <3>1. new \in Position
      BY <1>2 DEF Position
    <3>2. positions' = Append(positions, new)
      BY <2>1 DEF Commit
    <3> HIDE DEF new
    <3>3. QED
      BY <2>1, <3>1, <3>2 DEF RowsOK
  <2>2. CASE m.pos # NoId
    <3>1. id = m.pos /\ id \in DOMAIN positions /\ id \in Nat
      BY <1>1, <2>2 DEF RowsOK
    <3>2. CASE UNCHANGED positions
      BY <3>1, <3>2 DEF RowsOK
    <3>3. CASE BuyParent(id, m.row, d, m.row.dca + 1)
      BY <1>1, <1>2, <3>1, <3>3, BuyParentOK
    <3>4. CASE SellParent(id, m.row, d)
      BY <1>1, <1>2, <3>1, <3>4, SellParentOK
    <3>5. QED
      BY <2>2, <3>1, <3>2, <3>3, <3>4 DEF Commit
  <2>3. QED
    BY <2>1, <2>2
<1>4. DOMAIN subs' \subseteq (DOMAIN positions') \X Nat /\ subs' \in [DOMAIN subs' -> Sub]
  <2>1. SubOf(id, job.level) \in Sub
    BY SubOfOK
  <2>2. \/ BuySub(id, job.level, SubOf(id, job.level), d)
        \/ SellSub(id, job.level, m.sub, d)
        \/ UNCHANGED subs
    BY DEF Commit
  <2> HIDE DEF id, job, d, m
  <2>3. QED
    BY <1>1, <1>2, <1>3, <2>1, <2>2, SubFillOK
<1>5. PICK order : /\ orders' = Put(orders, m.oid, order)
                   /\ order \in Order /\ order.pos = id
  <2> DEFINE o == [pos |-> id, side |-> job.side, independent |-> ind,
                   level |-> IF job.level # 0 THEN job.level
                             ELSE 1 + IF m.pos = NoId \/ d > 0 THEN positions'[id].dca
                                      ELSE m.row.dca,
                   linked |-> ind /\ (d > 0 \/ job.side = "SELL"),
                   status |-> MapStatus(m.ack.status), accounted |-> d]
  <2>1. orders' = Put(orders, m.oid, o)
    BY DEF Commit
  <2>2. positions'[id].dca \in Nat
    <3> HIDE DEF id
    <3>1. positions'[id] \in Position
      BY <1>3
    <3>2. QED
      BY <3>1 DEF Position
  <2>3. MapStatus(m.ack.status) \in OrderStatus
    BY <1>1, MapStatusOK
  <2>4. o \in Order /\ o.pos = id
    <3> HIDE DEF id, m, d, job
    <3>1. QED
      BY <1>2, <1>3, <2>2, <2>3 DEF Order, Independent
  <2> HIDE DEF o
  <2>5. QED
    BY <2>1, <2>4
<1> HIDE DEF id
<1>6. /\ DOMAIN orders' = DOMAIN orders \union {m.oid}
      /\ DOMAIN orders' \subseteq DOMAIN exchange'
      /\ orders' \in [DOMAIN orders' -> Order]
      /\ \A o \in DOMAIN orders' : orders'[o].pos \in DOMAIN positions'
  BY <1>1, <1>3, <1>5 DEF Put, RowsOK, Commit
<1>7. /\ DOMAIN actions' = DOMAIN actions
      /\ actions' \in [DOMAIN actions -> Row]
      /\ \A k \in DOMAIN actions : actions'[k].order \in DOMAIN orders' \union {NoId}
  <2>1. CASE UNCHANGED actions
    BY <1>6, <2>1 DEF RowsOK, ActionsTypeOK
  <2>2. CASE Bind(job.key, m.oid, id, m.ack.status = "FILLED")
    <3>1. job.key \in DOMAIN actions => actions[job.key] \in Row
      BY DEF RowsOK, ActionsTypeOK
    <3>0. PICK filled \in BOOLEAN : filled <=> m.ack.status = "FILLED"
      OBVIOUS
    <3>2. PICK row : row = Bound(actions[job.key], m.oid, id, filled)
      OBVIOUS
    <3>3. actions' = [actions EXCEPT ![job.key] = row]
      BY <2>2, <3>0, <3>2 DEF Bind, Bound
    <3>4. job.key \in DOMAIN actions => row \in Row /\ row.order = m.oid
      <4> HIDE DEF m, job
      <4>1. QED
        BY <1>2, <1>3, <3>1, <3>2 DEF Bound, Row, Status, Unresolved
    <3>5. QED
      BY <1>6, <3>3, <3>4 DEF RowsOK, ActionsTypeOK
  <2>3. QED
    BY <2>1, <2>2 DEF Commit, id
<1>8. RowsOK'
  BY <1>3, <1>4, <1>6, <1>7 DEF RowsOK, ActionsTypeOK, Commit
<1>9. LocalsOK'
  BY <1>3, <1>6, ReturnOK DEF Commit
<1>10. QED
  BY <1>8, <1>9

\* markFailed reads an action and decides, for the step from l to come.
LEMMA VerdictOK ==
    ASSUME RowsOK, LocalsOK, NEW p \in Proc, NEW row, NEW retry, NEW l \in PCs,
           l \notin {"commit", "fetch", "apply", "claim", "create"},
           l = "failWrite" => mem[p].job.type # "NONE",
           mem' = [mem EXCEPT ![p].permanent = Permanent(row, retry)],
           Goto(p, l), UNCHANGED <<rows, exchange>>
    PROVE  RowsOK' /\ LocalsOK'
<1>1. PICK permanent \in BOOLEAN : permanent = Permanent(row, retry)
  BY DEF Permanent
<1>2. PICK v : v = [mem[p] EXCEPT !.permanent = permanent]
  OBVIOUS
<1>3. v \in Memory /\ v.pos = mem[p].pos /\ v.job = mem[p].job
  BY <1>2 DEF LocalsOK, Memory
<1>4. LocalOK(l, v)
  BY <1>3 DEF LocalsOK, LocalOK
<1>5. mem' = [mem EXCEPT ![p] = v]
  BY <1>1, <1>2
<1>6. QED
  BY <1>4, <1>5, LocalStep DEF Goto

\* The catch block reads the claimed action, or rethrows.
LEMMA FailReadOK ==
    ASSUME RowsOK, LocalsOK, NEW p \in Proc, FailRead(p)
    PROVE  RowsOK' /\ LocalsOK'
<1>1. CASE mem[p].job.type = "NONE"
  <2>1. mem[p].retry \in BOOLEAN
    BY DEF LocalsOK, Memory
  <2>2. QED
    BY <1>1, <2>1, RowsKept, ThrowOK DEF FailRead, rows
<1>2. CASE mem[p].job.type # "NONE"
  <2>1. "failWrite" \in PCs
    BY DEF PCs
  <2>2. QED
    BY <1>2, <2>1, VerdictOK DEF FailRead
<1>3. QED
  BY <1>1, <1>2

\* executeMarketOrder.
LEMMA ExecutionOK ==
    ASSUME RowsOK, LocalsOK, NEW p \in Proc, ExecutionStep(p)
    PROVE  RowsOK' /\ LocalsOK'
<1>1. CASE Refuse(p)
  BY <1>1, RowsKept, ThrowOK DEF Refuse, rows
<1>2. CASE Admit(p)
  BY <1>2, AdmitOK
<1>3. CASE Duplicate(p)
  BY <1>3, RowsKept, ReturnOK DEF Duplicate, rows
<1>4. CASE RefuseClaim(p)
  BY <1>4, RowsKept, ThrowOK DEF RefuseClaim, rows
<1>5. CASE PassClaim(p)
  <2>1. LocalOK("create", mem[p]) /\ mem' = [mem EXCEPT ![p] = mem[p]]
    BY <1>5 DEF PassClaim, LocalsOK, LocalOK, PCs
  <2>2. QED
    BY <1>5, <2>1, LocalStep DEF PassClaim, Goto
<1>6. CASE CreateAction(p)
  BY <1>6, CreateActionOK
<1>7. CASE Place(p)
  BY <1>7, PlaceOK
<1>8. CASE PlaceLost(p)
  BY <1>8, AcceptOK, ErrorOK DEF PlaceLost, rows
<1>9. CASE PlaceRefused(p)
  BY <1>9, RowsKept, ErrorOK DEF PlaceRefused, rows
<1>10. CASE Commit(p)
  BY <1>10, CommitOK
<1>11. CASE CommitFails(p)
  BY <1>11, RowsKept, ErrorOK DEF CommitFails, rows
<1>12. CASE FailRead(p)
  BY <1>12, FailReadOK
<1>13. CASE FailClaim(p)
  <2>1. mem[p].retry \in BOOLEAN /\ mem[p].permanent \in BOOLEAN
    BY DEF LocalsOK, Memory
  <2>2. QED
    BY <1>13, <2>1, UpdateOK, ThrowOK DEF FailClaim
<1>14. QED
  BY <1>1, <1>2, <1>3, <1>4, <1>5, <1>6, <1>7, <1>8, <1>9, <1>10, <1>11, <1>12, <1>13
  DEF ExecutionStep

-----------------------------------------------------------------------------
(* Retries *)

\* The order of an action, as a query joins it.
LEMMA OrderOfOK ==
    ASSUME RowsOK, NEW k \in DOMAIN actions
    PROVE  OrderOf(k) \in Order
<1>1. NoOrder \in Order
  BY DEF NoOrder, Order, NoId, Side, OrderStatus, LiveOrder
<1>2. QED
  BY <1>1 DEF OrderOf, RowsOK

\* An activity takes up an action and nothing else.
LEMMA OrigOK ==
    ASSUME RowsOK, LocalsOK, NEW p \in Proc, NEW k \in DOMAIN actions, NEW l \in PCs,
           l \notin {"commit", "fetch", "apply", "claim", "create", "failWrite"},
           NEW order \in Order,
           mem' = [mem EXCEPT ![p].orig = k, ![p].order = order] \/ mem' = [mem EXCEPT ![p].orig = k],
           Goto(p, l), UNCHANGED <<rows, exchange>>
    PROVE  RowsOK' /\ LocalsOK'
<1>1. mem[p] \in Memory /\ k \in Key \union {NoKey}
  BY DEF LocalsOK, RowsOK, ActionsTypeOK
<1>2. PICK v : /\ mem' = [mem EXCEPT ![p] = v]
               /\ v \in Memory /\ v.pos = mem[p].pos /\ v.job = mem[p].job
  <2>1. CASE mem' = [mem EXCEPT ![p].orig = k, ![p].order = order]
    <3> DEFINE v == [mem[p] EXCEPT !.orig = k, !.order = order]
    <3>1. v \in Memory /\ v.pos = mem[p].pos /\ v.job = mem[p].job
      BY <1>1 DEF Memory
    <3>2. mem' = [mem EXCEPT ![p] = v]
      BY <2>1
    <3> HIDE DEF v
    <3>3. QED
      BY <3>1, <3>2
  <2>2. CASE mem' = [mem EXCEPT ![p].orig = k]
    <3> DEFINE v == [mem[p] EXCEPT !.orig = k]
    <3>1. v \in Memory /\ v.pos = mem[p].pos /\ v.job = mem[p].job
      BY <1>1 DEF Memory
    <3>2. mem' = [mem EXCEPT ![p] = v]
      BY <2>2
    <3> HIDE DEF v
    <3>3. QED
      BY <3>1, <3>2
  <2>3. QED
    BY <2>1, <2>2
<1>3. /\ mem[p].job.type = "NONE" <=> mem[p].job.key = NoKey
      /\ mem[p].pos \in DOMAIN positions \union {NoId}
  BY DEF LocalsOK, LocalOK
<1>4. LocalOK(l, v)
  BY <1>2, <1>3 DEF LocalOK
<1>5. QED
  BY <1>2, <1>4, LocalStep DEF Goto

\* A due action is picked up for retrying.
LEMMA RetryPickOK ==
    ASSUME RowsOK, LocalsOK, NEW p \in Proc, RetryPick(p)
    PROVE  RowsOK' /\ LocalsOK'
<1>1. PICK k \in DOMAIN actions :
         mem' = [mem EXCEPT
            ![p].orig = k,
            ![p].order = OrderOf(k),
            ![p].job = [type |-> actions[k].type, qty |-> actions[k].qty,
                        level |-> actions[k].level,
                        side |-> IF actions[k].type \in Entries THEN "BUY" ELSE "SELL",
                        auto |-> TRUE, key |-> RetryKey(k, actions[k].attempts + 1)]]
  BY DEF RetryPick
<1>2. /\ k \in Key /\ actions[k].attempts + 1 \in Nat /\ actions[k].type \in Types
      /\ actions[k].qty \in Nat /\ actions[k].level \in Nat
  <2>1. k \in Key /\ actions[k] \in Row
    BY DEF RowsOK, ActionsTypeOK
  <2>2. actions[k].attempts \in Nat
    BY <2>1 DEF Row
  <2>3. QED
    BY <2>1, <2>2 DEF Row
<1>3. RetryKey(k, actions[k].attempts + 1) \in Key
  <2>1. k.tries \in Seq(Nat)
    BY <1>2 DEF Key
  <2>2. Append(k.tries, actions[k].attempts + 1) \in Seq(Nat)
    BY <1>2, <2>1
  <2>3. QED
    BY <1>2, <2>2 DEF RetryKey, Key
<1>4. PICK order \in Order : order = OrderOf(k)
  BY OrderOfOK
<1>5. PICK job : /\ job = [type |-> actions[k].type, qty |-> actions[k].qty,
                           level |-> actions[k].level,
                           side |-> IF actions[k].type \in Entries THEN "BUY" ELSE "SELL",
                           auto |-> TRUE, key |-> RetryKey(k, actions[k].attempts + 1)]
  OBVIOUS
<1>6. job \in Job /\ job.type # "NONE" /\ job.key # NoKey
  BY <1>2, <1>3, <1>5, NoKeyAssumption DEF Job, Side, Types, Entries, Exits
<1> DEFINE v == [mem[p] EXCEPT !.orig = k, !.order = order, !.job = job]
<1>7. mem' = [mem EXCEPT ![p] = v]
  BY <1>1, <1>4, <1>5
<1>8. v \in Memory /\ v.pos = mem[p].pos /\ v.job = job
  BY <1>2, <1>6 DEF LocalsOK, Memory
<1>9. LocalOK("claimRetry", v)
  BY <1>6, <1>8 DEF LocalsOK, LocalOK, PCs
<1>10. QED
  BY <1>7, <1>9, LocalStep DEF RetryPick, Goto

\* A step that updates one action and returns.
LEMMA UpdateReturnOK ==
    ASSUME RowsOK, LocalsOK, NEW p \in Proc, NEW k, NEW permanent \in BOOLEAN,
           MarkCompleted(k) \/ MarkFailed(k, permanent) \/ Reopen(k) \/ CancelRetry(k),
           UNCHANGED <<strategy, positions, subs, orders, exchange>>, Return(p)
    PROVE  RowsOK' /\ LocalsOK'
BY UpdateOK, ReturnOK

\* The retry scheduler.
LEMMA RetryOK ==
    ASSUME RowsOK, LocalsOK, NEW p \in Proc, RetryStep(p)
    PROVE  RowsOK' /\ LocalsOK'
<1>1. CASE RetryPick(p)
  BY <1>1, RetryPickOK
<1>2. CASE RetryClaim(p)
  <2>1. RowsOK'
    BY <1>2, UpdateOK DEF RetryClaim
  <2>2. PICK l, v : /\ l = IF mem[p].order.status \in LiveOrder THEN "giveUp" ELSE "start"
                    /\ v = mem[p]
    OBVIOUS
  <2>3. pc' = [pc EXCEPT ![p] = l] /\ mem' = [mem EXCEPT ![p] = v]
    BY <1>2, <2>2 DEF RetryClaim, Goto, LocalsOK
  <2>4. LocalOK(l, v)'
    BY <1>2, <2>2 DEF RetryClaim, LocalsOK, LocalOK, PCs
  <2>5. QED
    BY <1>2, <2>1, <2>3, <2>4, MoveStep DEF RetryClaim
<1>3. CASE RetryGone(p)
  BY <1>3, RowsKept, ReturnOK DEF RetryGone, rows
<1>4. CASE GiveUpRead(p)
  <2>1. "giveUpWrite" \in PCs
    BY DEF PCs
  <2>2. QED
    BY <1>4, <2>1, VerdictOK DEF GiveUpRead
<1>5. CASE GiveUp(p)
  <2>1. mem[p].permanent \in BOOLEAN
    BY DEF LocalsOK, Memory
  <2>2. QED
    BY <1>5, <2>1, UpdateReturnOK DEF GiveUp
<1>6. QED
  BY <1>1, <1>2, <1>3, <1>4, <1>5 DEF RetryStep

-----------------------------------------------------------------------------
(* Synchronization *)

\* An order row is read for synchronization.
LEMMA SyncReadOK ==
    ASSUME RowsOK, LocalsOK, NEW p \in Proc, NEW o \in DOMAIN orders, SyncRead(p, o)
    PROVE  RowsOK' /\ LocalsOK'
<1>1. /\ orders[o] \in Order /\ orders[o].pos \in DOMAIN positions /\ o \in Nat
      /\ positions[orders[o].pos] \in Position
  BY DEF RowsOK
<1>2. PICK order, row, sub :
         /\ order = orders[o] /\ row = positions[order.pos]
         /\ sub = IF order.linked THEN SubOf(order.pos, order.level) ELSE NoSub
  OBVIOUS
<1>3. sub \in Sub
  BY <1>2, SubOfOK DEF NoSub, Sub
<1> DEFINE v == [mem[p] EXCEPT !.oid = o, !.order = order, !.row = row, !.sub = sub]
<1>4. mem' = [mem EXCEPT ![p] = v]
  BY <1>2 DEF SyncRead
<1>5. v \in Memory /\ v.pos = mem[p].pos /\ v.job = mem[p].job /\ v.oid = o /\ v.order = order
  <2>1. mem[p] \in Memory
    BY DEF LocalsOK
  <2>2. QED
    BY <1>1, <1>2, <1>3, <2>1 DEF Memory
<1>6. LocalOK("fetch", v)
  <2> HIDE DEF v
  <2>1. QED
    BY <1>1, <1>2, <1>5 DEF LocalsOK, LocalOK, PCs
<1>7. QED
  BY <1>4, <1>6, LocalStep DEF SyncRead, Goto

\* The exchange answers about it.
LEMMA SyncFetchOK ==
    ASSUME RowsOK, LocalsOK, NEW p \in Proc, SyncFetch(p)
    PROVE  RowsOK' /\ LocalsOK'
<1>1. mem[p].oid \in DOMAIN orders /\ mem[p].order.pos \in DOMAIN positions
  BY DEF SyncFetch, LocalsOK, LocalOK
<1>2. PICK ack \in ExchangeOrder : ack = exchange[mem[p].oid]
  BY <1>1 DEF RowsOK
<1> DEFINE v == [mem[p] EXCEPT !.ack = ack]
<1>3. mem' = [mem EXCEPT ![p] = v]
  BY <1>2 DEF SyncFetch
<1>4. v \in Memory /\ v.pos = mem[p].pos /\ v.job = mem[p].job /\ v.oid = mem[p].oid
      /\ v.order = mem[p].order
  BY DEF LocalsOK, Memory
<1>5. LocalOK("apply", v)
  <2> HIDE DEF v
  <2>1. QED
    BY <1>1, <1>4 DEF LocalsOK, LocalOK, PCs
<1>6. QED
  BY <1>3, <1>5, LocalStep DEF SyncFetch, Goto

\* The answer is written.
LEMMA SyncApplyOK ==
    ASSUME RowsOK, LocalsOK, NEW p \in Proc, SyncApply(p)
    PROVE  RowsOK' /\ LocalsOK'
<1> DEFINE m == mem[p]
           order == m.order
           id == order.pos
           d == Delta(order, m.ack)
           sub == IF order.linked THEN m.sub ELSE SubOf(order.pos, order.level)
<1>1. /\ m \in Memory /\ order \in Order /\ m.row \in Position /\ m.sub \in Sub
      /\ m.ack \in ExchangeOrder /\ m.oid \in DOMAIN orders /\ m.oid \in Nat
      /\ id \in DOMAIN positions
  BY DEF SyncApply, LocalsOK, LocalOK, Memory
<1>2. d \in Nat /\ order.level \in Nat /\ order.accounted \in Nat /\ id \in Nat
  <2>1. m.ack.executed \in Nat /\ order.accounted \in Nat /\ order.level \in Nat /\ id \in Nat
    BY <1>1 DEF ExchangeOrder, Order
  <2>2. QED
    BY <2>1, LessOK DEF Delta
<1>3. positions' \in Seq(Position) /\ DOMAIN positions' = DOMAIN positions
  <2>1. CASE UNCHANGED positions
    BY <2>1 DEF RowsOK
  <2>2. CASE BuyParent(id, m.row, d, m.row.dca + IF order.accounted = 0 THEN 1 ELSE 0)
    <3>1. PICK dca \in Nat : dca = m.row.dca + IF order.accounted = 0 THEN 1 ELSE 0
      BY <1>1 DEF Position
    <3>2. QED
      BY <1>1, <1>2, <2>2, <3>1, BuyParentOK
  <2>3. CASE SellParent(id, m.row, d)
    BY <1>1, <1>2, <2>3, SellParentOK
  <2>4. QED
    BY <2>1, <2>2, <2>3 DEF SyncApply
<1>4. DOMAIN subs' \subseteq (DOMAIN positions') \X Nat /\ subs' \in [DOMAIN subs' -> Sub]
  <2>1. sub \in Sub
    BY <1>1, SubOfOK
  <2>2. \/ BuySub(id, order.level, sub, d)
        \/ SellSub(id, order.level, m.sub, d)
        \/ UNCHANGED subs
    BY DEF SyncApply
  <2> HIDE DEF id, order, d, m, sub
  <2>3. QED
    BY <1>1, <1>2, <1>3, <2>1, <2>2, SubFillOK
<1>5. /\ orders' \in [DOMAIN orders -> Order]
      /\ DOMAIN orders' = DOMAIN orders
      /\ \A o \in DOMAIN orders : orders'[o].pos = orders[o].pos
  <2>1. orders[m.oid] \in Order
    BY <1>1 DEF RowsOK
  <2>0. PICK linked \in BOOLEAN : linked = (order.linked \/ (order.independent /\ d > 0))
    OBVIOUS
  <2> DEFINE new == [orders[m.oid] EXCEPT !.status = MapStatus(m.ack.status), !.linked = linked,
                                          !.accounted = order.accounted + d]
  <2>2. orders' = [orders EXCEPT ![m.oid] = new]
    BY <2>0 DEF SyncApply
  <2>3. MapStatus(m.ack.status) \in OrderStatus
    BY <1>1, MapStatusOK
  <2>4. new \in Order /\ new.pos = orders[m.oid].pos
    <3>1. PICK status \in OrderStatus, accounted \in Nat :
             status = MapStatus(m.ack.status) /\ accounted = order.accounted + d
      BY <1>2, <2>3
    <3> HIDE DEF m, order, d
    <3>2. QED
      BY <2>1, <3>1 DEF Order
  <2> HIDE DEF new
  <2>5. QED
    BY <1>1, <2>2, <2>4 DEF RowsOK
<1>6. /\ DOMAIN actions' = DOMAIN actions
      /\ actions' \in [DOMAIN actions -> Row]
      /\ \A k \in DOMAIN actions : actions'[k].order \in DOMAIN orders \union {NoId}
  <2>1. PICK filled \in BOOLEAN : filled <=> m.ack.status = "FILLED"
    OBVIOUS
  <2>2. actions' = [k \in DOMAIN actions |->
                      IF actions[k].order = m.oid THEN Bound(actions[k], m.oid, id, filled)
                      ELSE actions[k]]
    BY <2>1 DEF SyncApply, Bound
  <2>3. ASSUME NEW k \in DOMAIN actions
        PROVE  Bound(actions[k], m.oid, id, filled) \in Row
               /\ Bound(actions[k], m.oid, id, filled).order = m.oid
    <3>1. actions[k] \in Row
      BY DEF RowsOK, ActionsTypeOK
    <3> HIDE DEF m, id
    <3>2. QED
      BY <1>1, <1>2, <3>1 DEF Bound, Row, Status, Unresolved
  <2> HIDE DEF m, id
  <2>4. QED
    BY <1>1, <2>2, <2>3 DEF RowsOK, ActionsTypeOK
<1>7. RowsOK'
  BY <1>3, <1>4, <1>5, <1>6 DEF RowsOK, ActionsTypeOK, SyncApply
<1>8. LocalsOK'
  BY <1>3, <1>5, ReturnOK DEF SyncApply
<1>9. QED
  BY <1>7, <1>8

\* The sync scheduler.
LEMMA SyncOK ==
    ASSUME RowsOK, LocalsOK, NEW p \in Proc, SyncStep(p)
    PROVE  RowsOK' /\ LocalsOK'
<1>1. ASSUME NEW o \in DOMAIN orders, SyncRead(p, o) PROVE RowsOK' /\ LocalsOK'
  BY <1>1, SyncReadOK
<1>2. CASE SyncFetch(p)
  BY <1>2, SyncFetchOK
<1>3. CASE SyncFails(p)
  BY <1>3, RowsKept, ReturnOK DEF SyncFails, rows
<1>4. CASE SyncApply(p)
  BY <1>4, SyncApplyOK
<1>5. ASSUME NEW k \in DOMAIN actions, RecoverRead(p, k) PROVE RowsOK' /\ LocalsOK'
  <2>1. OrderOf(k) \in Order /\ "recover" \in PCs
    BY OrderOfOK DEF PCs
  <2>2. QED
    BY <1>5, <2>1, OrigOK DEF RecoverRead
<1>6. CASE Recover(p)
  <2>1. mem[p].permanent \in BOOLEAN /\ "recoverWrite" \in PCs
    BY DEF LocalsOK, Memory, PCs
  <2>2. CASE RecoverFilled(p)
    BY <2>1, <2>2, UpdateReturnOK DEF RecoverFilled
  <2>3. CASE RecoverEnded(p)
    BY <2>1, <2>3, VerdictOK DEF RecoverEnded
  <2>4. CASE RecoverFail(p)
    BY <2>1, <2>4, UpdateReturnOK DEF RecoverFail
  <2>5. QED
    BY <1>6, <2>2, <2>3, <2>4 DEF Recover
<1>7. QED
  BY <1>1, <1>2, <1>3, <1>4, <1>5, <1>6 DEF SyncStep

-----------------------------------------------------------------------------
(* The owner *)

\* An order request of the owner.
LEMMA RequestJobOK ==
    ASSUME RowsOK, LocalsOK, NEW p \in Proc, NEW job \in Job, Request(p, job),
           job.type = "NONE" <=> job.key = NoKey
    PROVE  RowsOK' /\ LocalsOK'
<1> DEFINE v == [mem[p] EXCEPT !.job = job]
<1>1. mem' = [mem EXCEPT ![p] = v]
  BY DEF Request
<1>2. v \in Memory /\ v.pos = mem[p].pos /\ v.job = job
  BY DEF LocalsOK, Memory
<1>3. LocalOK("start", v)
  <2> HIDE DEF v
  <2>1. QED
    BY <1>2 DEF LocalsOK, LocalOK, PCs
<1>4. QED
  BY <1>1, <1>3, LocalStep DEF Request, Goto

\* An order without an action key.
LEMMA RequestOrderOK ==
    ASSUME RowsOK, LocalsOK, NEW p \in Proc, RequestOrder(p)
    PROVE  RowsOK' /\ LocalsOK'
<1>1. PICK side \in Side : Request(p, [NoJob EXCEPT !.side = side, !.qty = Lots])
  BY DEF RequestOrder
<1> DEFINE job == [NoJob EXCEPT !.side = side, !.qty = Lots]
<1>2. job \in Job /\ job.type = "NONE" /\ job.key = NoKey
  BY BoundsAssumption DEF NoJob, Job
<1> HIDE DEF job
<1>3. QED
  BY <1>1, <1>2, RequestJobOK DEF job

\* A position or sub-position is closed by hand.
LEMMA RequestCloseOK ==
    ASSUME RowsOK, LocalsOK, NEW p \in Proc, RequestClose(p)
    PROVE  RowsOK' /\ LocalsOK'
<1> DEFINE ByHand(job, tag) == [job EXCEPT !.auto = FALSE, !.level = 0, !.key.by = "manual",
                                           !.key.tag = tag]
<1>1. PICK id \in DOMAIN positions :
         \/ Request(p, ByHand(ParentExit(id), positions[id].version))
         \/ \E job \in IndependentExits(id) :
               Request(p, [job EXCEPT !.auto = FALSE, !.key.by = "manual"])
  BY DEF RequestClose
<1>2. id \in Nat /\ positions[id].qty \in Nat /\ positions[id].dca + 1 \in Nat
      /\ positions[id].version \in Nat
  <2>1. id \in Nat /\ positions[id] \in Position
    BY DEF RowsOK
  <2>2. positions[id].dca \in Nat /\ positions[id].qty \in Nat /\ positions[id].version \in Nat
    BY <2>1 DEF Position
  <2>3. QED
    BY <2>1, <2>2
<1>3. "PARENT_EXIT" \in Types /\ "INDEPENDENT_EXIT" \in Types /\ "SELL" \in Side /\ 0 \in Nat
  BY DEF Types, Exits, Side
<1>4. CASE Request(p, ByHand(ParentExit(id), positions[id].version))
  <2> DEFINE job == ByHand(ParentExit(id), positions[id].version)
  <2>1. PICK j : j = ParentExit(id)
    OBVIOUS
  <2>2. j \in Job /\ j.type \in Types /\ j.type # "NONE" /\ j.key \in Key
    BY <1>2, <1>3, <2>1, AutoJobOK, Zenon DEF ParentExit
  <2>3. job \in Job /\ job.type = j.type /\ job.key \in Key
    BY <1>2, <2>1, <2>2 DEF Job, Key
  <2> HIDE DEF job
  <2>4. QED
    BY <1>4, <2>2, <2>3, RequestJobOK, NoKeyAssumption DEF job
<1>5. CASE \E job \in IndependentExits(id) :
              Request(p, [job EXCEPT !.auto = FALSE, !.key.by = "manual"])
  <2>1. PICK j \in IndependentExits(id) :
           Request(p, [j EXCEPT !.auto = FALSE, !.key.by = "manual"])
    BY <1>5
  <2>2. PICK s \in DOMAIN subs :
           j = AutoJob("INDEPENDENT_EXIT", "SELL", id, s[2], subs[s].qty, s[2])
    BY <2>1 DEF IndependentExits
  <2>3. s[2] \in Nat /\ subs[s].qty \in Nat
    BY DEF RowsOK, Sub
  <2>4. j \in Job /\ j.type \in Types /\ j.type # "NONE" /\ j.key \in Key
    BY <1>2, <1>3, <2>2, <2>3, AutoJobOK, Zenon
  <2> DEFINE job == [j EXCEPT !.auto = FALSE, !.key.by = "manual"]
  <2>5. job \in Job /\ job.type = j.type /\ job.key \in Key
    BY <2>4 DEF Job, Key
  <2> HIDE DEF job
  <2>6. QED
    BY <2>1, <2>4, <2>5, RequestJobOK, NoKeyAssumption DEF job
<1>6. QED
  BY <1>1, <1>4, <1>5

\* The requests of the owner.
LEMMA RequestOK ==
    ASSUME RowsOK, LocalsOK, NEW p \in Proc, RequestStep(p)
    PROVE  RowsOK' /\ LocalsOK'
<1>1. CASE RequestOrder(p)
  BY <1>1, RequestOrderOK
<1>2. CASE RequestClose(p)
  BY <1>2, RequestCloseOK
<1>3. CASE RequestRetry(p)
  <2>1. "retryWrite" \in PCs
    BY DEF PCs
  <2>2. PICK k \in DOMAIN actions : mem' = [mem EXCEPT ![p].orig = k]
    BY <1>3 DEF RequestRetry
  <2>3. OrderOf(k) \in Order
    BY OrderOfOK
  <2>4. QED
    BY <1>3, <2>1, <2>2, <2>3, OrigOK DEF RequestRetry
<1>4. CASE ManualRetry(p)
  BY <1>4, UpdateReturnOK DEF ManualRetry
<1>5. CASE RequestCancel(p)
  <2>1. "cancelWrite" \in PCs
    BY DEF PCs
  <2>2. PICK k \in DOMAIN actions : mem' = [mem EXCEPT ![p].orig = k]
    BY <1>5 DEF RequestCancel
  <2>3. OrderOf(k) \in Order
    BY OrderOfOK
  <2>4. QED
    BY <1>5, <2>1, <2>2, <2>3, OrigOK DEF RequestCancel
<1>6. CASE ManualCancel(p)
  BY <1>6, UpdateReturnOK DEF ManualCancel
<1>7. QED
  BY <1>1, <1>2, <1>3, <1>4, <1>5, <1>6 DEF RequestStep

-----------------------------------------------------------------------------
(* The emergency stop *)

\* The stop's lists of orders change, and nothing else of the activity.
LEMMA ListsOK ==
    ASSUME RowsOK', LocalsOK, NEW p \in Proc, NEW todo \in SUBSET Nat, NEW acks \in SUBSET Nat,
           mem' = [mem EXCEPT ![p].todo = todo, ![p].acks = acks],
           Goto(p, "stopping"),
           DOMAIN positions \subseteq DOMAIN positions',
           DOMAIN orders \subseteq DOMAIN orders',
           DOMAIN exchange \subseteq DOMAIN exchange'
    PROVE  LocalsOK'
<1>1. PICK v : v = [mem[p] EXCEPT !.todo = todo, !.acks = acks]
  OBVIOUS
<1>2. v \in Memory /\ v.pos = mem[p].pos /\ v.job = mem[p].job
  BY <1>1 DEF LocalsOK, Memory
<1>3. LocalOK("stopping", v)'
  BY <1>2 DEF LocalsOK, LocalOK, PCs
<1>4. QED
  BY <1>1, <1>3, MoveStep DEF Goto

\* The emergency stop cancels the open actions.
LEMMA StopRowsOK ==
    ASSUME RowsOK, LocalsOK, NEW p \in Proc, StopRows(p)
    PROVE  RowsOK' /\ LocalsOK'
<1>1. /\ DOMAIN actions' = DOMAIN actions
      /\ \A k \in DOMAIN actions : actions'[k] \in Row /\ actions'[k].order = actions[k].order
  <2>1. \A k \in DOMAIN actions : actions[k] \in Row
    BY DEF RowsOK, ActionsTypeOK
  <2>2. QED
    BY <2>1, EffectsOK DEF StopRows, CancelAll
<1>2. actions' \in [DOMAIN actions' -> Row]
  BY <1>1 DEF StopRows, CancelAll
<1>3. RowsOK'
  BY <1>1, <1>2 DEF StopRows, RowsOK, ActionsTypeOK
<1>4. PICK v : v = mem[p]
  OBVIOUS
<1>5. LocalOK("stopList", v)' /\ mem' = [mem EXCEPT ![p] = v]
  BY <1>4 DEF StopRows, LocalsOK, LocalOK, PCs
<1>6. QED
  BY <1>3, <1>5, MoveStep DEF StopRows, Goto

\* An order is cancelled on the exchange, or is not.
LEMMA ExchangeStatusOK ==
    ASSUME RowsOK, NEW o,
           exchange' = [exchange EXCEPT ![o].status = "CANCELED"] \/ UNCHANGED exchange
    PROVE  exchange' \in Seq(ExchangeOrder) /\ DOMAIN exchange' = DOMAIN exchange
<1>1. CASE UNCHANGED exchange
  BY <1>1 DEF RowsOK
<1>2. CASE exchange' = [exchange EXCEPT ![o].status = "CANCELED"]
  <2> DEFINE r == [exchange[o] EXCEPT !.status = "CANCELED"]
  <2>1. exchange' = [exchange EXCEPT ![o] = r]
    BY <1>2
  <2>2. o \in DOMAIN exchange => r \in ExchangeOrder
    <3>1. o \in DOMAIN exchange => exchange[o] \in ExchangeOrder
      BY DEF RowsOK
    <3>2. QED
      BY <3>1 DEF ExchangeOrder
  <2> HIDE DEF r
  <2>3. CASE o \in DOMAIN exchange
    BY <2>1, <2>2, <2>3 DEF RowsOK
  <2>4. CASE o \notin DOMAIN exchange
    <3>1. exchange' = exchange
      BY <2>1, <2>4 DEF RowsOK
    <3>2. QED
      BY <3>1 DEF RowsOK
  <2>5. QED
    BY <2>3, <2>4
<1>3. QED
  BY <1>1, <1>2

\* The emergency stop.
LEMMA StopOK ==
    ASSUME RowsOK, LocalsOK, NEW p \in Proc, StopStep(p)
    PROVE  RowsOK' /\ LocalsOK'
<1>1. mem[p] \in Memory /\ mem[p].todo \in SUBSET Nat /\ mem[p].acks \in SUBSET Nat
  BY DEF LocalsOK, Memory
<1>2. CASE StopRows(p)
  BY <1>2, StopRowsOK
<1>3. CASE StopList(p)
  <2>1. UnresolvedOrders \in SUBSET Nat
    BY DEF UnresolvedOrders, RowsOK
  <2>2. mem' = [mem EXCEPT ![p].todo = UnresolvedOrders, ![p].acks = mem[p].acks]
    BY <1>1, <1>3 DEF StopList, LocalsOK, Memory
  <2>3. QED
    BY <1>1, <1>3, <2>1, <2>2, ListsOK, RowsKept DEF StopList, rows
<1>4. CASE StopCancel(p)
  <2>1. PICK o \in mem[p].todo, answered \in BOOLEAN :
           /\ exchange' = [exchange EXCEPT ![o].status = "CANCELED"] \/ UNCHANGED exchange
           /\ mem' = [mem EXCEPT ![p].todo = @ \ {o},
                                 ![p].acks = IF answered THEN @ \union {o} ELSE @]
    BY <1>4 DEF StopCancel
  <2>2. exchange' \in Seq(ExchangeOrder) /\ DOMAIN exchange' = DOMAIN exchange
    BY <2>1, ExchangeStatusOK
  <2>3. RowsOK'
    BY <1>4, <2>2 DEF StopCancel, rows, RowsOK, ActionsTypeOK
  <2>4. PICK todo, acks : /\ todo = mem[p].todo \ {o}
                          /\ acks = IF answered THEN mem[p].acks \union {o} ELSE mem[p].acks
    OBVIOUS
  <2>5. todo \in SUBSET Nat /\ acks \in SUBSET Nat
    BY <1>1, <2>4
  <2>6. mem' = [mem EXCEPT ![p].todo = todo, ![p].acks = acks]
    BY <2>1, <2>4
  <2>7. Goto(p, "stopping")
    BY <1>4 DEF StopCancel, Goto, LocalsOK
  <2>8. QED
    BY <1>4, <2>2, <2>3, <2>5, <2>6, <2>7, ListsOK DEF StopCancel, rows
<1>5. CASE StopWrite(p)
  <2>1. PICK o \in mem[p].acks :
           /\ \/ UNCHANGED orders
              \/ /\ exchange[o].status \in {"CANCELED", "FILLED"}
                 /\ orders' = [orders EXCEPT ![o].status = MapStatus(exchange[o].status)]
           /\ mem' = [mem EXCEPT ![p].acks = @ \ {o}]
    BY <1>5 DEF StopWrite
  <2>2. /\ orders' \in [DOMAIN orders -> Order] /\ DOMAIN orders' = DOMAIN orders
        /\ \A x \in DOMAIN orders : orders'[x].pos = orders[x].pos
    <3>1. CASE UNCHANGED orders
      BY <3>1 DEF RowsOK
    <3>2. CASE /\ exchange[o].status \in {"CANCELED", "FILLED"}
               /\ orders' = [orders EXCEPT ![o].status = MapStatus(exchange[o].status)]
      <4>1. PICK status \in OrderStatus : status = MapStatus(exchange[o].status)
        BY <3>2 DEF MapStatus, OrderStatus
      <4>2. QED
        BY <3>2, <4>1 DEF RowsOK, Order
    <3>3. QED
      BY <2>1, <3>1, <3>2
  <2>3. RowsOK'
    BY <1>5, <2>2 DEF StopWrite, RowsOK, ActionsTypeOK
  <2>4. PICK todo, acks : todo = mem[p].todo /\ acks = mem[p].acks \ {o}
    OBVIOUS
  <2>5. todo \in SUBSET Nat /\ acks \in SUBSET Nat
    BY <1>1, <2>4
  <2>6. mem' = [mem EXCEPT ![p].todo = todo, ![p].acks = acks]
    BY <1>1, <2>1, <2>4 DEF LocalsOK, Memory
  <2>7. Goto(p, "stopping")
    BY <1>5 DEF StopWrite, Goto, LocalsOK
  <2>8. QED
    BY <1>5, <2>2, <2>3, <2>5, <2>6, <2>7, ListsOK DEF StopWrite
<1>6. CASE StopDone(p)
  BY <1>6, RowsKept, ReturnOK DEF StopDone, rows
<1>7. QED
  BY <1>2, <1>3, <1>4, <1>5, <1>6 DEF StopStep

-----------------------------------------------------------------------------
(* The environment *)

\* The exchange, and changes of the strategy's status.
LEMMA EnvironmentOK ==
    ASSUME RowsOK, LocalsOK, UNCHANGED <<pc, mem>>,
           \/ SetStatus
           \/ \E o \in DOMAIN exchange : ExchangeFills(o) \/ ExchangeEnds(o)
    PROVE  RowsOK' /\ LocalsOK'
<1>1. CASE SetStatus
  BY <1>1 DEF SetStatus, RowsOK, ActionsTypeOK, LocalsOK, LocalOK
<1>2. CASE \E o \in DOMAIN exchange : ExchangeFills(o) \/ ExchangeEnds(o)
  <2>1. PICK o \in DOMAIN exchange : ExchangeFills(o) \/ ExchangeEnds(o)
    BY <1>2
  <2>2. PICK r : exchange' = [exchange EXCEPT ![o] = r] /\ r \in ExchangeOrder
    <3>1. exchange[o] \in ExchangeOrder
      BY DEF RowsOK
    <3>2. CASE ExchangeFills(o)
      <4>1. PICK e \in exchange[o].executed + 1 .. exchange[o].qty :
               exchange' = [exchange EXCEPT
                  ![o].executed = e,
                  ![o].status = IF e = exchange[o].qty THEN "FILLED" ELSE "PARTIALLY_FILLED"]
        BY <3>2 DEF ExchangeFills
      <4>2. e \in Nat
        BY <3>1 DEF ExchangeOrder
      <4> DEFINE r == [exchange[o] EXCEPT
                  !.executed = e,
                  !.status = IF e = exchange[o].qty THEN "FILLED" ELSE "PARTIALLY_FILLED"]
      <4>3. r \in ExchangeOrder
        BY <3>1, <4>2 DEF ExchangeOrder, Working
      <4>4. exchange' = [exchange EXCEPT ![o] = r]
        BY <4>1
      <4> HIDE DEF r
      <4>5. QED
        BY <4>3, <4>4
    <3>3. CASE ExchangeEnds(o)
      <4>1. PICK s \in EndStatuses : exchange' = [exchange EXCEPT ![o].status = s]
        BY <3>3 DEF ExchangeEnds
      <4> DEFINE r == [exchange[o] EXCEPT !.status = s]
      <4>2. r \in ExchangeOrder
        BY <3>1, <4>1, BoundsAssumption DEF ExchangeOrder
      <4>3. exchange' = [exchange EXCEPT ![o] = r]
        BY <4>1
      <4> HIDE DEF r
      <4>4. QED
        BY <4>2, <4>3
    <3>4. QED
      BY <2>1, <3>2, <3>3
  <2>3. exchange' \in Seq(ExchangeOrder) /\ DOMAIN exchange' = DOMAIN exchange
    BY <2>2 DEF RowsOK
  <2>4. UNCHANGED rows
    BY <2>1 DEF ExchangeFills, ExchangeEnds
  <2>5. QED
    BY <2>3, <2>4 DEF rows, RowsOK, ActionsTypeOK, LocalsOK, LocalOK
<1>3. QED
  BY <1>1, <1>2

-----------------------------------------------------------------------------
(* The invariant *)

\* The inductive invariant.
Linked == RowsOK /\ LocalsOK

\* Every step keeps it.
LEMMA NextOK == Linked /\ [Next]_vars => Linked'
<1> SUFFICES ASSUME RowsOK, LocalsOK, [Next]_vars PROVE RowsOK' /\ LocalsOK'
  BY DEF Linked
<1>1. ASSUME NEW p \in Proc, TickStep(p) PROVE RowsOK' /\ LocalsOK'
  BY <1>1, TickOK
<1>2. ASSUME NEW p \in Proc, ExecutionStep(p) PROVE RowsOK' /\ LocalsOK'
  BY <1>2, ExecutionOK
<1>3. ASSUME NEW p \in Proc, RetryStep(p) PROVE RowsOK' /\ LocalsOK'
  BY <1>3, RetryOK
<1>4. ASSUME NEW p \in Proc, SyncStep(p) PROVE RowsOK' /\ LocalsOK'
  BY <1>4, SyncOK
<1>5. ASSUME NEW p \in Proc, RequestStep(p) PROVE RowsOK' /\ LocalsOK'
  BY <1>5, RequestOK
<1>6. ASSUME NEW p \in Proc, StopStep(p) PROVE RowsOK' /\ LocalsOK'
  BY <1>6, StopOK
<1>7. ASSUME NEW p \in Proc, Crash(p) PROVE RowsOK' /\ LocalsOK'
  BY <1>7, RowsKept, ReturnOK DEF Crash, rows
<1>8. CASE SetStatus
  BY <1>8, EnvironmentOK DEF SetStatus
<1>9. CASE \E o \in DOMAIN exchange : ExchangeFills(o) \/ ExchangeEnds(o)
  BY <1>9, EnvironmentOK DEF ExchangeFills, ExchangeEnds
<1>10. CASE UNCHANGED vars
  BY <1>10 DEF vars, RowsOK, ActionsTypeOK, LocalsOK, LocalOK
<1>11. QED
  BY <1>1, <1>2, <1>3, <1>4, <1>5, <1>6, <1>7, <1>8, <1>9, <1>10 DEF Next

\* Every reference of a row or of an activity's locals leads to an existing row.
THEOREM Linking == Spec => []Linked
<1>1. Init => Linked
  BY InitOK DEF Linked
<1>2. QED
  BY <1>1, NextOK, PTL DEF Spec

\* The type invariant.
THEOREM Typing == Spec => []TypeOK
<1>1. Linked => TypeOK
  BY DEF Linked, RowsOK, LocalsOK, TypeOK
<1>2. QED
  BY <1>1, Linking, PTL
=============================================================================
