------------------------------ MODULE PaperProofs ------------------------------
(***************************************************************************)
(* What holds of the paper trading for any ticks, requests and parameters. *)
(* One position is open, except for those the owner opened by hand:        *)
(* openPosition checks and creates in two steps, but the ticks of a        *)
(* process exclude each other.  No position costs more than the largest    *)
(* budget; a level is bought as a sub-position once; and the books of a    *)
(* position that only the runner has traded agree with its trades,         *)
(* although its totals are assigned from what was read.                    *)
(***************************************************************************)
EXTENDS PaperTrading, FiniteSetTheorems, WellFoundedInduction, TLAPS

\* A tick that is past the look at runningStrategies.
Working(p) == p \in Ticks /\ at[p] \notin {"idle", "tick"}

Exclusive ==
    /\ at \in [Proc -> Places] /\ running \in BOOLEAN
    /\ \A p \in Proc : Working(p) => running
    /\ \A p, q \in Proc : Working(p) /\ Working(q) => p = q
    /\ \A p \in Users : at[p] \notin {"tick", "quote"}

\* What a row's columns hold is of no account, but that it is a row.
Row(V) == [status : {"OPEN", "CLOSED", "DELETED"}, qty : V, cost : V, dca : V, next : V, tp : V]
RowsStand == \E V : positions \in Seq(Row(V))

AllByHand == \A i \in OpenPositions : OpenedByHand(i)
PaperInv ==
    /\ Exclusive
    /\ RowsStand
    /\ \A p \in Ticks : at[p] = "create" => AllByHand
    /\ OnePaperPosition

-----------------------------------------------------------------------------
(* What the steps have in common *)

\* A position that was opened by hand stays one: trades are only added.
LEMMA HandStays ==
    ASSUME DOMAIN trades \subseteq DOMAIN trades', NEW i, OpenedByHand(i)
    PROVE  OpenedByHand(i)'
BY DEF OpenedByHand, Of, BagToSet

\* A step that opens no position keeps what is said of the open ones.
LEMMA NothingOpened ==
    ASSUME OpenPositions' \subseteq OpenPositions,
           OpenPositions' = {} \/ DOMAIN trades \subseteq DOMAIN trades'
    PROVE  /\ OnePaperPosition => OnePaperPosition'
           /\ AllByHand => AllByHand'
<1>1. CASE OpenPositions' = {}
  BY <1>1 DEF OnePaperPosition, AllByHand
<1>2. CASE DOMAIN trades \subseteq DOMAIN trades'
  BY <1>2, HandStays DEF OnePaperPosition, AllByHand
<1> QED BY <1>1, <1>2

\* A step of one process, which goes on to a place; the set of running
\* strategies is entered by a tick that found it empty and left by one that ends.
LEMMA OneMoves ==
    ASSUME Exclusive, NEW p \in Proc, NEW place \in Places, at' = [at EXCEPT ![p] = place],
           p \in Users => place \notin {"tick", "quote"},
           \/ running' = running /\ (p \in Users \/ Working(p) \/ place \in {"idle", "tick"})
           \/ running' = TRUE /\ ~running /\ p \in Ticks
           \/ running' = FALSE /\ Working(p) /\ place = "idle"
    PROVE  Exclusive'
BY ProcAssumption DEF Exclusive, Working, Proc

\* A process that finishes.
LEMMA Finishing ==
    ASSUME Exclusive, NEW p \in Proc, p \in Users \/ Working(p), Finish(p)
    PROVE  Exclusive' /\ at' = [at EXCEPT ![p] = "idle"]
<1>1. at' = [at EXCEPT ![p] = "idle"] /\ running' = IF p \in Ticks THEN FALSE ELSE running
  BY DEF Finish, Goto
<1>2. Exclusive'
  <2>1. CASE p \in Ticks
    <3>1. running' = FALSE /\ Working(p)
      BY <1>1, <2>1, ProcAssumption
    <3> QED BY <1>1, <3>1, OneMoves DEF Places
  <2>2. CASE p \notin Ticks
    <3>1. running' = running /\ p \in Users
      BY <1>1, <2>2 DEF Working
    <3> QED BY <1>1, <3>1, OneMoves DEF Places
  <2> QED BY <2>1, <2>2
<1> QED BY <1>1, <1>2

\* A step of one process that does not end at "create" and opens no position.
LEMMA OrdinaryStep ==
    ASSUME PaperInv, Exclusive', NEW p \in Proc, NEW place \in Places \ {"create"},
           at' = [at EXCEPT ![p] = place],
           RowsStand',
           OpenPositions' \subseteq OpenPositions,
           OpenPositions' = {} \/ DOMAIN trades \subseteq DOMAIN trades'
    PROVE  PaperInv'
<1>1. OnePaperPosition'
  BY NothingOpened DEF PaperInv
<1>2. ASSUME NEW q \in Ticks, at'[q] = "create" PROVE AllByHand'
  <2>1. at[q] = "create"
    BY <1>2 DEF PaperInv, Exclusive, Proc
  <2> QED BY <2>1, NothingOpened DEF PaperInv
<1> QED BY <1>1, <1>2 DEF PaperInv

\* A step of one process that touches neither positions nor trades.
LEMMA QuietStep ==
    ASSUME PaperInv, Exclusive', NEW p \in Proc, NEW place \in Places \ {"create"},
           at' = [at EXCEPT ![p] = place], UNCHANGED <<positions, trades>>
    PROVE  PaperInv'
<1>1. OpenPositions' = OpenPositions
  BY DEF OpenPositions
<1>2. RowsStand'
  BY DEF PaperInv, RowsStand
<1> QED BY <1>1, <1>2, OrdinaryStep

\* A request or a tick that ends in an error.
LEMMA FailKeeps ==
    ASSUME PaperInv, NEW p \in Proc, p \in Users \/ Working(p), Fails(p)
    PROVE  PaperInv'
<1>1. Exclusive' /\ at' = [at EXCEPT ![p] = "idle"]
  BY Finishing DEF Fails, PaperInv
<1>2. UNCHANGED <<positions, trades>>
  BY DEF Fails, rows
<1> QED BY <1>1, <1>2, QuietStep DEF Places

\* A row whose columns are among some values is one whose columns are among more.
LEMMA RowsGrow ==
    ASSUME NEW V, NEW W, V \subseteq W
    PROVE  /\ Row(V) \subseteq Row(W)
           /\ \A s \in Seq(Row(V)) : s \in Seq(Row(W))
<1>1. Row(V) \subseteq Row(W)
  BY DEF Row
<1>2. ASSUME NEW s \in Seq(Row(V)) PROVE s \in Seq(Row(W))
  <2>1. \A i \in 1..Len(s) : s[i] \in Row(W)
    BY <1>1
  <2> QED BY <2>1
<1> QED BY <1>1, <1>2

\* Assigning one position's columns, without opening it, opens nothing.
LEMMA Assigned ==
    ASSUME NEW V, positions \in Seq(Row(V)), NEW id, NEW W, V \subseteq W, NEW row,
           positions' = [positions EXCEPT ![id] = row],
           id \in DOMAIN positions =>
              row \in Row(W) /\ (row.status = "OPEN" => positions[id].status = "OPEN")
    PROVE  RowsStand' /\ OpenPositions' \subseteq OpenPositions
<1>1. positions \in Seq(Row(W))
  BY RowsGrow
<1>2. positions' \in Seq(Row(W))
  <2>1. CASE id \in DOMAIN positions
    BY <1>1, <2>1
  <2>2. CASE id \notin DOMAIN positions
    <3>1. positions = [i \in 1..Len(positions) |-> positions[i]]
      BY <1>1
    <3>2. positions' = positions
      BY <2>2, <3>1
    <3> QED BY <1>1, <3>2
  <2> QED BY <2>1, <2>2
<1>3. OpenPositions' \subseteq OpenPositions
  BY DEF OpenPositions
<1> QED BY <1>2, <1>3 DEF RowsStand

\* What the sale of sub-positions, a purchase and a close write into a row.
Assigns(row, e, q, c, d, n, t) ==
    \/ row = [e EXCEPT !.qty = q, !.cost = c, !.tp = t]
    \/ row = [e EXCEPT !.qty = q, !.cost = c, !.dca = d, !.next = n, !.tp = t]
    \/ row = [e EXCEPT !.status = "CLOSED", !.next = n, !.tp = t]

\* A row of which some columns are assigned is a row; assigning opens nothing.
LEMMA RowWritten ==
    ASSUME NEW V, NEW e \in Row(V), NEW q, NEW c, NEW d, NEW n, NEW t, NEW row,
           Assigns(row, e, q, c, d, n, t)
    PROVE  /\ \E W : V \subseteq W /\ row \in Row(W)
           /\ row.status = "OPEN" => e.status = "OPEN"
<1> DEFINE W == V \union {q, c, d, n, t}
<1>1. e \in Row(W)
  BY DEF Row
<1>2. q \in W /\ c \in W /\ d \in W /\ n \in W /\ t \in W /\ V \subseteq W
  OBVIOUS
<1> HIDE DEF W
<1>3. row \in Row(W) /\ (row.status = "OPEN" => e.status = "OPEN")
  <2>1. CASE row = [e EXCEPT !.qty = q, !.cost = c, !.tp = t]
    BY <1>1, <1>2, <2>1 DEF Row
  <2>2. CASE row = [e EXCEPT !.qty = q, !.cost = c, !.dca = d, !.next = n, !.tp = t]
    BY <1>1, <1>2, <2>2 DEF Row
  <2>3. CASE row = [e EXCEPT !.status = "CLOSED", !.next = n, !.tp = t]
    BY <1>1, <1>2, <2>3 DEF Row
  <2> QED BY <2>1, <2>2, <2>3 DEF Assigns
<1> QED BY <1>2, <1>3, Zenon

\* A position of which some columns are assigned stays as it is, but for them.
LEMMA RowAssigned ==
    ASSUME RowsStand, NEW id, NEW row, positions' = [positions EXCEPT ![id] = row],
           NEW e, e = positions[id], NEW q, NEW c, NEW d, NEW n, NEW t,
           Assigns(row, e, q, c, d, n, t)
    PROVE  RowsStand' /\ OpenPositions' \subseteq OpenPositions
<1>1. PICK V : positions \in Seq(Row(V))
  BY DEF RowsStand
<1>2. CASE id \in DOMAIN positions
  <2>1. e \in Row(V)
    BY <1>1, <1>2
  <2>2. /\ \E W : V \subseteq W /\ row \in Row(W)
        /\ row.status = "OPEN" => e.status = "OPEN"
    BY <2>1, RowWritten
  <2>3. PICK W : V \subseteq W /\ row \in Row(W)
    BY <2>2
  <2> QED BY <1>1, <2>2, <2>3, Assigned
<1>3. CASE id \notin DOMAIN positions
  BY <1>1, <1>3, Assigned
<1> QED BY <1>2, <1>3

\* Nothing is taken out of a bag by adding to it.
LEMMA BagsGrow ==
    ASSUME NEW B, NEW x, NEW C
    PROVE  /\ DOMAIN (B (+) SetToBag({x})) = DOMAIN B \union {x}
           /\ DOMAIN B \subseteq DOMAIN (B (+) C)
BY DEF SetToBag, (+)

-----------------------------------------------------------------------------
(* The runner's tick and the owner's requests *)

\* A tick reads, starts, is skipped or gets its quote.
LEMMA TickKeeps ==
    ASSUME PaperInv, NEW p \in Proc, TickStep(p)
    PROVE  PaperInv'
<1>0. Exclusive
  BY DEF PaperInv
<1>1. CASE TickRead(p)
  <2>1. at' = [at EXCEPT ![p] = "tick"] /\ UNCHANGED <<positions, trades, running>> /\ p \in Ticks
    BY <1>1 DEF TickRead, Goto, rows
  <2>2. Exclusive'
    BY <1>0, <2>1, OneMoves, ProcAssumption DEF Places
  <2> QED BY <2>1, <2>2, QuietStep DEF Places
<1>2. CASE TickSkip(p)
  <2>1. at' = [at EXCEPT ![p] = "idle"] /\ UNCHANGED <<positions, trades, running>>
    BY <1>2 DEF TickSkip, Goto, rows
  <2>2. Exclusive'
    BY <1>0, <2>1, OneMoves DEF Places
  <2> QED BY <2>1, <2>2, QuietStep DEF Places
<1>3. CASE TickStart(p)
  <2>1. at' = [at EXCEPT ![p] = "quote"] /\ running' = TRUE /\ ~running
        /\ UNCHANGED <<positions, trades>> /\ p \in Ticks
    BY <1>0, <1>3 DEF TickStart, Goto, rows, Exclusive, Proc
  <2>2. Exclusive'
    BY <1>0, <2>1, OneMoves, ProcAssumption DEF Places
  <2> QED BY <2>1, <2>2, QuietStep DEF Places
<1>4. CASE TickQuote(p)
  <2>1. p \in Ticks /\ Working(p)
    BY <1>0, <1>4 DEF TickQuote, Exclusive, Working, Proc
  <2>2. CASE Fails(p)
    BY <2>1, <2>2, FailKeeps
  <2>3. CASE ~Fails(p)
    <3>1. PICK place \in {"open", "load"} : at' = [at EXCEPT ![p] = place]
      BY <1>4, <2>3 DEF TickQuote, Goto
    <3>2. UNCHANGED <<positions, trades, running>>
      BY <1>4, <2>3 DEF TickQuote, rows
    <3>3. Exclusive'
      BY <1>0, <2>1, <3>1, <3>2, OneMoves, ProcAssumption DEF Places
    <3> QED BY <3>1, <3>2, <3>3, QuietStep DEF Places
  <2> QED BY <2>2, <2>3
<1> QED BY <1>1, <1>2, <1>3, <1>4 DEF TickStep

\* The owner asks for something of the paper trading.
LEMMA RequestKeeps ==
    ASSUME PaperInv, NEW p \in Proc, NEW job \in Requests, Request(p, job)
    PROVE  PaperInv'
<1>1. p \in Users /\ UNCHANGED <<positions, trades, running>>
  BY DEF Request, Asks, rows
<1>2. PICK place \in {"open", "load"} : at' = [at EXCEPT ![p] = place]
  BY DEF Request, Goto
<1>3. Exclusive'
  BY <1>1, <1>2, OneMoves DEF Places, PaperInv
<1> QED BY <1>1, <1>2, <1>3, QuietStep DEF Places

-----------------------------------------------------------------------------
(* Opening a position *)

\* The check goes through only if no position is open, which is what is known
\* when it is created.
LEMMA CheckKeeps ==
    ASSUME PaperInv, NEW p \in Proc, OpenCheck(p)
    PROVE  PaperInv'
<1>1. /\ at[p] = "open" /\ OpenPositions = {} /\ UNCHANGED <<positions, trades, running>>
      /\ at' = [at EXCEPT ![p] = "create"]
  BY DEF OpenCheck, Goto, rows
<1>2. p \in Users \/ Working(p)
  BY <1>1 DEF Working, Proc
<1>3. Exclusive'
  BY <1>1, <1>2, OneMoves DEF Places, PaperInv
<1>4. OpenPositions' = {}
  BY <1>1 DEF OpenPositions
<1>5. RowsStand'
  BY <1>1 DEF PaperInv, RowsStand
<1> QED BY <1>3, <1>4, <1>5 DEF PaperInv, AllByHand, OnePaperPosition

\* A position is opened by its owner, or by a tick when all that are open were
\* opened by hand; no other tick is about to open one.
LEMMA CreateKeeps ==
    ASSUME PaperInv, NEW p \in Proc, OpenCreate(p)
    PROVE  PaperInv'
<1>1. at[p] = "create" /\ Exclusive
  BY DEF OpenCreate, PaperInv
<1>2. p \in Users \/ Working(p)
  BY <1>1 DEF Working, Proc
<1>3. CASE ~Exists
  BY <1>2, <1>3, FailKeeps DEF OpenCreate
<1>4. CASE Exists
  <2>0. PICK id, a : id = Len(positions) + 1 /\ a = BuildPlan(local[p].config)[1]
    OBVIOUS
  <2>1. PICK n : positions' = Append(positions, [status |-> "OPEN", qty |-> 1, cost |-> a.quote,
                                                 dca |-> 0, next |-> n, tp |-> TRUE])
    BY <1>4, <2>0 DEF OpenCreate
  <2>2. trades' = trades (+) SetToBag({Bought(p, id, 1, a)}) /\ Finish(p)
    BY <1>4, <2>0 DEF OpenCreate
  <2>3. PICK V : positions \in Seq(Row(V))
    BY DEF PaperInv, RowsStand
  <2>4. /\ RowsStand' /\ DOMAIN positions' = DOMAIN positions \union {id}
        /\ \A i \in DOMAIN positions : positions'[i] = positions[i]
    <3> DEFINE W == V \union {1, a.quote, 0, n, TRUE}
    <3>1. positions \in Seq(Row(W))
      <4>1. V \subseteq W
        OBVIOUS
      <4> QED BY <2>3, <4>1, RowsGrow
    <3>2. PICK row \in Row(W) : positions' = Append(positions, row)
      BY <2>1 DEF Row
    <3> HIDE DEF W
    <3>3. positions' \in Seq(Row(W))
      BY <3>1, <3>2
    <3> QED BY <2>0, <3>1, <3>2, <3>3 DEF RowsStand
  <2>5. OpenPositions' \subseteq OpenPositions \union {id}
    BY <2>4 DEF OpenPositions
  <2>6. /\ DOMAIN trades \subseteq DOMAIN trades' /\ Bought(p, id, 1, a) \in DOMAIN trades'
    <3>1. PICK x : x = Bought(p, id, 1, a)
      OBVIOUS
    <3>2. trades' = trades (+) SetToBag({x})
      BY <2>2, <3>1
    <3>3. DOMAIN trades' = DOMAIN trades \union {x}
      BY <3>2, BagsGrow
    <3> QED BY <3>1, <3>3
  <2>7. Exclusive' /\ at' = [at EXCEPT ![p] = "idle"]
    BY <1>1, <1>2, <2>2, Finishing
  <2>8. CASE p \in Users
    <3>1. OpenedByHand(id)'
      <4>1. PICK x : x = Bought(p, id, 1, a)
        OBVIOUS
      <4>2. x.pos = id /\ x.side = "BUY" /\ x.level = 1 /\ x.hand
        BY <2>8, <4>1 DEF Bought
      <4>3. x \in DOMAIN trades'
        BY <2>6, <4>1
      <4> QED BY <4>2, <4>3 DEF OpenedByHand, Of, BagToSet
    <3>2. OnePaperPosition'
      <4> SUFFICES ASSUME NEW i \in OpenPositions', NEW j \in OpenPositions', i # j
                   PROVE  OpenedByHand(i)' \/ OpenedByHand(j)'
        BY DEF OnePaperPosition
      <4>1. CASE i = id \/ j = id
        BY <3>1, <4>1
      <4>2. CASE i # id /\ j # id
        <5>1. OpenedByHand(i) \/ OpenedByHand(j)
          BY <2>5, <4>2 DEF PaperInv, OnePaperPosition
        <5> QED BY <2>6, <5>1, HandStays
      <4> QED BY <4>1, <4>2
    <3>3. \A q \in Ticks : at'[q] = "create" => AllByHand'
      <4> SUFFICES ASSUME NEW q \in Ticks, at'[q] = "create", NEW i \in OpenPositions'
                   PROVE  OpenedByHand(i)'
        BY DEF AllByHand
      <4>1. at[q] = "create"
        BY <1>1, <2>7 DEF Exclusive, Proc
      <4>2. CASE i = id
        BY <3>1, <4>2
      <4>3. CASE i # id
        <5>1. OpenedByHand(i)
          BY <2>5, <4>1, <4>3 DEF PaperInv, AllByHand
        <5> QED BY <2>6, <5>1, HandStays
      <4> QED BY <4>2, <4>3
    <3> QED BY <2>4, <2>7, <3>2, <3>3 DEF PaperInv
  <2>9. CASE p \in Ticks
    <3>1. AllByHand
      BY <1>1, <2>9 DEF PaperInv
    <3>2. \A i \in OpenPositions' : i # id => OpenedByHand(i)'
      BY <2>5, <2>6, <3>1, HandStays DEF AllByHand
    <3>3. OnePaperPosition'
      <4> SUFFICES ASSUME NEW i \in OpenPositions', NEW j \in OpenPositions', i # j
                   PROVE  OpenedByHand(i)' \/ OpenedByHand(j)'
        BY DEF OnePaperPosition
      <4> QED BY <3>2
    <3>4. \A q \in Ticks : at'[q] # "create"
      BY <1>1, <1>2, <2>7, <2>9, ProcAssumption DEF Exclusive, Working, Proc
    <3> QED BY <2>4, <2>7, <3>3, <3>4 DEF PaperInv
  <2> QED BY <2>8, <2>9 DEF Proc
<1> QED BY <1>3, <1>4

-----------------------------------------------------------------------------
(* Trading a position *)

\* A position is loaded, and held when no price is reached.
LEMMA LoadKeeps ==
    ASSUME PaperInv, NEW p \in Proc, Load(p) \/ Hold(p)
    PROVE  PaperInv'
<1>1. p \in Users \/ Working(p)
  BY DEF Load, Hold, Working, Proc
<1>2. CASE Fails(p)
  BY <1>1, <1>2, FailKeeps
<1>3. CASE ~Fails(p)
  <2>1. PICK place \in {"subs", "act"} : at' = [at EXCEPT ![p] = place]
    BY <1>3 DEF Load, Hold, Goto
  <2>2. UNCHANGED <<positions, trades, running>>
    BY <1>3 DEF Load, Hold, rows
  <2>3. Exclusive'
    BY <1>1, <2>1, <2>2, OneMoves DEF Places, PaperInv
  <2> QED BY <2>1, <2>2, <2>3, QuietStep DEF Places
<1> QED BY <1>2, <1>3

\* Sub-positions are sold: the position stays open, and trades are added.
LEMMA CloseSubsKeeps ==
    ASSUME PaperInv, NEW p \in Proc, CloseSubs(p)
    PROVE  PaperInv'
<1>1. p \in Users \/ Working(p)
  BY DEF CloseSubs, Working, Proc
<1>2. CASE Fails(p)
  BY <1>1, <1>2, FailKeeps
<1>3. CASE ~Fails(p)
  <2>1. at' = [at EXCEPT ![p] = "act"] /\ running' = running
    BY <1>3 DEF CloseSubs, SellSubs, Goto
  <2>2. Exclusive'
    BY <1>1, <2>1, OneMoves DEF Places, PaperInv
  <2>0. PICK id : id = local[p].id
    OBVIOUS
  <2>3. CASE UNCHANGED <<positions, trades>>
    BY <2>1, <2>2, <2>3, QuietStep DEF Places
  <2>4. CASE ~UNCHANGED <<positions, trades>>
    <3>0. PICK closing : SellSubs(p, closing)
      BY <1>3, <2>4 DEF CloseSubs, rows
    <3>1. /\ positions' = [positions EXCEPT ![id] = [positions[id] EXCEPT
                !.qty = Without(local[p].row, local[p].subs, closing).qty,
                !.cost = Without(local[p].row, local[p].subs, closing).cost,
                !.tp = Without(local[p].row, local[p].subs, closing).qty > 0]]
          /\ trades' = trades (+) SetToBag({Sold(p, id, l, TRUE, 1) : l \in closing})
      BY <1>3, <2>0, <3>0, Zenon DEF SellSubs
    <3>2. PICK e, r, t : /\ e = positions[id] /\ t = (r.qty > 0)
                        /\ r = Without(local[p].row, local[p].subs, closing)
      OBVIOUS
    <3>4. PICK q, c, row : /\ q = r.qty /\ c = r.cost
                           /\ row = [e EXCEPT !.qty = q, !.cost = c, !.tp = t]
      OBVIOUS
    <3>5. positions' = [positions EXCEPT ![id] = row]
      BY <3>1, <3>2, <3>4
    <3>6. RowsStand' /\ OpenPositions' \subseteq OpenPositions
      <4>1. RowsStand
        BY DEF PaperInv
      <4>2. Assigns(row, e, q, c, 0, FALSE, t)
        BY <3>4, Zenon DEF Assigns
      <4> QED BY <3>2, <3>5, <4>1, <4>2, RowAssigned
    <3>7. PICK B : trades' = trades (+) B
      BY <3>1
    <3>3. DOMAIN trades \subseteq DOMAIN trades'
      BY <3>7, BagsGrow
    <3> QED BY <2>1, <2>2, <3>6, <3>3, OrdinaryStep DEF Places
  <2> QED BY <2>3, <2>4
<1> QED BY <1>2, <1>3

\* The transaction that records a trade and assigns the position's columns.
LEMMA TradeKeeps ==
    ASSUME PaperInv, NEW p \in Proc, p \in Users \/ Working(p), Finish(p),
           NEW x, trades' = trades (+) SetToBag({x}),
           NEW id, NEW row, positions' = [positions EXCEPT ![id] = row],
           NEW e, e = positions[id], NEW q, NEW c, NEW d, NEW n, NEW t,
           Assigns(row, e, q, c, d, n, t)
    PROVE  PaperInv'
<1>1. Exclusive' /\ at' = [at EXCEPT ![p] = "idle"]
  BY Finishing DEF PaperInv
<1>0. RowsStand
  BY DEF PaperInv
<1>2. RowsStand' /\ OpenPositions' \subseteq OpenPositions
  BY <1>0, RowAssigned, Zenon
<1>3. DOMAIN trades \subseteq DOMAIN trades'
  <2>1. DOMAIN trades' = DOMAIN trades \union {x}
    BY BagsGrow, Zenon
  <2> QED BY <2>1
<1> QED BY <1>1, <1>2, <1>3, OrdinaryStep DEF Places

\* A level is bought or the position sold: it is opened by neither.
LEMMA ActKeeps ==
    ASSUME PaperInv, NEW p \in Proc, TakeProfit(p) \/ Dca(p)
    PROVE  PaperInv'
<1>1. p \in Users \/ Working(p)
  BY DEF TakeProfit, Dca, Working, Proc
<1>2. CASE Fails(p)
  BY <1>1, <1>2, FailKeeps
<1>3. CASE ~Fails(p)
  <2>0. PICK id : id = local[p].id
    OBVIOUS
  <2>1. CASE ExecuteDca(p)
    <3>1. PICK plan, level, r, a, e :
            /\ plan = BuildPlan(local[p].config) /\ r = local[p].row /\ level = r.dca + 2
            /\ a = plan[level] /\ e = positions[id]
      OBVIOUS
    <3>2. /\ positions' = [positions EXCEPT ![id] = [e EXCEPT
                  !.qty = r.qty + 1, !.cost = r.cost + a.quote, !.dca = r.dca + 1,
                  !.next = level < Len(plan), !.tp = TRUE]]
          /\ trades' = trades (+) SetToBag({Bought(p, id, level, a)})
          /\ Finish(p)
      BY <1>3, <2>0, <2>1, <3>1 DEF ExecuteDca
    <3>3. PICK q, c, d, n, x : /\ q = r.qty + 1 /\ c = r.cost + a.quote /\ d = r.dca + 1
                               /\ n = (level < Len(plan)) /\ x = Bought(p, id, level, a)
      OBVIOUS
    <3>4. PICK row : row = [e EXCEPT !.qty = q, !.cost = c, !.dca = d, !.next = n, !.tp = TRUE]
      OBVIOUS
    <3>5. positions' = [positions EXCEPT ![id] = row] /\ trades' = trades (+) SetToBag({x})
      BY <3>2, <3>3, <3>4
    <3>6. Assigns(row, e, q, c, d, n, TRUE)
      BY <3>4, Zenon DEF Assigns
    <3> QED BY <1>1, <3>1, <3>2, <3>5, <3>6, TradeKeeps, Zenon
  <2>2. CASE ExecuteClose(p)
    <3>1. PICK x, e : /\ e = positions[id]
                      /\ x = Sold(p, id, local[p].row.dca + 2, FALSE, local[p].row.qty)
      OBVIOUS
    <3>2. PICK row : row = [e EXCEPT !.status = "CLOSED", !.next = FALSE, !.tp = FALSE]
      OBVIOUS
    <3>3. /\ positions' = [positions EXCEPT ![id] = row]
          /\ trades' = trades (+) SetToBag({x})
          /\ Finish(p)
      BY <1>3, <2>0, <2>2, <3>1, <3>2 DEF ExecuteClose
    <3>4. Assigns(row, e, 0, 0, 0, FALSE, FALSE)
      BY <3>2, Zenon DEF Assigns
    <3> QED BY <1>1, <3>1, <3>3, <3>4, TradeKeeps, Zenon
  <2> QED BY <2>1, <2>2 DEF TakeProfit, Dca
<1> QED BY <1>2, <1>3

-----------------------------------------------------------------------------
(* The strategy's row, restarts *)

\* The owner creates, changes or starts the strategy.
LEMMA ManageKeeps ==
    ASSUME PaperInv, Manage, UNCHANGED <<subs, trades, running>>
    PROVE  PaperInv'
<1>1. positions' = positions
  BY DEF Manage, Create, UpdateRead, SetStatus, UpdateWrite, RemoveRead
<1>2. CASE at' = at
  BY <1>1, <1>2 DEF PaperInv, Exclusive, Working, RowsStand, AllByHand, OnePaperPosition,
                    OpenPositions, OpenedByHand, Of
<1>3. CASE at' # at
  <2>1. PICK p \in Users, place \in {"update", "remove", "idle"} : at' = [at EXCEPT ![p] = place]
    BY <1>3 DEF Manage, Create, UpdateRead, SetStatus, UpdateWrite, RemoveRead, Goto
  <2>2. p \in Proc
    BY DEF Proc
  <2>3. Exclusive'
    BY <2>1, <2>2, OneMoves DEF Places, PaperInv
  <2> QED BY <1>1, <2>1, <2>2, <2>3, QuietStep DEF Places
<1> QED BY <1>2, <1>3

\* The strategy is removed with all its positions.
LEMMA RemovedKeeps ==
    ASSUME PaperInv, NEW p \in Users, Removed(p)
    PROVE  PaperInv'
<1>1. p \in Proc /\ at' = [at EXCEPT ![p] = "idle"] /\ running' = running
  BY DEF Proc, Removed, RemoveDelete, Goto
<1>2. Exclusive'
  BY <1>1, OneMoves DEF Places, PaperInv
<1>3. CASE ~Exists
  <2>1. UNCHANGED <<positions, trades>>
    BY <1>3 DEF Removed, RemoveDelete
  <2> QED BY <1>1, <1>2, <2>1, QuietStep DEF Places
<1>4. CASE Exists
  <2> DEFINE gone == [NoPosition EXCEPT !.status = "DELETED"]
  <2>1. positions' = [i \in DOMAIN positions |-> gone]
    BY <1>4 DEF Removed, RemoveDelete
  <2>2. gone \in Row({0, FALSE}) /\ gone.status = "DELETED"
    BY DEF Row, NoPosition
  <2> HIDE DEF gone
  <2>3. OpenPositions' = {}
    BY <2>1, <2>2 DEF OpenPositions
  <2>4. DOMAIN positions = 1..Len(positions) /\ Len(positions) \in Nat
    BY DEF PaperInv, RowsStand
  <2>5. RowsStand'
    BY <2>1, <2>2, <2>4 DEF RowsStand
  <2> QED BY <1>1, <1>2, <2>3, <2>5, OrdinaryStep DEF Places
<1> QED BY <1>3, <1>4

\* The process dies: nobody is at work in it.
LEMMA RestartKeeps ==
    ASSUME PaperInv, Restart
    PROVE  PaperInv'
<1>1. at' = [q \in Proc |-> "idle"] /\ running' = FALSE /\ UNCHANGED <<positions, trades>>
  BY DEF Restart, rows
<1>2. Exclusive'
  BY <1>1 DEF Exclusive, Working, Places, Proc
<1>3. RowsStand' /\ OnePaperPosition'
  BY <1>1 DEF PaperInv, RowsStand, OnePaperPosition, OpenPositions, OpenedByHand, Of
<1>4. \A q \in Ticks : at'[q] # "create"
  BY <1>1 DEF Proc
<1> QED BY <1>2, <1>3, <1>4 DEF PaperInv

-----------------------------------------------------------------------------
\* What makes the property inductive: one tick at work, and what is known of the
\* open positions while it is about to open one.
THEOREM PaperHolds == Spec => []PaperInv
<1>1. Init => PaperInv
  <2> SUFFICES ASSUME Init PROVE PaperInv
    OBVIOUS
  <2>1. at = [q \in Proc |-> "idle"] /\ running = FALSE /\ positions = <<>>
    BY DEF Init
  <2>2. Exclusive
    BY <2>1 DEF Exclusive, Working, Places, Proc
  <2>3. OpenPositions = {}
    BY <2>1 DEF OpenPositions
  <2>4. RowsStand
    BY <2>1 DEF RowsStand
  <2>5. \A q \in Ticks : at[q] # "create"
    BY <2>1 DEF Proc
  <2> QED BY <2>2, <2>3, <2>4, <2>5 DEF PaperInv, OnePaperPosition
<1>2. PaperInv /\ [Next]_vars => PaperInv'
  <2> SUFFICES ASSUME PaperInv, [Next]_vars PROVE PaperInv'
    OBVIOUS
  <2>1. CASE UNCHANGED vars
    BY <2>1 DEF vars, PaperInv, Exclusive, Working, RowsStand, AllByHand, OnePaperPosition,
                OpenPositions, OpenedByHand, Of
  <2>2. ASSUME NEW p \in Proc, PositionStep(p) PROVE PaperInv'
    <3>1. CASE OpenRefuse(p)
      <4>1. (p \in Users \/ Working(p)) /\ Fails(p)
        BY <3>1 DEF OpenRefuse, Working, Proc
      <4> QED BY <4>1, FailKeeps
    <3> QED BY <2>2, <3>1, CheckKeeps, CreateKeeps, LoadKeeps, CloseSubsKeeps, ActKeeps
            DEF PositionStep
  <2> QED BY <2>1, <2>2, ManageKeeps, RemovedKeeps, RestartKeeps, RequestKeeps, TickKeeps DEF Next
<1> QED BY <1>1, <1>2, PTL DEF Spec

\* Two paper positions of a strategy are open only if its owner opened one by
\* hand, however many ticks and requests there are.
THEOREM OnePosition == Spec => []OnePaperPosition
<1>1. PaperInv => OnePaperPosition
  BY DEF PaperInv
<1> QED BY <1>1, PaperHolds, PTL

-----------------------------------------------------------------------------
(* The plan of purchases *)

\* A set of numbers has a least one.
LEMMA LeastExists ==
    ASSUME NEW S \in SUBSET Nat, S # {}
    PROVE  \E n \in S : \A m \in S : n <= m
<1>1. PICK n \in S : \A m \in S : ~ (<<m, n>> \in OpToRel(<, Nat))
  BY NatLessThanWellFounded, WFMin
<1>2. \A m \in S : ~ (m < n)
  BY <1>1 DEF OpToRel
<1> QED BY <1>2

\* f begins with a and goes on by G.
Stepwise(f, a, G, N) == f[0] = a /\ \A k \in 1..N : f[k] = G[<<k, f[k - 1]>>]

\* A function is determined step by step.
LEMMA Recursion ==
    ASSUME NEW S, NEW a \in S, NEW G \in [Nat \X S -> S], NEW N \in Nat
    PROVE  \E f \in [0..N -> S] : Stepwise(f, a, G, N)
<1> USE DEF Stepwise
<1> DEFINE Steps(f, n) == f \in [0..n -> S] /\ f[0] = a /\ \A k \in 1..n : f[k] = G[<<k, f[k - 1]>>]
           Missing == {n \in Nat : ~ \E f : Steps(f, n)}
<1>1. Missing = {}
  <2> SUFFICES ASSUME Missing # {} PROVE FALSE
    OBVIOUS
  <2>0. Missing \in SUBSET Nat
    OBVIOUS
  <2>1. PICK n \in Nat : n \in Missing /\ \A m \in Missing : n <= m
    <3> HIDE DEF Missing
    <3> QED BY <2>0, LeastExists
  <2>2. CASE n = 0
    <3>1. Steps([k \in 0..0 |-> a], 0)
      OBVIOUS
    <3> QED BY <2>1, <2>2, <3>1
  <2>3. CASE n # 0
    <3>1. n - 1 \in Nat /\ n - 1 \notin Missing
      <4> HIDE DEF Missing
      <4> QED BY <2>1, <2>3
    <3>2. PICK f : Steps(f, n - 1)
      BY <3>1
    <3>3. PICK g : g = [k \in 0..n |-> IF k = n THEN G[<<n, f[n - 1]>>] ELSE f[k]]
      OBVIOUS
    <3>4. f[n - 1] \in S /\ G[<<n, f[n - 1]>>] \in S
      BY <3>1, <3>2
    <3>5. Steps(g, n)
      <4>1. /\ g \in [0..n -> S] /\ g[n] = G[<<n, f[n - 1]>>]
            /\ \A k \in 0..(n - 1) : g[k] = f[k]
        BY <2>3, <3>1, <3>2, <3>3, <3>4
      <4>2. g[0] = a
        BY <2>3, <3>2, <4>1
      <4>3. ASSUME NEW k \in 1..n PROVE g[k] = G[<<k, g[k - 1]>>]
        <5>1. k - 1 \in 0..(n - 1)
          BY <4>3
        <5>2. g[k - 1] = f[k - 1]
          BY <4>1, <5>1
        <5>3. CASE k = n
          BY <4>1, <5>2, <5>3
        <5>4. CASE k # n
          <6>1. k \in 1..(n - 1) /\ k \in 0..(n - 1)
            BY <5>4
          <6>2. f[k] = G[<<k, f[k - 1]>>] /\ g[k] = f[k]
            BY <3>2, <4>1, <6>1
          <6> QED BY <5>2, <6>2
        <5> QED BY <5>3, <5>4
      <4> QED BY <4>1, <4>2, <4>3
    <3> QED BY <2>1, <3>5
  <2> QED BY <2>2, <2>3
<1>2. PICK f : Steps(f, N)
  BY <1>1
<1> QED BY <1>2

\* A positive number's powers are positive.
LEMMA PowerType ==
    ASSUME NEW b \in Nat, NEW n \in Nat
    PROVE  Power(b, n) \in Nat /\ (b # 0 => Power(b, n) # 0)
<1> DEFINE Powers(f) == f = [k \in 0..n |-> IF k = 0 THEN 1 ELSE b * f[k - 1]]
           power == CHOOSE f : Powers(f)
           G == [z \in Nat \X Nat |-> b * z[2]]
<1>1. \E f : Powers(f)
  <2>1. G \in [Nat \X Nat -> Nat]
    OBVIOUS
  <2>2. PICK f \in [0..n -> Nat] : f[0] = 1 /\ \A k \in 1..n : f[k] = G[<<k, f[k - 1]>>]
    <3>1. PICK H \in [Nat \X Nat -> Nat] : H = G
      BY <2>1
    <3> HIDE DEF G
    <3>2. PICK f \in [0..n -> Nat] : Stepwise(f, 1, H, n)
      BY Recursion
    <3> QED BY <3>1, <3>2 DEF Stepwise
  <2>3. \A k \in 1..n : f[k] = b * f[k - 1]
    <3> TAKE k \in 1..n
    <3>1. k \in Nat /\ f[k - 1] \in Nat
      OBVIOUS
    <3> QED BY <2>2, <3>1
  <2>4. Powers(f)
    BY <2>2, <2>3
  <2> QED BY <2>4
<1>2. PICK f : f = power /\ Powers(f)
  BY <1>1
<1>0. f = [k \in 0..n |-> IF k = 0 THEN 1 ELSE b * f[k - 1]]
  BY <1>2
<1> DEFINE Wrong == {k \in 0..n : ~ (f[k] \in Nat /\ (b # 0 => f[k] # 0))}
<1>3. Wrong = {}
  <2> SUFFICES ASSUME Wrong # {} PROVE FALSE
    OBVIOUS
  <2>1. PICK k \in Wrong : \A m \in Wrong : k <= m
    <3>1. Wrong \in SUBSET Nat
      OBVIOUS
    <3> HIDE DEF Wrong
    <3> QED BY <3>1, LeastExists
  <2>2. k # 0
    <3>1. f[0] = 1
      <4> HIDE DEF power
      <4> QED BY <1>0
    <3>2. f[k] # 1
      BY <2>1
    <3> QED BY <3>1, <3>2
  <2>3. k - 1 \in 0..n /\ k - 1 \notin Wrong /\ k \in Nat
    BY <2>1, <2>2
  <2>4. PICK x \in Nat : x = f[k - 1] /\ (b # 0 => x # 0)
    BY <2>3
  <2>5. f[k] = b * x
    BY <1>0, <2>1, <2>2, <2>4
  <2>6. b * x \in Nat /\ (b # 0 /\ x # 0 => b * x # 0)
    OBVIOUS
  <2> QED BY <2>1, <2>4, <2>5, <2>6
<1>4. Power(b, n) = f[n]
  BY <1>2, Zenon DEF Power
<1> QED BY <1>3, <1>4

\* What a level asks for.
LEMMA RawType == ASSUME NEW c \in Plan, NEW level \in Nat \ {0} PROVE Raw(c, level) \in Nat
<1>1. PICK n \in Nat : n = level - 1
  OBVIOUS
<1>2. PICK x \in Nat, y \in Nat \ {0} : x = Power(c.num, n) /\ y = Power(c.den, n)
  BY PowerType DEF Plan
<1>3. c.base * x \in Nat
  BY DEF Plan
<1>4. (c.base * x) \div y \in Nat
  BY <1>3
<1> QED BY <1>1, <1>2, <1>4 DEF Raw

\* What is allocated up to a level never shrinks and is at most the budget.
LEMMA AllocatedType ==
    ASSUME NEW c \in Plan
    PROVE  LET sum == Allocated(c)
           IN  /\ \A n \in 0..c.max + 1 : sum[n] \in 0..c.budget
               /\ \A n \in 1..c.max + 1 : sum[n - 1] <= sum[n]
<1> DEFINE N == c.max + 1
           Sums(f) == f = [n \in 0..N |-> IF n = 0 THEN 0 ELSE Lower(c.budget, f[n - 1] + Raw(c, n))]
           sum == CHOOSE f : Sums(f)
           G == [z \in Nat \X Nat |-> IF z[1] = 0 THEN 0 ELSE Lower(c.budget, z[2] + Raw(c, z[1]))]
<1>1. c.budget \in Nat /\ N \in Nat
  BY DEF Plan
<1>2. ASSUME NEW n \in Nat \ {0}, NEW x \in Nat PROVE Lower(c.budget, x + Raw(c, n)) \in Nat
  BY <1>1, RawType DEF Lower
<1>3. PICK f : f = sum /\ Sums(f)
  <2>1. G \in [Nat \X Nat -> Nat]
    BY <1>2
  <2>2. PICK f \in [0..N -> Nat] : f[0] = 0 /\ \A k \in 1..N : f[k] = G[<<k, f[k - 1]>>]
    <3>1. PICK H \in [Nat \X Nat -> Nat] : H = G
      BY <2>1
    <3>2. PICK m \in Nat : m = N
      BY <1>1
    <3> HIDE DEF G, N
    <3>3. PICK f \in [0..m -> Nat] : Stepwise(f, 0, H, m)
      BY Recursion
    <3> QED BY <3>1, <3>2, <3>3 DEF Stepwise
  <2>3. \A k \in 1..N : f[k] = Lower(c.budget, f[k - 1] + Raw(c, k))
    <3> TAKE k \in 1..N
    <3>1. k \in Nat \ {0} /\ k - 1 \in 0..N
      BY <1>1
    <3>2. f[k - 1] \in Nat
      BY <3>1
    <3> QED BY <2>2, <3>1, <3>2
  <2>4. Sums(f)
    BY <2>2, <2>3
  <2> QED BY <2>4
<1>4. f = [n \in 0..N |-> IF n = 0 THEN 0 ELSE Lower(c.budget, f[n - 1] + Raw(c, n))]
  BY <1>3
<1>5. Allocated(c) = f
  BY <1>3, Zenon DEF Allocated
<1> DEFINE Wrong == {n \in 0..N : f[n] \notin 0..c.budget}
<1> HIDE DEF sum
<1>6. f[0] = 0
  BY <1>1, <1>4
<1>7. ASSUME NEW n \in 1..N, f[n - 1] \in 0..c.budget
      PROVE  f[n] \in 0..c.budget /\ f[n - 1] <= f[n]
  <2>1. PICK x \in Nat : x = f[n - 1] /\ x <= c.budget
    BY <1>1, <1>7
  <2>2. PICK r \in Nat : r = Raw(c, n)
    BY <1>1, RawType
  <2>3. f[n] = Lower(c.budget, x + r)
    BY <1>1, <1>4, <2>1, <2>2
  <2> QED BY <1>1, <2>1, <2>2, <2>3 DEF Lower
<1>8. Wrong = {}
  <2> SUFFICES ASSUME Wrong # {} PROVE FALSE
    OBVIOUS
  <2>1. PICK n \in Wrong : \A m \in Wrong : n <= m
    <3>1. Wrong \in SUBSET Nat
      BY <1>1
    <3> HIDE DEF Wrong
    <3> QED BY <3>1, LeastExists
  <2>2. n # 0
    BY <1>1, <1>6, <2>1
  <2>3. n \in 1..N /\ n - 1 \in 0..N /\ n - 1 \notin Wrong
    BY <1>1, <2>1, <2>2
  <2> QED BY <1>7, <2>1, <2>3
<1>9. \A n \in 0..N : f[n] \in 0..c.budget
  BY <1>8
<1>10. ASSUME NEW n \in 1..N PROVE f[n - 1] <= f[n]
  <2>1. n - 1 \in 0..N
    BY <1>1
  <2> QED BY <1>7, <1>9, <2>1
<1> QED BY <1>5, <1>9, <1>10

\* Rounding to the unit: what lies below a multiple of the unit stays below it.
LEMMA RoundType ==
    ASSUME NEW x \in Nat
    PROVE  /\ Round(x) \in Nat
           /\ \A b \in Nat : b % Unit = 0 /\ x <= b => Round(x) <= b
<1>1. PICK u \in Nat \ {0} : u = Unit
  BY UnitAssumption
<1>2. PICK h \in Nat : h = u \div 2 /\ h < u
  OBVIOUS
<1>3. PICK q \in Nat : q = (x + h) \div u /\ q * u <= x + h
  OBVIOUS
<1>4. Round(x) = q * u /\ q * u \in Nat
  BY <1>1, <1>2, <1>3 DEF Round
<1>5. ASSUME NEW b \in Nat, b % u = 0, x <= b PROVE q * u <= b
  <2>1. PICK k \in Nat : b = k * u
    <3>1. b = u * (b \div u) + (b % u) /\ b \div u \in Nat
      OBVIOUS
    <3> QED BY <1>5, <3>1
  <2>2. q * u < (k + 1) * u
    <3>1. q * u <= k * u + h
      BY <1>3, <1>5, <2>1
    <3>2. (k + 1) * u = k * u + u
      OBVIOUS
    <3> QED BY <1>2, <3>1, <3>2
  <2>3. q <= k
    <3>1. CASE q >= k + 1
      <4>1. q * u >= (k + 1) * u
        BY <3>1
      <4> QED BY <2>2, <4>1
    <3>2. CASE ~ (q >= k + 1)
      BY <3>2
    <3> QED BY <3>1, <3>2
  <2>4. q * u <= k * u
    BY <2>3
  <2> QED BY <2>1, <2>4
<1> QED BY <1>1, <1>4, <1>5

\* A plan is a sequence of amounts that are naturals, each within the budget.
LEMMA PlanType ==
    ASSUME NEW c \in Plan, c.budget % Unit = 0
    PROVE  /\ Len(BuildPlan(c)) \in Nat /\ DOMAIN BuildPlan(c) = 1..Len(BuildPlan(c))
           /\ \A n \in 1..Len(BuildPlan(c)) :
                 /\ BuildPlan(c)[n].quote \in Nat /\ BuildPlan(c)[n].quote <= c.budget
                 /\ BuildPlan(c)[n].independent \in BOOLEAN
<1> DEFINE levels == {n \in 1..c.max + 1 : Allocated(c)[n - 1] < c.budget}
<1>1. PICK m \in Nat : m = c.max + 1
  BY DEF Plan
<1>2. IsFiniteSet(levels) /\ Cardinality(levels) \in Nat /\ Cardinality(levels) <= m
  <2>1. IsFiniteSet(1..m) /\ Cardinality(1..m) = m
    <3>1. 1 \in Int /\ m \in Int
      OBVIOUS
    <3>2. IsFiniteSet(1..m) /\ Cardinality(1..m) = IF 1 > m THEN 0 ELSE m - 1 + 1
      BY <3>1, FS_Interval
    <3> QED BY <3>2
  <2>2. levels \in SUBSET (1..m)
    BY <1>1
  <2> HIDE DEF levels
  <2>3. IsFiniteSet(levels) /\ Cardinality(levels) <= Cardinality(1..m)
    BY <2>1, <2>2, FS_Subset
  <2> QED BY <2>1, <2>3, FS_CardinalityType
<1>3. PICK k \in Nat : k = Cardinality(levels) /\ k <= m
  BY <1>2
<1>4. PICK s : s = Allocated(c)
  OBVIOUS
<1>5. \A n \in 0..m : s[n] \in 0..c.budget
  BY <1>1, <1>4, AllocatedType
<1>6. \A n \in 1..m : s[n - 1] <= s[n]
  BY <1>1, <1>4, AllocatedType
<1>7. BuildPlan(c) = [n \in 1..k |-> [quote |-> Round(s[n] - s[n - 1]), independent |-> n >= c.from]]
  BY <1>3, <1>4 DEF BuildPlan
<1>8. ASSUME NEW n \in 1..k
      PROVE  /\ BuildPlan(c)[n].quote \in Nat /\ BuildPlan(c)[n].quote <= c.budget
             /\ BuildPlan(c)[n].independent \in BOOLEAN
  <2>1. n \in 1..m /\ n \in 0..m /\ n - 1 \in 0..m
    BY <1>3
  <2>2. c.budget \in Nat
    BY DEF Plan
  <2>3. PICK x \in Nat : x = s[n] - s[n - 1] /\ x <= c.budget
    BY <1>5, <1>6, <2>1, <2>2
  <2>4. Round(x) \in Nat /\ Round(x) <= c.budget
    BY <2>2, <2>3, RoundType
  <2>5. BuildPlan(c)[n] = [quote |-> Round(x), independent |-> n >= c.from]
    BY <1>7, <2>3
  <2>6. (n >= c.from) \in BOOLEAN
    OBVIOUS
  <2> QED BY <2>4, <2>5, <2>6
<1>9. Len(BuildPlan(c)) = k /\ DOMAIN BuildPlan(c) = 1..k
  BY <1>7
<1> QED BY <1>8, <1>9

-----------------------------------------------------------------------------
(* Sums *)

\* The values of a function on a finite set are finitely many units.
LEMMA TotalType ==
    ASSUME NEW S, IsFiniteSet(S), NEW f \in [S -> Nat]
    PROVE  IsFiniteSet(Units(f)) /\ Total(f) \in Nat
<1> DEFINE units == [x \in S |-> {x} \X (1..f[x])]
           T == {{x} \X (1..f[x]) : x \in S}
<1>1. units \in Surjection(S, T)
  BY DEF Surjection
<1>2. IsFiniteSet(T)
  BY <1>1, FS_Surjection
<1>3. ASSUME NEW x \in S PROVE IsFiniteSet({x} \X (1..f[x]))
  <2>1. 1 \in Int /\ f[x] \in Int
    OBVIOUS
  <2>2. IsFiniteSet({x}) /\ IsFiniteSet(1..f[x])
    BY <2>1, FS_Singleton, FS_Interval
  <2> QED BY <2>2, FS_Product
<1>4. Units(f) = UNION T
  BY DEF Units
<1>5. IsFiniteSet(Units(f))
  BY <1>2, <1>3, <1>4, FS_UNION
<1> QED BY <1>5, FS_CardinalityType DEF Total

\* What h is at x, if that is in its domain.
At0(h, x) == IF x \in DOMAIN h THEN h[x] ELSE 0

\* The sum of f and g, value by value.
Joins(h, f, g) ==
    /\ DOMAIN h = DOMAIN f \union DOMAIN g
    /\ \A x \in DOMAIN h : h[x] = At0(f, x) + At0(g, x)

\* A sum of functions is the sum of their sums.
LEMMA TotalJoin ==
    ASSUME NEW A, NEW B, IsFiniteSet(A), IsFiniteSet(B),
           NEW f \in [A -> Nat], NEW g \in [B -> Nat], NEW h, Joins(h, f, g)
    PROVE  Total(h) = Total(f) + Total(g)
<1>0. \A x : At0(f, x) \in Nat /\ At0(g, x) \in Nat
  BY DEF At0
<1>1. PICK a : a = [x \in A \union B |-> At0(f, x)]
  OBVIOUS
<1>2. \A x \in A \union B : a[x] \in Nat /\ a[x] = At0(f, x)
  BY <1>0, <1>1
<1> DEFINE shift == [z \in Units(g) |-> <<z[1], z[2] + a[z[1]]>>]
           more == {<<z[1], z[2] + a[z[1]]>> : z \in Units(g)}
<1>3. ASSUME NEW z
      PROVE  z \in Units(f) <=> \E x \in A, n \in Nat : n \in 1..f[x] /\ z = <<x, n>>
  BY DEF Units
<1>4. ASSUME NEW z
      PROVE  z \in Units(g) <=> \E x \in B, n \in Nat : n \in 1..g[x] /\ z = <<x, n>>
  BY DEF Units
<1>5. ASSUME NEW z
      PROVE  z \in Units(h) <=> \E x \in A \union B, n \in Nat : n \in 1..h[x] /\ z = <<x, n>>
  BY DEF Units, Joins
<1>6. \A x \in A \union B : h[x] = At0(f, x) + At0(g, x)
  BY DEF Joins
<1>7. IsFiniteSet(Units(f)) /\ IsFiniteSet(Units(g)) /\ Total(f) \in Nat /\ Total(g) \in Nat
  BY TotalType
<1>8. shift \in Bijection(Units(g), more)
  <2>1. shift \in Surjection(Units(g), more)
    BY DEF Surjection
  <2>2. ASSUME NEW y \in Units(g), NEW z \in Units(g), shift[y] = shift[z] PROVE y = z
    <3>1. PICK v \in B, m \in Nat : m \in 1..g[v] /\ y = <<v, m>>
      BY <1>4
    <3>2. PICK w \in B, n \in Nat : n \in 1..g[w] /\ z = <<w, n>>
      BY <1>4
    <3>3. <<v, m + a[v]>> = <<w, n + a[w]>>
      BY <2>2, <3>1, <3>2
    <3>4. v = w /\ m + a[v] = n + a[v]
      BY <3>3
    <3>5. m = n
      BY <1>2, <3>1, <3>2, <3>4
    <3> QED BY <3>1, <3>2, <3>4, <3>5
  <2>3. shift \in Injection(Units(g), more)
    BY <2>1, <2>2 DEF Injection, Surjection, IsInjective
  <2> QED BY <2>1, <2>3 DEF Bijection
<1>9. IsFiniteSet(more) /\ Cardinality(more) = Total(g)
  <2>1. ExistsBijection(Units(g), more)
    BY <1>8 DEF ExistsBijection
  <2> HIDE DEF more
  <2> QED BY <1>7, <2>1, FS_Bijection DEF Total
<1>10. Units(f) \cap more = {}
  <2> SUFFICES ASSUME NEW z \in Units(f), z \in more PROVE FALSE
    OBVIOUS
  <2>1. PICK x \in A, n \in Nat : n \in 1..f[x] /\ z = <<x, n>>
    BY <1>3
  <2>2. PICK y \in Units(g) : z = <<y[1], y[2] + a[y[1]]>>
    OBVIOUS
  <2>3. PICK w \in B, m \in Nat : m \in 1..g[w] /\ y = <<w, m>>
    BY <1>4
  <2>4. x = w /\ n = m + a[x]
    BY <2>1, <2>2, <2>3
  <2>5. a[x] = f[x]
    BY <1>2 DEF At0
  <2> QED BY <2>1, <2>3, <2>4, <2>5
<1>11. Units(h) = Units(f) \union more
  <2>1. ASSUME NEW z \in Units(h) PROVE z \in Units(f) \union more
    <3>1. PICK x \in A \union B, n \in Nat : n \in 1..h[x] /\ z = <<x, n>>
      BY <1>5
    <3>2. PICK d \in Nat, e \in Nat : d = At0(f, x) /\ e = At0(g, x) /\ h[x] = d + e /\ a[x] = d
      BY <1>0, <1>2, <1>6
    <3>3. CASE n <= d
      <4>1. x \in A /\ n \in 1..f[x]
        BY <3>1, <3>2, <3>3 DEF At0
      <4> QED BY <1>3, <3>1, <4>1
    <3>4. CASE n > d
      <4>1. x \in B /\ n - d \in 1..g[x]
        BY <3>1, <3>2, <3>4 DEF At0
      <4>2. <<x, n - d>> \in Units(g)
        BY <1>4, <4>1
      <4>3. z = <<x, (n - d) + a[x]>>
        BY <3>1, <3>2
      <4>4. PICK y \in Units(g) : y = <<x, n - d>>
        BY <4>2
      <4>5. z = <<y[1], y[2] + a[y[1]]>>
        BY <4>3, <4>4
      <4> QED BY <4>5
    <3> QED BY <3>1, <3>2, <3>3, <3>4
  <2>2. ASSUME NEW z \in Units(f) PROVE z \in Units(h)
    <3>1. PICK x \in A, n \in Nat : n \in 1..f[x] /\ z = <<x, n>>
      BY <1>3
    <3>2. PICK e \in Nat : h[x] = f[x] + e
      BY <1>0, <1>6 DEF At0
    <3>3. n \in 1..h[x]
      BY <3>1, <3>2
    <3> QED BY <1>5, <3>1, <3>3
  <2>3. ASSUME NEW z \in more PROVE z \in Units(h)
    <3>1. PICK y \in Units(g) : z = <<y[1], y[2] + a[y[1]]>>
      BY <2>3
    <3>2. PICK x \in B, n \in Nat : n \in 1..g[x] /\ y = <<x, n>>
      BY <1>4
    <3>3. PICK d \in Nat : d = At0(f, x) /\ h[x] = d + g[x] /\ a[x] = d
      BY <1>0, <1>2, <1>6 DEF At0
    <3>4. z = <<x, n + d>> /\ n + d \in 1..h[x]
      BY <3>1, <3>2, <3>3
    <3> QED BY <1>5, <3>4
  <2> HIDE DEF more
  <2> QED BY <2>1, <2>2, <2>3
<1>12. Cardinality(Units(f) \union more) = Cardinality(Units(f)) + Cardinality(more)
  <2> HIDE DEF more
  <2>1. Cardinality(Units(f) \union more)
          = Cardinality(Units(f)) + Cardinality(more) - Cardinality(Units(f) \cap more)
    BY <1>7, <1>9, FS_Union
  <2>2. Cardinality(Units(f) \cap more) = 0
    BY <1>10, FS_EmptySet
  <2> QED BY <1>7, <1>9, <2>1, <2>2 DEF Total
<1> QED BY <1>7, <1>9, <1>11, <1>12 DEF Total

\* The sum of nothing, of one value, and of ones.
LEMMA TotalNone == ASSUME NEW f, DOMAIN f = {} PROVE Total(f) = 0
<1>1. Units(f) = {}
  BY DEF Units
<1> QED BY <1>1, FS_EmptySet DEF Total

\* The sum of one value is that value.
LEMMA TotalOne ==
    ASSUME NEW x, NEW d \in Nat, NEW f, f = [y \in {x} |-> d] PROVE Total(f) = d
<1>1. Units(f) = {x} \X (1..d)
  BY DEF Units
<1>2. IsFiniteSet(1..d) /\ Cardinality(1..d) = d
  <2>1. 1 \in Int /\ d \in Int
    OBVIOUS
  <2>2. IsFiniteSet(1..d) /\ Cardinality(1..d) = IF 1 > d THEN 0 ELSE d - 1 + 1
    BY <2>1, FS_Interval
  <2> QED BY <2>2
<1>3. IsFiniteSet({x}) /\ Cardinality({x}) = 1
  BY FS_Singleton
<1>4. Cardinality({x} \X (1..d)) = 1 * d
  BY <1>2, <1>3, FS_Product
<1>5. 1 * d = d
  OBVIOUS
<1> QED BY <1>1, <1>4, <1>5 DEF Total

\* The sum of ones counts them.
LEMMA TotalOnes ==
    ASSUME NEW C, IsFiniteSet(C), NEW f, f = [x \in C |-> 1] PROVE Total(f) = Cardinality(C)
<1> DEFINE D == {<<x, 1>> : x \in C}
<1>1. Units(f) = D
  <2>1. 1..1 = {1}
    OBVIOUS
  <2>2. \A x \in C : f[x] = 1
    OBVIOUS
  <2>3. \A x \in C : {x} \X (1..1) = {<<x, 1>>}
    BY <2>1
  <2>4. Units(f) = UNION {{x} \X (1..1) : x \in C}
    BY <2>2 DEF Units
  <2> QED BY <2>3, <2>4
<1>2. ExistsBijection(C, D)
  <2>1. [x \in C |-> <<x, 1>>] \in Bijection(C, D)
    BY DEF Bijection, Injection, Surjection, IsInjective
  <2> QED BY <2>1 DEF ExistsBijection
<1> HIDE DEF D
<1>3. Cardinality(D) = Cardinality(C)
  BY <1>2, FS_Bijection
<1> QED BY <1>1, <1>3 DEF Total

-----------------------------------------------------------------------------
(* Rows, locals and the budget *)

\* Parameters a strategy can have: they give a plan.
Planned(c) == c \in Configs /\ BuildPlan(c) # <<>>
Affordable(c) == Planned(c) /\ strategy.status # "NONE" /\ c.budget <= strategy.peak

SubTable(ss) == IsFiniteSet(DOMAIN ss) /\ \A l \in DOMAIN ss : l \in Nat /\ ss[l] \in Sub

\* What a process at l with locals v remembers.
Remembers(l, v) ==
    /\ DOMAIN v = DOMAIN Blank
    /\ l \in {"tick", "quote"} => v.id \in {0} \union DOMAIN positions
    /\ l \in {"load", "subs", "act"} => v.id \in DOMAIN positions
    /\ l = "update" => Planned(v.config)
    /\ l \in {"create", "subs", "act"} => Affordable(v.config)
    /\ l \in {"subs", "act"} => v.row \in Position /\ v.row.cost <= strategy.peak
    /\ l = "subs" => SubTable(v.subs)

StrategySound ==
    /\ strategy.peak \in Nat
    /\ IF strategy.status = "NONE" THEN positions = <<>> ELSE Affordable(strategy.config)
SubsSound ==
    /\ IsFiniteSet(DOMAIN subs)
    /\ \A s \in DOMAIN subs : /\ s \in (DOMAIN positions) \X Nat
                              /\ subs[s] \in Sub
TradesSound ==
    /\ IsFiniteSet(DOMAIN trades)
    /\ \A t \in DOMAIN trades :
          /\ trades[t] \in Nat \ {0} /\ t.pos \in DOMAIN positions /\ t.cost \in Nat
          /\ OfSub(t) => <<t.pos, t.level>> \in DOMAIN subs
    /\ SubLevelsOnce
RowsSound == StrategySound /\ positions \in Seq(Position) /\ SubsSound /\ TradesSound

LocalsStand == at \in [Proc -> Places] /\ local = [p \in Proc |-> local[p]]
PaperSound ==
    /\ RowsSound /\ LocalsStand
    /\ \A p \in Proc : Remembers(at[p], local[p])
    /\ CostWithinBudget

\* A step of one process after which nothing remembered has gone.
LEMMA RemembersOn ==
    ASSUME PaperSound, NEW p \in Proc, NEW l \in Places, NEW v, Goto(p, l, v),
           DOMAIN positions \subseteq DOMAIN positions',
           strategy.status # "NONE" => strategy'.status # "NONE",
           strategy.peak <= strategy'.peak, strategy'.peak \in Nat, Remembers(l, v)'
    PROVE  LocalsStand' /\ \A q \in Proc : Remembers(at[q], local[q])'
<1>1. at \in [Proc -> Places] /\ local = [q \in Proc |-> local[q]] /\ strategy.peak \in Nat
  BY DEF PaperSound, LocalsStand, RowsSound, StrategySound
<1>2. /\ at'[p] = l /\ local'[p] = v
      /\ \A q \in Proc \ {p} : at'[q] = at[q] /\ local'[q] = local[q]
  BY <1>1 DEF Goto
<1>3. LocalsStand'
  BY <1>1 DEF Goto, LocalsStand
<1>4. ASSUME NEW q \in Proc \ {p} PROVE Remembers(at[q], local[q])'
  <2>1. PICK k, w : k = at[q] /\ w = local[q]
    OBVIOUS
  <2>2. Remembers(k, w)
    BY <2>1 DEF PaperSound
  <2>3. Planned(w.config) => w.config.budget \in Nat
    BY ConfigsAssumption DEF Planned, Plan
  <2>4. w.row \in Position => w.row.cost \in Int
    BY DEF Position
  <2>5. Remembers(k, w)'
    BY <1>1, <2>2, <2>3, <2>4 DEF Remembers, Affordable, Planned, SubTable
  <2> QED BY <1>2, <2>1, <2>5
<1>5. Remembers(at[p], local[p])'
  BY <1>2
<1> QED BY <1>3, <1>4, <1>5

\* The cost of an open position is a number within the largest budget.
LEMMA OpenCost ==
    ASSUME PaperSound, NEW id \in OpenPositions
    PROVE  positions[id].cost \in Int /\ positions[id].cost <= strategy.peak
<1>1. positions \in Seq(Position) /\ id \in DOMAIN positions
  BY DEF PaperSound, RowsSound, OpenPositions
<1>2. positions[id] \in Position
  BY <1>1
<1> QED BY <1>2 DEF PaperSound, CostWithinBudget, Position

\* A step of one process that touches no rows but, perhaps, the strategy's.
LEMMA SoundQuiet ==
    ASSUME PaperSound, NEW p \in Proc, NEW l \in Places, NEW v, Goto(p, l, v),
           UNCHANGED <<positions, subs, trades>>, StrategySound',
           strategy.status # "NONE" => strategy'.status # "NONE",
           strategy.peak <= strategy'.peak, Remembers(l, v)'
    PROVE  PaperSound'
<1>1. strategy.peak \in Nat /\ strategy'.peak \in Nat
  BY DEF PaperSound, RowsSound, StrategySound
<1>2. LocalsStand' /\ \A q \in Proc : Remembers(at[q], local[q])'
  BY <1>1, RemembersOn
<1>3. RowsSound'
  BY DEF PaperSound, RowsSound, SubsSound, TradesSound, SubLevelsOnce, BagToSet
<1>4. CostWithinBudget'
  <2> SUFFICES ASSUME NEW id \in OpenPositions PROVE positions[id].cost <= strategy'.peak
    BY DEF CostWithinBudget, OpenPositions
  <2>1. positions[id].cost \in Int /\ positions[id].cost <= strategy.peak
    BY OpenCost
  <2> QED BY <1>1, <2>1
<1> QED BY <1>2, <1>3, <1>4 DEF PaperSound

\* A step that leaves all rows alone.
LEMMA SoundStill ==
    ASSUME PaperSound, NEW p \in Proc, NEW l \in Places, NEW v, Goto(p, l, v),
           UNCHANGED rows, Remembers(l, v)
    PROVE  PaperSound'
<1>1. UNCHANGED <<strategy, positions, subs, trades>>
  BY DEF rows
<1>2. StrategySound' /\ Remembers(l, v)' /\ strategy.peak <= strategy'.peak
  BY <1>1 DEF PaperSound, RowsSound, StrategySound, Affordable, Planned, Remembers, SubTable
<1> QED BY <1>1, <1>2, SoundQuiet

\* Nothing is remembered by one who is idle, opens, or removes.
LEMMA IdleRemembers ==
    ASSUME NEW v, DOMAIN v = DOMAIN Blank
    PROVE  \A l \in {"idle", "open", "remove"} : Remembers(l, v)
BY DEF Remembers

\* A request or a tick that ends in an error leaves the rows alone.
LEMMA SoundFails == ASSUME PaperSound, NEW p \in Proc, Fails(p) PROVE PaperSound'
BY SoundStill, IdleRemembers DEF Fails, Finish, Places

\* Some position is the newest open one.
LEMMA NewestOpen ==
    ASSUME positions \in Seq(Position), OpenPositions # {}
    PROVE  Max(OpenPositions) \in OpenPositions
<1> DEFINE above == {n \in Nat : \A i \in OpenPositions : i <= n}
<1>1. OpenPositions \subseteq 1..Len(positions) /\ Len(positions) \in Nat
  BY DEF OpenPositions
<1>2. PICK n \in above : \A m \in above : n <= m
  <2>1. above \in SUBSET Nat /\ Len(positions) \in above
    BY <1>1
  <2> HIDE DEF above
  <2> QED BY <2>1, LeastExists
<1>3. n \in OpenPositions
  <2> SUFFICES ASSUME n \notin OpenPositions PROVE FALSE
    OBVIOUS
  <2>1. PICK i \in OpenPositions : TRUE
    OBVIOUS
  <2>2. n - 1 \in above
    BY <1>1, <1>2, <2>1
  <2> QED BY <1>2, <2>2
<1>4. \A i \in OpenPositions : n >= i
  BY <1>1, <1>2
<1> QED BY <1>3, <1>4, Zenon DEF Max

\* The runner's tick and the owner's requests.
LEMMA TickSound == ASSUME PaperSound, NEW p \in Proc, TickStep(p) PROVE PaperSound'
<1>0. positions \in Seq(Position) /\ Remembers(at[p], local[p])
  BY DEF PaperSound, RowsSound
<1>1. CASE TickRead(p)
  <2>1. PICK id : id = IF OpenPositions = {} THEN 0 ELSE Max(OpenPositions)
    OBVIOUS
  <2>2. id \in {0} \union DOMAIN positions
    BY <1>0, <2>1, NewestOpen DEF OpenPositions
  <2>3. PICK v : v = [Blank EXCEPT !.job = "tick", !.id = id]
    OBVIOUS
  <2>4. v.id = id /\ DOMAIN v = DOMAIN Blank
    BY <2>3 DEF Blank
  <2>5. Goto(p, "tick", v) /\ UNCHANGED rows
    BY <1>1, <2>1, <2>3 DEF TickRead
  <2>6. Remembers("tick", v)
    BY <2>2, <2>4 DEF Remembers
  <2> QED BY <2>5, <2>6, SoundStill DEF Places
<1>2. CASE TickSkip(p)
  BY <1>2, SoundStill, IdleRemembers DEF TickSkip, Places
<1>3. CASE TickStart(p)
  <2>1. Goto(p, "quote", local[p]) /\ UNCHANGED rows /\ at[p] = "tick"
    BY <1>3 DEF TickStart
  <2>2. Remembers("quote", local[p])
    BY <1>0, <2>1 DEF Remembers
  <2> QED BY <2>1, <2>2, SoundStill DEF Places
<1>4. CASE TickQuote(p)
  <2>1. CASE Fails(p)
    BY <2>1, SoundFails
  <2>2. CASE ~Fails(p)
    <3>1. PICK l : l = IF local[p].id = 0 THEN "open" ELSE "load"
      OBVIOUS
    <3>2. Goto(p, l, local[p]) /\ UNCHANGED rows /\ at[p] = "quote"
      BY <1>4, <2>2, <3>1 DEF TickQuote, rows
    <3>3. Remembers(l, local[p])
      BY <1>0, <3>1, <3>2 DEF Remembers
    <3> QED BY <3>1, <3>2, <3>3, SoundStill DEF Places
  <2> QED BY <2>1, <2>2
<1> QED BY <1>1, <1>2, <1>3, <1>4 DEF TickStep

\* A request of the owner reads, and remembers, a position that is there.
LEMMA RequestSound ==
    ASSUME PaperSound, NEW p \in Proc, NEW job \in Requests, Request(p, job)
    PROVE  PaperSound'
<1>1. CASE job = "open" /\ Goto(p, "open", [Blank EXCEPT !.job = job])
  BY <1>1, SoundStill, IdleRemembers DEF Request, Places
<1>2. CASE \E id \in OpenPositions : Goto(p, "load", [Blank EXCEPT !.job = job, !.id = id])
  <2>0. PICK id \in OpenPositions : Goto(p, "load", [Blank EXCEPT !.job = job, !.id = id])
    BY <1>2
  <2>1. PICK v : v = [Blank EXCEPT !.job = job, !.id = id] /\ Goto(p, "load", v)
    BY <2>0
  <2>2. v.id = id /\ DOMAIN v = DOMAIN Blank
    BY <2>1 DEF Blank
  <2>3. Remembers("load", v)
    BY <2>2 DEF Remembers, OpenPositions
  <2> QED BY <2>1, <2>3, SoundStill DEF Request, Places
<1> QED BY <1>1, <1>2 DEF Request

\* The strategy's row is created, changed, or looked at.
LEMMA ManageSound ==
    ASSUME PaperSound, Manage, UNCHANGED <<subs, trades, running>>
    PROVE  PaperSound'
<1>0. StrategySound /\ strategy.peak \in Nat
  BY DEF PaperSound, RowsSound, StrategySound
<1>1. ASSUME NEW c \in Configs, NEW paper \in Modes, NEW p \in Users, UpdateRead(p, c, paper)
      PROVE  PaperSound'
  <2>1. PICK v : v = [Blank EXCEPT !.job = "update", !.config = c, !.paper = paper]
    OBVIOUS
  <2>2. /\ Goto(p, "update", v) /\ UNCHANGED rows /\ p \in Proc
        /\ v.config = c /\ Planned(c) /\ DOMAIN v = DOMAIN Blank
    BY <1>1, <2>1 DEF UpdateRead, Planned, Blank, Proc, rows
  <2>3. Remembers("update", v)
    BY <2>2 DEF Remembers
  <2> QED BY <2>2, <2>3, SoundStill DEF Places
<1>2. ASSUME NEW p \in Users, RemoveRead(p) PROVE PaperSound'
  <2>1. UNCHANGED rows /\ p \in Proc
    BY <1>2 DEF RemoveRead, Proc, rows
  <2> QED BY <1>2, <2>1, SoundStill, IdleRemembers DEF RemoveRead, Places
<1>3. ASSUME NEW p \in Users, UpdateWrite(p) PROVE PaperSound'
  <2>1. at[p] = "update" /\ p \in Proc /\ Goto(p, "idle", Blank) /\ UNCHANGED positions
    BY <1>3 DEF UpdateWrite, Proc
  <2>2. PICK c : c = local[p].config
    OBVIOUS
  <2>3. Planned(c) /\ c.budget \in Nat
    BY <2>1, <2>2, ConfigsAssumption DEF PaperSound, Remembers, Planned, Plan
  <2>4. /\ StrategySound' /\ strategy.peak <= strategy'.peak
        /\ strategy.status # "NONE" => strategy'.status # "NONE"
    <3>1. CASE Exists
      <4>1. PICK m : m = IF c.budget > strategy.peak THEN c.budget ELSE strategy.peak
        OBVIOUS
      <4>2. strategy' = [strategy EXCEPT !.config = c, !.paper = local[p].paper, !.peak = m]
        BY <1>3, <2>2, <3>1, <4>1 DEF UpdateWrite, Written
      <4> QED BY <1>0, <2>3, <3>1, <4>1, <4>2 DEF Exists, StrategySound, Affordable
    <3>2. CASE ~Exists
      <4>1. UNCHANGED strategy
        BY <1>3, <3>2 DEF UpdateWrite
      <4> QED BY <1>0, <2>1, <4>1 DEF StrategySound, Affordable
    <3> QED BY <3>1, <3>2
  <2>5. Remembers("idle", Blank)'
    BY DEF Remembers
  <2> QED BY <2>1, <2>4, <2>5, SoundQuiet DEF Places
<1>4. CASE UNCHANGED <<positions, at, local>> /\ StrategySound' /\ strategy.peak <= strategy'.peak
            /\ (strategy.status # "NONE" => strategy'.status # "NONE")
  <2>1. strategy'.peak \in Nat
    BY <1>4 DEF StrategySound
  <2>2. RowsSound' /\ LocalsStand'
    BY <1>4 DEF PaperSound, RowsSound, SubsSound, TradesSound, SubLevelsOnce, BagToSet, LocalsStand
  <2>3. ASSUME NEW q \in Proc PROVE Remembers(at[q], local[q])'
    <3>1. PICK k, w : k = at[q] /\ w = local[q]
      OBVIOUS
    <3>2. Remembers(k, w)
      BY <3>1 DEF PaperSound
    <3>3. Planned(w.config) => w.config.budget \in Nat
      BY ConfigsAssumption DEF Planned, Plan
    <3>4. w.row \in Position => w.row.cost \in Int
      BY DEF Position
    <3>5. Remembers(k, w)'
      BY <1>0, <1>4, <2>1, <3>2, <3>3, <3>4 DEF Remembers, Affordable, Planned, SubTable
    <3> QED BY <1>4, <3>1, <3>5
  <2>4. CostWithinBudget'
    <3> SUFFICES ASSUME NEW id \in OpenPositions PROVE positions[id].cost <= strategy'.peak
      BY <1>4 DEF CostWithinBudget, OpenPositions
    <3>1. positions[id].cost \in Int /\ positions[id].cost <= strategy.peak
      BY OpenCost
    <3> QED BY <1>0, <1>4, <2>1, <3>1
  <2> QED BY <2>2, <2>3, <2>4 DEF PaperSound
<1>5. ASSUME NEW c \in Configs, NEW paper \in Modes, Create(c, paper) PROVE PaperSound'
  <2>1. /\ c.budget \in Nat /\ Planned(c) /\ positions = <<>>
        /\ strategy.status = "NONE"
    BY <1>0, <1>5, ConfigsAssumption DEF Create, Planned, Plan, StrategySound
  <2>2. /\ strategy' = [status |-> "STOPPED", config |-> c, paper |-> paper, peak |-> c.budget]
        /\ UNCHANGED <<positions, at, local>>
    BY <1>5 DEF Create
  <2>3. StrategySound'
    BY <2>1, <2>2 DEF StrategySound, Affordable, Planned
  <2>4. RowsSound' /\ LocalsStand' /\ CostWithinBudget'
    BY <2>1, <2>2, <2>3 DEF PaperSound, RowsSound, SubsSound, TradesSound, SubLevelsOnce, BagToSet,
       LocalsStand,
       CostWithinBudget, OpenPositions
  <2>5. ASSUME NEW q \in Proc PROVE Remembers(at[q], local[q])'
    <3>1. PICK k, w : k = at[q] /\ w = local[q]
      OBVIOUS
    <3>2. Remembers(k, w)
      BY <3>1 DEF PaperSound
    <3>3. k \notin {"create", "load", "subs", "act"}
      BY <2>1, <3>2 DEF Remembers, Affordable
    <3>4. Remembers(k, w)'
      BY <2>2, <3>2, <3>3 DEF Remembers, Planned
    <3> QED BY <2>2, <3>1, <3>4
  <2> QED BY <2>4, <2>5 DEF PaperSound
<1>6. ASSUME NEW s \in Statuses, SetStatus(s) PROVE PaperSound'
  <2>1. strategy' = [strategy EXCEPT !.status = s] /\ UNCHANGED <<positions, at, local>>
        /\ s # "NONE" /\ strategy.status # "NONE"
    BY <1>6, StatusesAssumption DEF SetStatus, Exists
  <2>2. StrategySound' /\ strategy'.peak = strategy.peak /\ strategy'.status # "NONE"
    BY <1>0, <2>1 DEF StrategySound, Affordable
  <2> QED BY <1>0, <1>4, <2>1, <2>2
<1> QED BY <1>1, <1>2, <1>3, <1>5, <1>6 DEF Manage

-----------------------------------------------------------------------------
(* Steps that write positions *)

\* Trades are added, none of a sub-position bought before.
LEMMA TradesMore ==
    ASSUME TradesSound, NEW S, IsFiniteSet(S), trades' = trades (+) SetToBag(S),
           DOMAIN positions \subseteq DOMAIN positions', DOMAIN subs \subseteq DOMAIN subs',
           \A x \in S : /\ x.pos \in DOMAIN positions' /\ x.cost \in Nat
                        /\ OfSub(x) => /\ S = {x}
                                       /\ <<x.pos, x.level>> \in DOMAIN subs' \ DOMAIN subs
    PROVE  TradesSound'
<1>1. /\ DOMAIN trades' = DOMAIN trades \union S
      /\ \A t \in DOMAIN trades' : trades'[t] = (IF t \in DOMAIN trades THEN trades[t] ELSE 0)
                                               + (IF t \in S THEN 1 ELSE 0)
  BY DEF SetToBag, (+)
<1>2. IsFiniteSet(DOMAIN trades')
  <2>1. IsFiniteSet(DOMAIN trades \union S)
    BY FS_Union DEF TradesSound
  <2> QED BY <1>1, <2>1
<1>3. ASSUME NEW t \in DOMAIN trades'
      PROVE  /\ trades'[t] \in Nat \ {0} /\ t.pos \in DOMAIN positions' /\ t.cost \in Nat
             /\ OfSub(t) => <<t.pos, t.level>> \in DOMAIN subs'
  <2>1. t \in DOMAIN trades => trades[t] \in Nat \ {0}
    BY DEF TradesSound
  <2>2. trades'[t] \in Nat \ {0}
    BY <1>1, <2>1
  <2> QED BY <1>1, <2>2 DEF TradesSound
<1>4. SubLevelsOnce'
  <2> SUFFICES ASSUME NEW t \in DOMAIN trades', NEW u \in DOMAIN trades', OfSub(t), OfSub(u),
                      t.pos = u.pos, t.level = u.level
               PROVE  t = u /\ trades'[t] = 1
    BY DEF SubLevelsOnce, BagToSet
  <2>1. CASE t \in S \/ u \in S
    <3>1. PICK x \in S : x = t \/ x = u
      BY <2>1
    <3>2. <<x.pos, x.level>> \notin DOMAIN subs /\ S = {x}
      BY <3>1
    <3>3. t \notin DOMAIN trades /\ u \notin DOMAIN trades
      BY <3>1, <3>2 DEF TradesSound
    <3>4. t = u /\ t \in S
      BY <1>1, <3>2, <3>3
    <3>5. trades'[t] = 0 + 1
      BY <1>1, <3>3, <3>4
    <3> QED BY <3>4, <3>5
  <2>2. CASE t \notin S /\ u \notin S
    <3>1. t = u /\ trades[t] = 1
      BY <1>1, <2>2 DEF TradesSound, SubLevelsOnce, BagToSet
    <3>2. trades'[t] = trades[t] + 0
      BY <1>1, <2>2
    <3> QED BY <3>1, <3>2
  <2> QED BY <2>1, <2>2
<1> QED BY <1>2, <1>3, <1>4 DEF TradesSound

\* A step of one process that writes positions, sub-positions and trades.
LEMMA SoundWrites ==
    ASSUME PaperSound, NEW p \in Proc, NEW l \in Places, NEW v, Goto(p, l, v),
           UNCHANGED strategy, strategy.status # "NONE", SubsSound', TradesSound',
           positions' \in Seq(Position), DOMAIN positions \subseteq DOMAIN positions',
           \A i \in DOMAIN positions' : positions'[i].status = "OPEN" =>
                                           positions'[i].cost <= strategy.peak,
           Remembers(l, v)'
    PROVE  PaperSound'
<1>1. strategy.peak \in Nat
  BY DEF PaperSound, RowsSound, StrategySound
<1>2. LocalsStand' /\ \A q \in Proc : Remembers(at[q], local[q])'
  BY <1>1, RemembersOn
<1>3. RowsSound'
  BY DEF PaperSound, RowsSound, StrategySound, Affordable, Planned
<1>4. CostWithinBudget'
  BY DEF CostWithinBudget, OpenPositions
<1> QED BY <1>2, <1>3, <1>4 DEF PaperSound

\* One position's row is written.
LEMMA RowWrites ==
    ASSUME PaperSound, NEW id \in DOMAIN positions, NEW row \in Position,
           positions' = [positions EXCEPT ![id] = row],
           row.status = "OPEN" => row.cost <= strategy.peak
    PROVE  /\ positions' \in Seq(Position) /\ DOMAIN positions' = DOMAIN positions
           /\ strategy.status # "NONE"
           /\ \A i \in DOMAIN positions' : positions'[i].status = "OPEN" =>
                                               positions'[i].cost <= strategy.peak
<1>1. positions \in Seq(Position) /\ StrategySound
  BY DEF PaperSound, RowsSound
<1>2. positions' \in Seq(Position) /\ DOMAIN positions' = DOMAIN positions
  BY <1>1
<1>3. strategy.status # "NONE"
  BY <1>1 DEF StrategySound
<1>4. ASSUME NEW i \in DOMAIN positions, positions'[i].status = "OPEN"
      PROVE  positions'[i].cost <= strategy.peak
  BY <1>1, <1>4 DEF PaperSound, CostWithinBudget, OpenPositions
<1> QED BY <1>2, <1>3, <1>4

\* Opening: the plan of a strategy that was read is within its budget.
LEMMA OpenSound ==
    ASSUME PaperSound, NEW p \in Proc, OpenCheck(p) \/ OpenRefuse(p) \/ OpenCreate(p)
    PROVE  PaperSound'
<1>0. RowsSound /\ Remembers(at[p], local[p]) /\ strategy.peak \in Nat
  BY DEF PaperSound, RowsSound, StrategySound
<1>1. CASE OpenCheck(p)
  <2>1. PICK v : v = [local[p] EXCEPT !.config = strategy.config]
    OBVIOUS
  <2>2. Goto(p, "create", v) /\ UNCHANGED rows /\ Exists
    BY <1>1, <2>1 DEF OpenCheck
  <2>3. v.config = strategy.config /\ DOMAIN v = DOMAIN Blank
    BY <1>0, <2>1 DEF Blank, Remembers
  <2>4. Remembers("create", v)
    BY <1>0, <2>2, <2>3 DEF Remembers, RowsSound, StrategySound, Exists
  <2> QED BY <2>2, <2>4, SoundStill DEF Places
<1>2. CASE Fails(p)
  BY <1>2, SoundFails
<1>3. CASE OpenCreate(p) /\ Exists
  <2>1. PICK c, id, a : /\ c = local[p].config /\ id = Len(positions) + 1
                        /\ a = BuildPlan(c)[1]
    OBVIOUS
  <2>2. Affordable(c) /\ positions \in Seq(Position)
    BY <1>0, <1>3, <2>1 DEF OpenCreate, Remembers, RowsSound
  <2>3. c \in Plan /\ c.budget % Unit = 0 /\ c.budget \in Nat
    BY <2>2, ConfigsAssumption DEF Affordable, Planned, Plan
  <2>4. a.quote \in Nat /\ a.quote <= strategy.peak
    <3>1. Len(BuildPlan(c)) \in Nat /\ DOMAIN BuildPlan(c) = 1..Len(BuildPlan(c))
      BY <2>3, PlanType
    <3>2. 1 \in 1..Len(BuildPlan(c))
      <4> SUFFICES ASSUME Len(BuildPlan(c)) = 0 PROVE FALSE
        BY <3>1
      <4>1. DOMAIN BuildPlan(c) = {}
        BY <3>1
      <4>2. BuildPlan(c) = [n \in {} |-> {}]
        BY <4>1 DEF BuildPlan
      <4> QED BY <2>2, <4>2 DEF Affordable, Planned
    <3>3. a.quote \in Nat /\ a.quote <= c.budget
      BY <2>1, <2>3, <3>2, PlanType
    <3> QED BY <1>0, <2>2, <2>3, <3>3 DEF Affordable
  <2>5. PICK row : row = [status |-> "OPEN", qty |-> 1, cost |-> a.quote, dca |-> 0,
                          next |-> Len(BuildPlan(c)) > 1, tp |-> TRUE]
    OBVIOUS
  <2>6. /\ positions' = Append(positions, row)
        /\ trades' = trades (+) SetToBag({Bought(p, id, 1, a)})
        /\ Goto(p, "idle", Blank) /\ UNCHANGED <<strategy, subs>>
    BY <1>3, <2>1, <2>5 DEF OpenCreate, Finish
  <2>7. row \in Position /\ row.cost = a.quote
    BY <2>4, <2>5 DEF Position
  <2>8. /\ positions' \in Seq(Position) /\ DOMAIN positions' = DOMAIN positions \union {id}
        /\ \A i \in DOMAIN positions : positions'[i] = positions[i]
        /\ positions'[id] = row
    BY <2>1, <2>2, <2>6, <2>7
  <2>9. ASSUME NEW i \in DOMAIN positions', positions'[i].status = "OPEN"
        PROVE  positions'[i].cost <= strategy.peak
    <3>1. CASE i = id
      BY <2>4, <2>7, <2>8, <3>1
    <3>2. CASE i # id
      BY <2>8, <2>9, <3>2 DEF PaperSound, CostWithinBudget, OpenPositions
    <3> QED BY <3>1, <3>2
  <2>10. SubsSound'
    <3>1. PICK D, E : D = DOMAIN positions /\ E = DOMAIN positions'
      OBVIOUS
    <3>2. D \X Nat \subseteq E \X Nat
      BY <2>8, <3>1
    <3>3. ASSUME NEW s \in DOMAIN subs PROVE s \in E \X Nat /\ subs[s] \in Sub
      <4>1. s \in D \X Nat /\ subs[s] \in Sub
        BY <1>0, <3>1 DEF RowsSound, SubsSound
      <4> QED BY <3>2, <4>1
    <3>4. IsFiniteSet(DOMAIN subs) /\ UNCHANGED subs
      BY <1>0, <2>6 DEF RowsSound, SubsSound
    <3> QED BY <3>1, <3>3, <3>4 DEF SubsSound
  <2>11. TradesSound'
    <3>1. PICK x : x = Bought(p, id, 1, a)
      OBVIOUS
    <3>2. x.pos = id /\ x.cost = a.quote /\ x.level = 1
      BY <3>1 DEF Bought
    <3>3. ~OfSub(x) /\ x.pos \in DOMAIN positions' /\ x.cost \in Nat
      BY <2>4, <2>8, <3>2 DEF OfSub
    <3>4. IsFiniteSet({x}) /\ trades' = trades (+) SetToBag({x})
      BY <2>6, <3>1, FS_Singleton
    <3> QED BY <1>0, <2>6, <2>8, <3>3, <3>4, TradesMore DEF RowsSound
  <2>12. Remembers("idle", Blank)'
    BY DEF Remembers
  <2> QED BY <1>3, <2>6, <2>8, <2>9, <2>10, <2>11, <2>12, SoundWrites DEF Places, Exists
<1> QED BY <1>1, <1>2, <1>3 DEF OpenRefuse, OpenCreate

\* The sub-positions of a position are a finite table, by level.
LEMMA SubsTable == ASSUME SubsSound, NEW id PROVE SubTable(SubsOf(id))
<1> DEFINE L == {n \in Levels : <<id, n>> \in DOMAIN subs}
<1>1. IsFiniteSet(L)
  <2>1. IsFiniteSet(Levels)
    <3>1. [s \in DOMAIN subs |-> s[2]] \in Surjection(DOMAIN subs, Levels)
      BY DEF Surjection, Levels
    <3> QED BY <3>1, FS_Surjection DEF SubsSound
  <2> QED BY <2>1, FS_Subset
<1>2. \A n \in L : n \in Nat /\ subs[<<id, n>>] \in Sub
  BY DEF SubsSound
<1> QED BY <1>1, <1>2 DEF SubTable, SubsOf

\* A position and the strategy's parameters are read, or nothing is done.
LEMMA LoadSound ==
    ASSUME PaperSound, NEW p \in Proc, Load(p) \/ Hold(p)
    PROVE  PaperSound'
<1>1. CASE Fails(p)
  BY <1>1, SoundFails
<1>2. CASE ~Fails(p)
  <2>0. RowsSound /\ Remembers("load", local[p]) /\ Load(p)
    BY <1>2 DEF Load, Hold, PaperSound
  <2>1. PICK id, l, v : /\ id = local[p].id
                        /\ l = IF local[p].job = "tick" THEN "subs" ELSE "act"
                        /\ v = [local[p] EXCEPT !.row = positions[id], !.subs = SubsOf(id),
                                                !.config = strategy.config]
    OBVIOUS
  <2>2. Goto(p, l, v) /\ UNCHANGED rows /\ positions[id].status = "OPEN"
    BY <1>2, <2>0, <2>1 DEF Load
  <2>3. /\ DOMAIN v = DOMAIN Blank /\ v.id = id /\ v.row = positions[id]
        /\ v.subs = SubsOf(id) /\ v.config = strategy.config
    BY <2>0, <2>1 DEF Remembers, Blank
  <2>4. id \in DOMAIN positions /\ positions \in Seq(Position)
    BY <2>0, <2>1 DEF Remembers, RowsSound
  <2>5. positions[id] \in Position /\ positions[id].cost <= strategy.peak
    BY <2>2, <2>4 DEF PaperSound, CostWithinBudget, OpenPositions
  <2>6. Affordable(strategy.config)
    BY <2>0, <2>4 DEF RowsSound, StrategySound
  <2>7. SubTable(SubsOf(id))
    BY <2>0, SubsTable DEF RowsSound
  <2>8. Remembers(l, v)
    BY <2>1, <2>3, <2>4, <2>5, <2>6, <2>7 DEF Remembers
  <2> QED BY <2>1, <2>2, <2>8, SoundStill DEF Places
<1> QED BY <1>1, <1>2

\* Sub-positions are sold.
LEMMA CloseSubsSound ==
    ASSUME PaperSound, NEW p \in Proc, CloseSubs(p)
    PROVE  PaperSound'
<1>0. RowsSound /\ Remembers("subs", local[p]) /\ strategy.peak \in Nat
  BY DEF CloseSubs, PaperSound, RowsSound, StrategySound
<1>1. CASE Fails(p)
  BY <1>1, SoundFails
<1>2. CASE Goto(p, "act", local[p]) /\ UNCHANGED rows
  <2>1. Remembers("act", local[p])
    BY <1>0 DEF Remembers
  <2> QED BY <1>2, <2>1, SoundStill DEF Places
<1>3. ASSUME NEW closing \in SUBSET OpenSubs(local[p].subs), SellSubs(p, closing), ~Fails(p)
      PROVE  PaperSound'
  <2>1. PICK id, old, q, c : /\ id = local[p].id /\ old = positions[id]
                             /\ q = Without(local[p].row, local[p].subs, closing).qty
                             /\ c = Without(local[p].row, local[p].subs, closing).cost
    OBVIOUS
  <2>2. PICK b, row : b = (q > 0) /\ row = [old EXCEPT !.qty = q, !.cost = c, !.tp = b]
    OBVIOUS
  <2>3. PICK closed : closed = [s \in DOMAIN subs |->
                         IF s[1] = id /\ s[2] \in closing
                         THEN [subs[s] EXCEPT !.status = "CLOSED"] ELSE subs[s]]
    OBVIOUS
  <2>4. PICK v : v = Refreshed(local[p], row, [l \in DOMAIN SubsOf(id) |-> closed[<<id, l>>]])
    OBVIOUS
  <2>5. PICK S : S = {Sold(p, id, l, TRUE, 1) : l \in closing}
    OBVIOUS
  <2>6. /\ positions' = [positions EXCEPT ![id] = row] /\ subs' = closed
        /\ trades' = trades (+) SetToBag(S) /\ Goto(p, "act", v) /\ UNCHANGED strategy
    BY <1>3, <2>1, <2>2, <2>3, <2>4, <2>5 DEF SellSubs
  <2>7. /\ id \in DOMAIN positions /\ positions \in Seq(Position) /\ local[p].row \in Position
        /\ local[p].row.cost <= strategy.peak /\ DOMAIN local[p] = DOMAIN Blank
    BY <1>0, <2>1 DEF Remembers, RowsSound
  <2>8. IsFiniteSet(closing) /\ Cardinality(closing) \in Nat
        /\ Total([l \in closing |-> local[p].subs[l].cost]) \in Nat
    <3>1. SubTable(local[p].subs) /\ closing \subseteq DOMAIN local[p].subs
      BY <1>0 DEF Remembers, OpenSubs
    <3>2. IsFiniteSet(closing)
      BY <3>1, FS_Subset DEF SubTable
    <3>3. [l \in closing |-> local[p].subs[l].cost] \in [closing -> Nat]
      BY <3>1 DEF SubTable, Sub
    <3> QED BY <3>2, <3>3, TotalType, FS_CardinalityType
  <2>9. q \in Int /\ c \in Int /\ c <= strategy.peak
    <3>1. local[p].row.qty \in Int /\ local[p].row.cost \in Int
      BY <2>7 DEF Position
    <3>2. PICK k, t : /\ k = Cardinality(closing)
                      /\ t = Total([l \in closing |-> local[p].subs[l].cost])
      OBVIOUS
    <3>3. /\ q = local[p].row.qty - k
          /\ c = local[p].row.cost - t
      BY <2>1, <2>7, <3>2 DEF Without, Position
    <3> QED BY <1>0, <2>7, <2>8, <3>1, <3>2, <3>3
  <2>10. old \in Position
    BY <2>1, <2>7
  <2>11. row \in Position /\ row.cost = c
    <3>1. b \in BOOLEAN
      BY <2>2
    <3> QED BY <2>2, <2>9, <2>10, <3>1 DEF Position
  <2>12. /\ positions' \in Seq(Position) /\ DOMAIN positions' = DOMAIN positions
         /\ strategy.status # "NONE"
         /\ \A i \in DOMAIN positions' : positions'[i].status = "OPEN" =>
                                             positions'[i].cost <= strategy.peak
    BY <2>6, <2>7, <2>9, <2>11, RowWrites
  <2>13. SubsSound'
    <3>1. \A s \in DOMAIN subs : closed[s] \in Sub
      <4> SUFFICES ASSUME NEW s \in DOMAIN subs PROVE closed[s] \in Sub
        OBVIOUS
      <4>1. PICK e : e = subs[s]
        OBVIOUS
      <4>2. e \in Sub
        BY <1>0, <4>1 DEF RowsSound, SubsSound
      <4>3. [e EXCEPT !.status = "CLOSED"] \in Sub
        BY <4>2 DEF Sub
      <4> QED BY <2>3, <4>1, <4>2, <4>3
    <3> QED BY <1>0, <2>3, <2>6, <2>12, <3>1 DEF RowsSound, SubsSound
  <2>14. TradesSound'
    <3>1. IsFiniteSet(S)
      <4>1. [l \in closing |-> Sold(p, id, l, TRUE, 1)] \in Surjection(closing, S)
        BY <2>5 DEF Surjection
      <4> QED BY <2>8, <4>1, FS_Surjection
    <3>2. \A x \in S : x.pos = id /\ x.cost = 0 /\ ~OfSub(x)
      BY <2>5 DEF Sold, OfSub
    <3>3. DOMAIN subs' = DOMAIN subs
      BY <2>3, <2>6
    <3> QED BY <1>0, <2>6, <2>7, <2>12, <3>1, <3>2, <3>3, TradesMore DEF RowsSound
  <2>15. Remembers("act", v)'
    <3>1. v.id = id /\ v.row = row /\ v.config = strategy.config /\ DOMAIN v = DOMAIN Blank
      BY <2>1, <2>4, <2>7 DEF Refreshed, Blank
    <3>2. Affordable(strategy.config)
      BY <1>0, <2>12 DEF RowsSound, StrategySound
    <3> QED BY <2>6, <2>7, <2>9, <2>11, <2>12, <3>1, <3>2 DEF Remembers, Affordable, Planned
  <2> QED BY <2>6, <2>12, <2>13, <2>14, <2>15, SoundWrites DEF Places
<1> QED BY <1>1, <1>2, <1>3 DEF CloseSubs

\* A purchase within the budget, of a level not bought as a sub-position before.
LEMMA DcaSound ==
    ASSUME PaperSound, NEW p \in Proc, Remembers("act", local[p]), ExecuteDca(p)
    PROVE  PaperSound'
<1>0. RowsSound /\ strategy.peak \in Nat
  BY DEF PaperSound, RowsSound, StrategySound
<1>1. CASE Fails(p)
  BY <1>1, SoundFails
<1>2. CASE ~Fails(p)
  <2>1. PICK id, r, c, plan : /\ id = local[p].id /\ r = local[p].row
                              /\ c = local[p].config /\ plan = BuildPlan(c)
    OBVIOUS
  <2>2. PICK level, a, old : level = r.dca + 2 /\ a = plan[level] /\ old = positions[id]
    OBVIOUS
  <2>3. PICK more, row : /\ more = (level < Len(plan))
                         /\ row = [old EXCEPT !.qty = r.qty + 1, !.cost = r.cost + a.quote,
                                              !.dca = r.dca + 1, !.next = more, !.tp = TRUE]
    OBVIOUS
  <2>4. /\ level <= Len(plan) /\ WithinBudget(a.quote, r.cost, c.budget)
        /\ a.independent => UniqueLevel(id, level)
        /\ positions' = [positions EXCEPT ![id] = row]
        /\ subs' = IF a.independent
                   THEN [s \in DOMAIN subs \union {<<id, level>>} |->
                            IF s = <<id, level>> THEN [status |-> "OPEN", cost |-> a.quote]
                            ELSE subs[s]]
                   ELSE subs
        /\ trades' = trades (+) SetToBag({Bought(p, id, level, a)})
        /\ Goto(p, "idle", Blank) /\ UNCHANGED strategy
    BY <1>2, <2>1, <2>2, <2>3 DEF ExecuteDca, Finish
  <2>5. /\ id \in DOMAIN positions /\ positions \in Seq(Position) /\ r \in Position
        /\ Affordable(c) /\ c \in Plan /\ c.budget % Unit = 0 /\ c.budget \in Nat
    BY <1>0, <2>1, ConfigsAssumption DEF Remembers, RowsSound, Affordable, Planned, Plan
  <2>6. level \in Nat /\ level > 1
    BY <2>2, <2>5 DEF Position
  <2>7. a.quote \in Nat /\ r.cost + a.quote <= strategy.peak
    <3>1. Len(plan) \in Nat /\ level \in 1..Len(plan)
      BY <2>1, <2>4, <2>5, <2>6, PlanType
    <3>2. a.quote \in Nat
      BY <2>1, <2>2, <2>5, <3>1, PlanType
    <3>3. r.cost \in Int /\ r.cost + a.quote <= c.budget /\ c.budget <= strategy.peak
      BY <2>4, <2>5 DEF Position, WithinBudget, Affordable
    <3> QED BY <1>0, <2>5, <3>2, <3>3
  <2>8. row \in Position /\ row.cost = r.cost + a.quote
    <3>1. old \in Position /\ more \in BOOLEAN
      BY <2>2, <2>3, <2>5
    <3>2. r.qty + 1 \in Int /\ r.cost + a.quote \in Int /\ r.dca + 1 \in Nat
      <4>1. r.qty \in Int /\ r.cost \in Int /\ r.dca \in Nat
        BY <2>5 DEF Position
      <4> QED BY <2>7, <4>1
    <3> QED BY <2>3, <3>1, <3>2 DEF Position
  <2>9. /\ positions' \in Seq(Position) /\ DOMAIN positions' = DOMAIN positions
        /\ strategy.status # "NONE"
        /\ \A i \in DOMAIN positions' : positions'[i].status = "OPEN" =>
                                            positions'[i].cost <= strategy.peak
    BY <2>4, <2>5, <2>7, <2>8, RowWrites
  <2>10. /\ SubsSound' /\ DOMAIN subs \subseteq DOMAIN subs'
         /\ a.independent => <<id, level>> \in DOMAIN subs' \ DOMAIN subs
    <3>1. PICK s, e : s = <<id, level>> /\ e = [status |-> "OPEN", cost |-> a.quote]
      OBVIOUS
    <3>2. s \in (DOMAIN positions) \X Nat /\ e \in Sub
      BY <2>5, <2>6, <2>7, <3>1 DEF Sub
    <3>3. SubsSound
      BY <1>0 DEF RowsSound
    <3>4. CASE a.independent
      <4>1. subs' = [k \in DOMAIN subs \union {s} |-> IF k = s THEN e ELSE subs[k]]
        BY <2>4, <3>1, <3>4
      <4>2. IsFiniteSet(DOMAIN subs \union {s})
        BY <3>3, FS_AddElement DEF SubsSound
      <4>3. SubsSound'
        BY <2>9, <3>2, <3>3, <4>1, <4>2 DEF SubsSound
      <4> QED BY <2>4, <3>1, <3>4, <4>1, <4>3 DEF UniqueLevel
    <3>5. CASE ~a.independent
      BY <2>4, <2>9, <3>3, <3>5 DEF SubsSound
    <3> QED BY <3>4, <3>5
  <2>11. TradesSound'
    <3>1. PICK x : x = Bought(p, id, level, a)
      OBVIOUS
    <3>2. /\ x.pos = id /\ x.cost = a.quote /\ x.level = level
          /\ x.independent = a.independent
      BY <3>1 DEF Bought
    <3>3. IsFiniteSet({x}) /\ trades' = trades (+) SetToBag({x})
      BY <2>4, <3>1, FS_Singleton
    <3>4. OfSub(x) => <<x.pos, x.level>> \in DOMAIN subs' \ DOMAIN subs
      BY <2>10, <3>2 DEF OfSub
    <3> QED BY <1>0, <2>5, <2>7, <2>9, <2>10, <3>2, <3>3, <3>4, TradesMore DEF RowsSound
  <2>12. Remembers("idle", Blank)'
    BY DEF Remembers
  <2> QED BY <2>4, <2>9, <2>10, <2>11, <2>12, SoundWrites DEF Places
<1> QED BY <1>1, <1>2

\* A position is closed with its sub-positions.
LEMMA CloseSound ==
    ASSUME PaperSound, NEW p \in Proc, Remembers("act", local[p]), ExecuteClose(p)
    PROVE  PaperSound'
<1>0. RowsSound
  BY DEF PaperSound
<1>1. CASE Fails(p)
  BY <1>1, SoundFails
<1>2. CASE ~Fails(p)
  <2>1. PICK id, old : id = local[p].id /\ old = positions[id]
    OBVIOUS
  <2>2. PICK row, x : /\ row = [old EXCEPT !.status = "CLOSED", !.next = FALSE, !.tp = FALSE]
                      /\ x = Sold(p, id, local[p].row.dca + 2, FALSE, local[p].row.qty)
    OBVIOUS
  <2>3. /\ positions' = [positions EXCEPT ![id] = row]
        /\ subs' = [s \in DOMAIN subs |->
                       IF s[1] = id THEN [subs[s] EXCEPT !.status = "CLOSED"] ELSE subs[s]]
        /\ trades' = trades (+) SetToBag({x})
        /\ Goto(p, "idle", Blank) /\ UNCHANGED strategy
    BY <1>2, <2>1, <2>2 DEF ExecuteClose, Finish
  <2>4. id \in DOMAIN positions /\ positions \in Seq(Position)
    BY <1>0, <2>1 DEF Remembers, RowsSound
  <2>5. row \in Position /\ row.status = "CLOSED"
    <3>1. old \in Position
      BY <2>1, <2>4
    <3> QED BY <2>2, <3>1 DEF Position
  <2>6. /\ positions' \in Seq(Position) /\ DOMAIN positions' = DOMAIN positions
        /\ strategy.status # "NONE"
        /\ \A i \in DOMAIN positions' : positions'[i].status = "OPEN" =>
                                            positions'[i].cost <= strategy.peak
    BY <2>3, <2>4, <2>5, RowWrites
  <2>7. SubsSound'
    <3>1. \A s \in DOMAIN subs : subs'[s] \in Sub
      <4> SUFFICES ASSUME NEW s \in DOMAIN subs PROVE subs'[s] \in Sub
        OBVIOUS
      <4>1. PICK e : e = subs[s]
        OBVIOUS
      <4>2. e \in Sub
        BY <1>0, <4>1 DEF RowsSound, SubsSound
      <4>3. [e EXCEPT !.status = "CLOSED"] \in Sub
        BY <4>2 DEF Sub
      <4> QED BY <2>3, <4>1, <4>2, <4>3
    <3> QED BY <1>0, <2>3, <2>6, <3>1 DEF RowsSound, SubsSound
  <2>8. TradesSound'
    <3>1. x.pos = id /\ x.cost = 0 /\ ~OfSub(x)
      BY <2>2 DEF Sold, OfSub
    <3>2. IsFiniteSet({x}) /\ DOMAIN subs' = DOMAIN subs /\ TradesSound
      BY <1>0, <2>3, FS_Singleton DEF RowsSound
    <3>3. /\ trades' = trades (+) SetToBag({x}) /\ DOMAIN positions \subseteq DOMAIN positions'
          /\ x.pos \in DOMAIN positions' /\ x.cost \in Nat
      BY <2>3, <2>4, <2>6, <3>1
    <3> QED BY <3>1, <3>2, <3>3, TradesMore
  <2>9. Remembers("idle", Blank)'
    BY DEF Remembers
  <2> QED BY <2>3, <2>6, <2>7, <2>8, <2>9, SoundWrites DEF Places
<1> QED BY <1>1, <1>2

\* A step on a position keeps the rows sound, whichever it is.
LEMMA PositionSound == ASSUME PaperSound, NEW p \in Proc, PositionStep(p) PROVE PaperSound'
<1>1. CASE TakeProfit(p) \/ Dca(p)
  <2>1. Remembers("act", local[p]) /\ (ExecuteClose(p) \/ ExecuteDca(p))
    BY <1>1 DEF TakeProfit, Dca, PaperSound
  <2> QED BY <2>1, DcaSound, CloseSound
<1>2. CASE ~(TakeProfit(p) \/ Dca(p))
  BY <1>2, OpenSound, LoadSound, CloseSubsSound DEF PositionStep
<1> QED BY <1>1, <1>2

\* The strategy is removed: its positions are, and nothing hangs on them.
LEMMA RemovedSound == ASSUME PaperSound, NEW p \in Users, Removed(p) PROVE PaperSound'
<1>0. p \in Proc /\ RowsSound /\ strategy.peak \in Nat /\ Goto(p, "idle", Blank)
  BY DEF PaperSound, RowsSound, StrategySound, Removed, RemoveDelete, Proc
<1>1. CASE ~Exists
  <2>1. UNCHANGED rows /\ DOMAIN Blank = DOMAIN Blank
    BY <1>1 DEF Removed, RemoveDelete, rows
  <2> QED BY <1>0, <2>1, SoundStill, IdleRemembers DEF Places
<1>2. CASE Exists
  <2>1. /\ strategy' = [strategy EXCEPT !.status = "DELETED"]
        /\ positions' = [i \in DOMAIN positions |-> [NoPosition EXCEPT !.status = "DELETED"]]
        /\ subs' = <<>> /\ trades' = EmptyBag
    BY <1>2 DEF Removed, RemoveDelete
  <2>2. /\ positions' \in Seq(Position) /\ DOMAIN positions' = DOMAIN positions
        /\ \A i \in DOMAIN positions' : positions'[i].status = "DELETED"
    <3>1. PICK row : row = [NoPosition EXCEPT !.status = "DELETED"]
      OBVIOUS
    <3>2. row \in Position /\ row.status = "DELETED"
      <4>1. NoPosition \in Position
        BY DEF NoPosition, Position
      <4> QED BY <3>1, <4>1 DEF Position
    <3>3. Len(positions) \in Nat /\ DOMAIN positions = 1..Len(positions)
      BY <1>0 DEF RowsSound
    <3>4. positions' = [i \in 1..Len(positions) |-> row]
      BY <2>1, <3>1, <3>3
    <3> QED BY <3>2, <3>3, <3>4
  <2>3. strategy.status # "NONE" /\ Affordable(strategy.config)
    BY <1>0, <1>2 DEF Exists, RowsSound, StrategySound
  <2>4. StrategySound' /\ strategy'.peak = strategy.peak /\ strategy'.status # "NONE"
    BY <1>0, <1>2, <2>1, <2>3 DEF StrategySound, Affordable, Exists
  <2>5. DOMAIN subs' = {} /\ DOMAIN trades' = {}
    BY <2>1 DEF EmptyBag, SetToBag
  <2>6. SubsSound' /\ TradesSound' /\ CostWithinBudget'
    BY <2>2, <2>5, FS_EmptySet DEF SubsSound, TradesSound, SubLevelsOnce, BagToSet,
       CostWithinBudget, OpenPositions
  <2>7. Remembers("idle", Blank)'
    BY DEF Remembers
  <2>8. LocalsStand' /\ \A q \in Proc : Remembers(at[q], local[q])'
    BY <1>0, <2>2, <2>4, <2>7, RemembersOn DEF Places
  <2> QED BY <2>2, <2>4, <2>6, <2>8 DEF PaperSound, RowsSound
<1> QED BY <1>1, <1>2

\* A restart forgets what was read and leaves the rows alone.
LEMMA RestartSound == ASSUME PaperSound, Restart PROVE PaperSound'
<1>1. UNCHANGED <<strategy, positions, subs, trades>>
  BY DEF Restart, rows
<1>2. RowsSound' /\ CostWithinBudget'
  BY <1>1 DEF PaperSound, RowsSound, StrategySound, Affordable, Planned, SubsSound, TradesSound,
     SubLevelsOnce, BagToSet, CostWithinBudget, OpenPositions
<1>3. at' = [p \in Proc |-> "idle"] /\ local' = [p \in Proc |-> Blank]
  BY DEF Restart
<1>4. LocalsStand' /\ \A q \in Proc : Remembers(at[q], local[q])'
  BY <1>3 DEF LocalsStand, Places, Remembers
<1> QED BY <1>2, <1>4 DEF PaperSound

\* The invariant of the paper trading's rows and of what processes read of them.
THEOREM PaperStands == Spec => []PaperSound
<1>1. Init => PaperSound
  <2> SUFFICES ASSUME Init PROVE PaperSound
    OBVIOUS
  <2>1. /\ strategy = [status |-> "NONE", config |-> AnyConfig, paper |-> TRUE, peak |-> 0]
        /\ positions = <<>> /\ subs = <<>> /\ trades = EmptyBag
        /\ at = [p \in Proc |-> "idle"] /\ local = [p \in Proc |-> Blank]
    BY DEF Init
  <2>2. DOMAIN subs = {} /\ DOMAIN trades = {} /\ DOMAIN positions = {}
    BY <2>1 DEF EmptyBag, SetToBag
  <2>3. RowsSound /\ CostWithinBudget
    BY <2>1, <2>2, FS_EmptySet DEF RowsSound, StrategySound, SubsSound, TradesSound,
       SubLevelsOnce, BagToSet, CostWithinBudget, OpenPositions
  <2>4. LocalsStand /\ \A q \in Proc : Remembers(at[q], local[q])
    BY <2>1 DEF LocalsStand, Places, Remembers
  <2> QED BY <2>3, <2>4 DEF PaperSound
<1>2. PaperSound /\ [Next]_vars => PaperSound'
  <2> SUFFICES ASSUME PaperSound, [Next]_vars PROVE PaperSound'
    OBVIOUS
  <2>1. CASE UNCHANGED vars
    BY <2>1 DEF vars, PaperSound, RowsSound, StrategySound, Affordable, Planned, SubsSound,
       TradesSound, SubLevelsOnce, BagToSet, CostWithinBudget, OpenPositions, LocalsStand,
       Remembers, SubTable
  <2>2. CASE Next
    BY <2>2, ManageSound, RemovedSound, RequestSound, TickSound, PositionSound, RestartSound
       DEF Next
  <2> QED BY <2>1, <2>2
<1> QED BY <1>1, <1>2, PTL DEF Spec

\* What a position costs stays within the largest budget its strategy has had,
\* for any plan: assertWithinBudget sees to it at every purchase but the first,
\* and the plan at the first.
THEOREM BudgetKept == Spec => []CostWithinBudget
<1>1. PaperSound => CostWithinBudget
  BY DEF PaperSound
<1> QED BY <1>1, PaperStands, PTL

\* A level is bought as a sub-position once: its row stays when it is closed.
THEOREM LevelsOnce == Spec => []SubLevelsOnce
<1>1. PaperSound => SubLevelsOnce
  BY DEF PaperSound, RowsSound, TradesSound
<1> QED BY <1>1, PaperStands, PTL

-----------------------------------------------------------------------------
(* The books of the positions only the runner has traded *)

Runners(id) == id \in DOMAIN positions /\ ~ByHand(id) /\ positions[id].status # "DELETED"

Held(id) == Quantity(BoughtIn(id)) - Quantity(SoldIn(id))
Returned(id) == Total([l \in ClosedSubs(id) |-> subs[<<id, l>>].cost])
Backing(id) == Cardinality(OpenSubs(SubsOf(id)))

\* What an open sub-position holds is beside what the position itself does.
Kept(id) ==
    /\ \A t \in Of(id) : t.qty \in Nat
    /\ IF positions[id].status = "OPEN"
       THEN /\ Backing(id) < positions[id].qty
            /\ positions[id].qty = Held(id)
            /\ positions[id].cost = Paid(BoughtIn(id)) - Returned(id)
       ELSE Held(id) = 0

\* What a tick at l with locals v has read of a position is what is there.
Fresh(l, v) ==
    l \in {"subs", "act"} /\ Runners(v.id) =>
        /\ positions[v.id].status = "OPEN"
        /\ v.row = positions[v.id]
        /\ l = "subs" => v.subs = SubsOf(v.id)

BooksKept ==
    /\ \A id \in DOMAIN positions : Runners(id) => Kept(id)
    /\ \A p \in Ticks : Fresh(at[p], local[p])

\* Nothing of a position or of what hangs on it changes.
Rests(id) ==
    /\ id \in DOMAIN positions /\ id \in DOMAIN positions' /\ positions'[id] = positions[id]
    /\ \A t : t.pos = id => /\ t \in DOMAIN trades' <=> t \in DOMAIN trades
                            /\ t \in DOMAIN trades => trades'[t] = trades[t]
    /\ \A l : /\ <<id, l>> \in DOMAIN subs' <=> <<id, l>> \in DOMAIN subs
              /\ <<id, l>> \in DOMAIN subs => subs'[<<id, l>>] = subs[<<id, l>>]

\* A position's sub-positions, read out of the table of all.
TableOf(f, ss, id) ==
    /\ \A l : l \in DOMAIN f <=> <<id, l>> \in DOMAIN ss
    /\ f = [l \in DOMAIN f |-> ss[<<id, l>>]]

\* subPositions of a position: the rows with its id, now and after the step.
LEMMA SubsOfIs ==
    ASSUME NEW id
    PROVE  TableOf(SubsOf(id), subs, id) /\ TableOf(SubsOf(id)', subs', id)
<1>1. ASSUME NEW ss, NEW L, L = {s[2] : s \in DOMAIN ss}, NEW f,
             f = [l \in {n \in L : <<id, n>> \in DOMAIN ss} |-> ss[<<id, l>>]]
      PROVE  TableOf(f, ss, id)
  <2>1. ASSUME NEW l, <<id, l>> \in DOMAIN ss PROVE l \in L
    <3>1. PICK s \in DOMAIN ss : s = <<id, l>>
      BY <2>1
    <3> QED BY <1>1, <3>1
  <2>2. PICK D : D = {n \in L : <<id, n>> \in DOMAIN ss}
    OBVIOUS
  <2>3. f = [l \in D |-> ss[<<id, l>>]]
    BY <1>1, <2>2
  <2> QED BY <2>1, <2>2, <2>3 DEF TableOf
<1>2. TableOf(SubsOf(id), subs, id)
  <2>1. PICK L, f : L = Levels /\ f = SubsOf(id)
    OBVIOUS
  <2> QED BY <1>1, <2>1 DEF SubsOf, Levels
<1>3. TableOf(SubsOf(id)', subs', id)
  <2>1. PICK L, f : L = Levels' /\ f = SubsOf(id)'
    OBVIOUS
  <2> QED BY <1>1, <2>1 DEF SubsOf, Levels
<1> QED BY <1>2, <1>3

\* The books of a position at rest are kept.
LEMMA AtRest ==
    ASSUME NEW id, Rests(id)
    PROVE  /\ SubsOf(id)' = SubsOf(id) /\ Runners(id)' = Runners(id)
           /\ Kept(id) => Kept(id)'
<1>1. Of(id)' = Of(id)
  BY DEF Rests, Of, BagToSet
<1>2. SubsOf(id)' = SubsOf(id)
  <2>1. PICK f, g, ss, tt : f = SubsOf(id) /\ g = SubsOf(id)' /\ ss = subs /\ tt = subs'
    OBVIOUS
  <2>2. TableOf(f, ss, id) /\ TableOf(g, tt, id)
    BY <2>1, SubsOfIs
  <2>3. \A l : /\ <<id, l>> \in DOMAIN tt <=> <<id, l>> \in DOMAIN ss
               /\ <<id, l>> \in DOMAIN ss => tt[<<id, l>>] = ss[<<id, l>>]
    BY <2>1 DEF Rests
  <2>4. PICK D : D = DOMAIN f
    OBVIOUS
  <2>5. DOMAIN g = D /\ \A l \in D : tt[<<id, l>>] = ss[<<id, l>>]
    BY <2>2, <2>3, <2>4 DEF TableOf
  <2>6. f = [l \in D |-> ss[<<id, l>>]] /\ g = [l \in D |-> tt[<<id, l>>]]
    BY <2>2, <2>4, <2>5 DEF TableOf
  <2>7. f = g
    BY <2>5, <2>6
  <2> QED BY <2>1, <2>7
<1>3. BoughtIn(id)' = BoughtIn(id) /\ SoldIn(id)' = SoldIn(id)
  BY <1>1 DEF BoughtIn, SoldIn
<1>4. \A t \in Of(id) : trades'[t] = trades[t]
  BY DEF Rests, Of, BagToSet
<1>5. ASSUME NEW A, A \subseteq Of(id)
      PROVE  /\ Total([t \in A |-> t.qty * trades'[t]]) = Total([t \in A |-> t.qty * trades[t]])
             /\ Total([t \in A |-> t.cost * trades'[t]]) = Total([t \in A |-> t.cost * trades[t]])
  <2>1. /\ [t \in A |-> t.qty * trades'[t]] = [t \in A |-> t.qty * trades[t]]
        /\ [t \in A |-> t.cost * trades'[t]] = [t \in A |-> t.cost * trades[t]]
    BY <1>4, <1>5
  <2> QED BY <2>1
<1>6. BoughtIn(id) \subseteq Of(id) /\ SoldIn(id) \subseteq Of(id)
  BY DEF BoughtIn, SoldIn
<1>7. Held(id)' = Held(id) /\ Paid(BoughtIn(id))' = Paid(BoughtIn(id))
  BY <1>3, <1>5, <1>6 DEF Held, Paid, Quantity
<1>8. ClosedSubs(id)' = ClosedSubs(id) /\ Backing(id)' = Backing(id)
  BY <1>2 DEF ClosedSubs, Backing
<1>9. Returned(id)' = Returned(id)
  <2>1. PICK C : C = ClosedSubs(id)
    OBVIOUS
  <2>2. \A l \in C : subs'[<<id, l>>] = subs[<<id, l>>]
    BY <2>1, SubsOfIs DEF ClosedSubs, Rests, TableOf
  <2>3. [l \in C |-> subs'[<<id, l>>].cost] = [l \in C |-> subs[<<id, l>>].cost]
    BY <2>2
  <2> QED BY <1>8, <2>1, <2>3 DEF Returned
<1>10. ByHand(id)' = ByHand(id) /\ Runners(id)' = Runners(id)
  BY <1>1 DEF ByHand, Runners, Rests
<1>11. ASSUME Kept(id) PROVE Kept(id)'
  BY <1>1, <1>7, <1>8, <1>9, <1>11 DEF Kept, Rests
<1> QED BY <1>2, <1>10, <1>11

\* The bag m is the bag k, on A, with the members of S added.
Adds(m, k, A, S) ==
    \A t \in A \union S : m[t] = (IF t \in A THEN k[t] ELSE 0) + (IF t \in S THEN 1 ELSE 0)
Weighs(w, m, k, A, S) ==
    Total([t \in A \union S |-> w[t] * m[t]])
      = Total([t \in A |-> w[t] * k[t]]) + Total([t \in S |-> w[t]])

\* Its weight is theirs.
LEMMA Weighed ==
    ASSUME NEW A, IsFiniteSet(A), NEW S, IsFiniteSet(S), NEW w \in [A \union S -> Nat],
           NEW k, \A t \in A : k[t] \in Nat, NEW m, Adds(m, k, A, S)
    PROVE  Weighs(w, m, k, A, S)
<1>0. \A t \in A \union S : m[t] = (IF t \in A THEN k[t] ELSE 0) + (IF t \in S THEN 1 ELSE 0)
  BY DEF Adds
<1>1. PICK f, g, h : /\ f = [t \in A |-> w[t] * k[t]] /\ g = [t \in S |-> w[t]]
                     /\ h = [t \in A \union S |-> w[t] * m[t]]
  OBVIOUS
<1>2. \A a, b \in Nat : a * b \in Nat /\ a * (b + 1) = a * b + a /\ a * (0 + 1) = a /\ b + 0 = b
  OBVIOUS
<1>3. f \in [A -> Nat] /\ g \in [S -> Nat]
  <2>1. ASSUME NEW t \in A PROVE w[t] * k[t] \in Nat
    BY <1>2
  <2> QED BY <1>1, <2>1
<1>4. ASSUME NEW t \in A \union S PROVE h[t] = At0(f, t) + At0(g, t)
  <2>1. PICK a, d : a \in Nat /\ a = w[t] /\ d = m[t]
    OBVIOUS
  <2>2. h[t] = a * d
    BY <1>1, <2>1
  <2>3. CASE t \in A
    <3>1. PICK b \in Nat : b = k[t]
      BY <2>3
    <3>2. At0(f, t) = a * b /\ a * b \in Nat
      BY <1>1, <1>2, <2>1, <2>3, <3>1 DEF At0
    <3>3. CASE t \in S
      <4>1. d = b + 1 /\ At0(g, t) = a
        BY <1>0, <1>1, <2>1, <2>3, <3>1, <3>3 DEF At0
      <4> QED BY <1>2, <2>1, <2>2, <3>2, <4>1
    <3>4. CASE t \notin S
      <4>1. d = b /\ At0(g, t) = 0
        BY <1>0, <1>1, <2>1, <2>3, <3>1, <3>4 DEF At0
      <4>2. h[t] = a * b
        BY <2>2, <4>1
      <4> QED BY <1>2, <3>2, <4>1, <4>2
    <3> QED BY <3>3, <3>4
  <2>4. CASE t \notin A
    <3>1. At0(f, t) = 0 /\ At0(g, t) = a /\ d = 0 + 1
      BY <1>0, <1>1, <2>1, <2>4 DEF At0
    <3> QED BY <1>2, <2>1, <2>2, <3>1
  <2> QED BY <2>3, <2>4
<1>5. Joins(h, f, g)
  BY <1>1, <1>4 DEF Joins
<1>6. Total(h) = Total(f) + Total(g)
  BY <1>3, <1>5, TotalJoin
<1> QED BY <1>1, <1>6 DEF Weighs

\* What is held and paid are sums of naturals.
LEMMA Sums ==
    ASSUME TradesSound, NEW id, \A t \in Of(id) : t.qty \in Nat
    PROVE  /\ IsFiniteSet(BoughtIn(id)) /\ IsFiniteSet(SoldIn(id))
           /\ Quantity(BoughtIn(id)) \in Nat /\ Quantity(SoldIn(id)) \in Nat
           /\ Paid(BoughtIn(id)) \in Nat
<1>1. /\ BoughtIn(id) \subseteq DOMAIN trades /\ SoldIn(id) \subseteq DOMAIN trades
      /\ BoughtIn(id) \subseteq Of(id) /\ SoldIn(id) \subseteq Of(id)
  BY DEF BoughtIn, SoldIn, Of, BagToSet
<1>2. IsFiniteSet(BoughtIn(id)) /\ IsFiniteSet(SoldIn(id))
  BY <1>1, FS_Subset DEF TradesSound
<1>3. ASSUME NEW a \in Nat, NEW b \in Nat PROVE a * b \in Nat
  OBVIOUS
<1>4. ASSUME NEW A, A \subseteq Of(id), A \subseteq DOMAIN trades, IsFiniteSet(A)
      PROVE  Quantity(A) \in Nat /\ Paid(A) \in Nat
  <2>1. ASSUME NEW t \in A PROVE t.qty * trades[t] \in Nat /\ t.cost * trades[t] \in Nat
    <3>1. PICK a \in Nat, b \in Nat, c \in Nat : a = t.qty /\ b = t.cost /\ c = trades[t]
      BY <1>4 DEF TradesSound
    <3> QED BY <1>3, <3>1
  <2>2. PICK f, g : f = [t \in A |-> t.qty * trades[t]] /\ g = [t \in A |-> t.cost * trades[t]]
    OBVIOUS
  <2>3. f \in [A -> Nat] /\ g \in [A -> Nat]
    BY <2>1, <2>2
  <2> QED BY <1>4, <2>2, <2>3, TotalType DEF Quantity, Paid
<1> QED BY <1>1, <1>2, <1>4

\* What trades were of a position is still of it when others are added.
LEMMA OfMore ==
    ASSUME NEW S, trades' = trades (+) SetToBag(S), NEW id, \A x \in S : x.pos = id
    PROVE  Of(id)' = Of(id) \union S /\ Adds(trades', trades, Of(id), S)
<1>1. /\ DOMAIN trades' = DOMAIN trades \union S
      /\ \A t \in DOMAIN trades' : trades'[t] = (IF t \in DOMAIN trades THEN trades[t] ELSE 0)
                                               + (IF t \in S THEN 1 ELSE 0)
  BY DEF SetToBag, (+)
<1>2. Of(id)' = Of(id) \union S
  BY <1>1 DEF Of, BagToSet
<1>3. ASSUME NEW t \in Of(id)'
      PROVE  trades'[t] = (IF t \in Of(id) THEN trades[t] ELSE 0) + (IF t \in S THEN 1 ELSE 0)
  <2>1. t \in DOMAIN trades' /\ (t \in DOMAIN trades <=> t \in Of(id))
    BY DEF Of, BagToSet
  <2> QED BY <1>1, <2>1
<1> QED BY <1>2, <1>3 DEF Adds

\* A weight of some of a position's trades, of which S are new.
LEMMA WeightAdds ==
    ASSUME TradesSound, NEW id, NEW S, IsFiniteSet(S), NEW A \in SUBSET Of(id),
           S \cap Of(id) \subseteq A,
           Adds(trades', trades, Of(id), S), NEW w \in [A \union S -> Nat]
    PROVE  Weighs(w, trades', trades, A, S)
<1>1. A \subseteq DOMAIN trades
  BY DEF Of, BagToSet
<1>2. IsFiniteSet(A) /\ \A t \in A : trades[t] \in Nat
  BY <1>1, FS_Subset DEF TradesSound
<1>3. Adds(trades', trades, A, S)
  BY DEF Adds
<1> QED BY <1>2, <1>3, Weighed

\* A weight that is the same in both bags.
SameWeight(w, m, k, A) == [t \in A |-> w[t] * m[t]] = [t \in A |-> w[t] * k[t]]

\* The weight of trades that are not added to stays.
LEMMA WeightRests ==
    ASSUME TradesSound, NEW id, NEW S, NEW A \in SUBSET Of(id), S \cap A = {},
           Adds(trades', trades, Of(id), S), NEW w
    PROVE  SameWeight(w, trades', trades, A)
<1>1. ASSUME NEW t \in A PROVE trades'[t] = trades[t]
  <2>1. trades[t] \in Nat
    BY DEF TradesSound, Of, BagToSet
  <2>2. trades'[t] = trades[t] + 0
    BY DEF Adds
  <2> QED BY <2>1, <2>2
<1> QED BY <1>1 DEF SameWeight

\* Sales are added to a position's trades.
LEMMA SalesAdd ==
    ASSUME TradesSound, NEW id, \A t \in Of(id) : t.qty \in Nat, NEW S, IsFiniteSet(S),
           trades' = trades (+) SetToBag(S),
           \A x \in S : x.pos = id /\ x.side = "SELL" /\ x.qty \in Nat
    PROVE  /\ \A t \in Of(id)' : t.qty \in Nat
           /\ Quantity(SoldIn(id))' = Quantity(SoldIn(id)) + Total([x \in S |-> x.qty])
           /\ Quantity(BoughtIn(id))' = Quantity(BoughtIn(id))
           /\ Paid(BoughtIn(id))' = Paid(BoughtIn(id))
<1>1. Of(id)' = Of(id) \union S /\ Adds(trades', trades, Of(id), S)
  BY OfMore
<1>2. PICK A, B, w, c : /\ A = SoldIn(id) /\ B = BoughtIn(id)
                        /\ w = [t \in Of(id)' |-> t.qty] /\ c = [t \in Of(id)' |-> t.cost]
  OBVIOUS
<1>3. /\ SoldIn(id)' = A \union S /\ BoughtIn(id)' = B /\ S \cap B = {} /\ S \cap Of(id) \subseteq A
      /\ A \subseteq Of(id) /\ B \subseteq Of(id)
  BY <1>1, <1>2 DEF SoldIn, BoughtIn
<1>4. \A t \in Of(id)' : t.qty \in Nat /\ w[t] = t.qty /\ c[t] = t.cost
  BY <1>1, <1>2
<1>5. Quantity(BoughtIn(id))' = Quantity(BoughtIn(id)) /\ Paid(BoughtIn(id))' = Paid(BoughtIn(id))
  <2>1. SameWeight(w, trades', trades, B) /\ SameWeight(c, trades', trades, B)
    BY <1>1, <1>3, WeightRests
  <2>2. /\ [t \in B |-> t.qty * trades'[t]] = [t \in B |-> w[t] * trades'[t]]
        /\ [t \in B |-> t.qty * trades[t]] = [t \in B |-> w[t] * trades[t]]
        /\ [t \in B |-> t.cost * trades'[t]] = [t \in B |-> c[t] * trades'[t]]
        /\ [t \in B |-> t.cost * trades[t]] = [t \in B |-> c[t] * trades[t]]
    BY <1>1, <1>3, <1>4
  <2> QED BY <1>2, <1>3, <2>1, <2>2 DEF Quantity, Paid, SameWeight
<1>6. Quantity(SoldIn(id))' = Quantity(SoldIn(id)) + Total([x \in S |-> x.qty])
  <2>1. PICK u : u = [t \in A \union S |-> t.qty]
    OBVIOUS
  <2>2. u \in [A \union S -> Nat] /\ \A t \in A \union S : u[t] = t.qty
    BY <1>1, <1>3, <1>4, <2>1
  <2>3. Weighs(u, trades', trades, A, S)
    BY <1>1, <1>3, <2>2, WeightAdds
  <2>4. /\ [t \in A \union S |-> u[t] * trades'[t]] = [t \in A \union S |-> t.qty * trades'[t]]
        /\ [t \in A |-> u[t] * trades[t]] = [t \in A |-> t.qty * trades[t]]
        /\ [t \in S |-> u[t]] = [t \in S |-> t.qty]
    BY <2>2
  <2> QED BY <1>2, <1>3, <2>3, <2>4 DEF Quantity, Weighs
<1> QED BY <1>4, <1>5, <1>6

\* A purchase is added to a position's trades.
LEMMA PurchaseAdds ==
    ASSUME TradesSound, NEW id, \A t \in Of(id) : t.qty \in Nat, NEW x,
           trades' = trades (+) SetToBag({x}),
           x.pos = id, x.side = "BUY", x.qty \in Nat, x.cost \in Nat
    PROVE  /\ \A t \in Of(id)' : t.qty \in Nat
           /\ Quantity(BoughtIn(id))' = Quantity(BoughtIn(id)) + x.qty
           /\ Paid(BoughtIn(id))' = Paid(BoughtIn(id)) + x.cost
           /\ Quantity(SoldIn(id))' = Quantity(SoldIn(id))
<1>0. PICK S : S = {x}
  OBVIOUS
<1>1. Of(id)' = Of(id) \union S /\ Adds(trades', trades, Of(id), S) /\ IsFiniteSet(S)
  BY <1>0, OfMore, FS_Singleton
<1>2. PICK A, B, w, c : /\ A = SoldIn(id) /\ B = BoughtIn(id)
                        /\ w = [t \in Of(id)' |-> t.qty] /\ c = [t \in B \union S |-> t.cost]
  OBVIOUS
<1>3. /\ SoldIn(id)' = A /\ BoughtIn(id)' = B \union S /\ S \cap A = {} /\ S \cap Of(id) \subseteq B
      /\ A \subseteq Of(id) /\ B \subseteq Of(id)
  BY <1>0, <1>1, <1>2 DEF SoldIn, BoughtIn
<1>4. \A t \in Of(id)' : t.qty \in Nat /\ w[t] = t.qty
  BY <1>0, <1>1, <1>2
<1>5. Quantity(SoldIn(id))' = Quantity(SoldIn(id))
  <2>1. SameWeight(w, trades', trades, A)
    <3>1. A \in SUBSET Of(id) /\ S \cap A = {} /\ Adds(trades', trades, Of(id), S)
      BY <1>1, <1>3
    <3> QED BY <3>1, WeightRests
  <2>2. /\ [t \in A |-> t.qty * trades'[t]] = [t \in A |-> w[t] * trades'[t]]
        /\ [t \in A |-> t.qty * trades[t]] = [t \in A |-> w[t] * trades[t]]
    BY <1>1, <1>3, <1>4
  <2> QED BY <1>2, <1>3, <2>1, <2>2 DEF Quantity, SameWeight
<1>6. Quantity(BoughtIn(id))' = Quantity(BoughtIn(id)) + x.qty
  <2>1. PICK u : u = [t \in B \union S |-> t.qty]
    OBVIOUS
  <2>2. u \in [B \union S -> Nat] /\ \A t \in B \union S : u[t] = t.qty
    BY <1>1, <1>3, <1>4, <2>1
  <2>3. Weighs(u, trades', trades, B, S)
    BY <1>1, <1>3, <2>2, WeightAdds
  <2>4. /\ [t \in B \union S |-> u[t] * trades'[t]] = [t \in B \union S |-> t.qty * trades'[t]]
        /\ [t \in B |-> u[t] * trades[t]] = [t \in B |-> t.qty * trades[t]]
    BY <1>0, <2>2
  <2>5. Total([t \in S |-> u[t]]) = x.qty
    <3>1. PICK d \in Nat : d = x.qty
      OBVIOUS
    <3>2. [t \in S |-> u[t]] = [t \in {x} |-> d]
      BY <1>0, <2>2, <3>1
    <3> QED BY <3>1, <3>2, TotalOne
  <2> QED BY <1>2, <1>3, <2>3, <2>4, <2>5 DEF Quantity, Weighs
<1>7. Paid(BoughtIn(id))' = Paid(BoughtIn(id)) + x.cost
  <2>1. \A t \in B : t.cost \in Nat
    BY <1>2 DEF BoughtIn, Of, BagToSet, TradesSound
  <2>2. c \in [B \union S -> Nat] /\ \A t \in B \union S : c[t] = t.cost
    BY <1>0, <1>2, <2>1
  <2>3. Weighs(c, trades', trades, B, S)
    BY <1>1, <1>3, <2>2, WeightAdds
  <2>4. /\ [t \in B \union S |-> c[t] * trades'[t]] = [t \in B \union S |-> t.cost * trades'[t]]
        /\ [t \in B |-> c[t] * trades[t]] = [t \in B |-> t.cost * trades[t]]
    BY <1>0, <2>2
  <2>5. Total([t \in S |-> c[t]]) = x.cost
    <3>1. PICK d \in Nat : d = x.cost
      OBVIOUS
    <3>2. [t \in S |-> c[t]] = [t \in {x} |-> d]
      BY <1>0, <2>2, <3>1
    <3> QED BY <3>1, <3>2, TotalOne
  <2> QED BY <1>2, <1>3, <2>3, <2>4, <2>5 DEF Paid, Weighs
<1> QED BY <1>4, <1>5, <1>6, <1>7

\* The positions but one rest.
Elsewhere(id) == \A i \in DOMAIN positions : i # id => Rests(i)

\* What was read of a position at rest is what is there.
LEMMA FreshRests == ASSUME NEW k, NEW w, Fresh(k, w), Rests(w.id) PROVE Fresh(k, w)'
<1>1. PICK id : id = w.id
  OBVIOUS
<1>2. SubsOf(id)' = SubsOf(id) /\ Runners(id)' = Runners(id)
  BY <1>1, AtRest
<1> QED BY <1>1, <1>2 DEF Fresh, Rests

\* One process steps, and at most one position is touched: by its owner, who has
\* then traded it by hand, or by the one tick at work.
LEMMA Touches ==
    ASSUME BooksKept, PaperSound, Exclusive, NEW p \in Proc, NEW l, NEW v, Goto(p, l, v), NEW id,
           p \in Users \/ Working(p), DOMAIN positions' = DOMAIN positions \union {id},
           Elsewhere(id),
           p \in Users => ByHand(id)',
           p \in Ticks => (Runners(id)' => Kept(id)') /\ Fresh(l, v)'
    PROVE  BooksKept'
<1>1. at \in [Proc -> Places] /\ local = [q \in Proc |-> local[q]]
  BY DEF PaperSound, LocalsStand
<1>2. /\ at'[p] = l /\ local'[p] = v
      /\ \A q \in Proc \ {p} : at'[q] = at[q] /\ local'[q] = local[q]
  BY <1>1 DEF Goto
<1>3. ASSUME NEW i \in DOMAIN positions', Runners(i)' PROVE Kept(i)'
  <2>1. CASE i = id
    <3>1. p \in Ticks
      BY <1>3, <2>1 DEF Runners, Proc
    <3> QED BY <1>3, <2>1, <3>1
  <2>2. CASE i # id
    <3>1. i \in DOMAIN positions /\ Rests(i)
      BY <2>2 DEF Elsewhere
    <3> QED BY <1>3, <3>1, AtRest DEF BooksKept
  <2> QED BY <2>1, <2>2
<1>4. ASSUME NEW q \in Ticks PROVE Fresh(at[q], local[q])'
  <2>0. q \in Proc
    BY DEF Proc
  <2>1. CASE q = p
    BY <1>2, <2>1
  <2>2. CASE q # p
    <3>1. PICK k, w : k = at[q] /\ w = local[q]
      OBVIOUS
    <3>2. Fresh(k, w)'
      <4>1. CASE k \notin {"subs", "act"}
        BY <4>1 DEF Fresh
      <4>2. CASE k \in {"subs", "act"}
        <5>1. Working(q)
          BY <3>1, <4>2 DEF Working
        <5>2. p \in Users /\ ByHand(id)'
          BY <2>0, <2>2, <5>1 DEF Exclusive
        <5>3. CASE w.id = id
          BY <5>2, <5>3 DEF Fresh, Runners
        <5>4. CASE w.id # id
          <6>1. Remembers(k, w) /\ Fresh(k, w)
            BY <2>0, <3>1 DEF PaperSound, BooksKept
          <6>2. w.id \in DOMAIN positions
            BY <4>2, <6>1 DEF Remembers
          <6> QED BY <5>4, <6>1, <6>2, FreshRests DEF Elsewhere
        <5> QED BY <5>3, <5>4
      <4> QED BY <4>1, <4>2
    <3> QED BY <1>2, <2>0, <2>2, <3>1, <3>2
  <2> QED BY <2>1, <2>2
<1> QED BY <1>3, <1>4 DEF BooksKept

\* One process steps and no position is touched.
LEMMA TouchesNone ==
    ASSUME BooksKept, PaperSound, NEW p \in Proc, NEW l, NEW v, Goto(p, l, v),
           UNCHANGED <<positions, subs, trades>>, p \in Ticks => Fresh(l, v)
    PROVE  BooksKept'
<1>1. at \in [Proc -> Places] /\ local = [q \in Proc |-> local[q]]
  BY DEF PaperSound, LocalsStand
<1>2. /\ at'[p] = l /\ local'[p] = v
      /\ \A q \in Proc \ {p} : at'[q] = at[q] /\ local'[q] = local[q]
  BY <1>1 DEF Goto
<1>3. \A i \in DOMAIN positions : Rests(i)
  BY DEF Rests
<1>4. \A i \in DOMAIN positions' : Runners(i)' => Kept(i)'
  BY <1>3, AtRest DEF BooksKept
<1>5. ASSUME NEW k, NEW w, Fresh(k, w) PROVE Fresh(k, w)'
  <2>1. CASE w.id \in DOMAIN positions
    BY <1>3, <1>5, <2>1, FreshRests
  <2>2. CASE w.id \notin DOMAIN positions
    BY <2>2 DEF Fresh, Runners
  <2> QED BY <2>1, <2>2
<1>6. ASSUME NEW q \in Ticks PROVE Fresh(at[q], local[q])'
  <2>0. q \in Proc /\ Fresh(at[q], local[q])
    BY DEF Proc, BooksKept
  <2>1. PICK k, w : k = at'[q] /\ w = local'[q]
    OBVIOUS
  <2>2. Fresh(k, w)
    BY <1>2, <2>0, <2>1
  <2>3. Fresh(k, w)'
    BY <1>5, <2>2
  <2> QED BY <2>1, <2>3
<1> QED BY <1>4, <1>6 DEF BooksKept

\* A request or a tick that ends in an error touches no position.
LEMMA FailsNone == ASSUME BooksKept, PaperSound, NEW p \in Proc, Fails(p) PROVE BooksKept'
<1>1. Goto(p, "idle", Blank) /\ UNCHANGED <<positions, subs, trades>> /\ Fresh("idle", Blank)
  BY DEF Fails, Finish, rows, Fresh
<1> QED BY <1>1, TouchesNone

\* One position's trades and rows are added to or written: the others rest.
OthersAlone(id) ==
    /\ DOMAIN positions \subseteq DOMAIN positions'
    /\ \A i \in DOMAIN positions : i # id => positions'[i] = positions[i]
    /\ \A s : s[1] # id => /\ s \in DOMAIN subs' <=> s \in DOMAIN subs
                           /\ s \in DOMAIN subs => subs'[s] = subs[s]

\* The other positions and what hangs on them rest.
LEMMA OthersRest ==
    ASSUME TradesSound, NEW id, NEW S, trades' = trades (+) SetToBag(S),
           \A x \in S : x.pos = id, OthersAlone(id)
    PROVE  Elsewhere(id)
<1>1. /\ DOMAIN trades' = DOMAIN trades \union S
      /\ \A t \in DOMAIN trades' : trades'[t] = (IF t \in DOMAIN trades THEN trades[t] ELSE 0)
                                               + (IF t \in S THEN 1 ELSE 0)
  BY DEF SetToBag, (+)
<1> SUFFICES ASSUME NEW i \in DOMAIN positions, i # id PROVE Rests(i)
  BY DEF Elsewhere
<1>2. ASSUME NEW t, t.pos = i
      PROVE  /\ t \in DOMAIN trades' <=> t \in DOMAIN trades
             /\ t \in DOMAIN trades => trades'[t] = trades[t]
  <2>1. t \notin S
    BY <1>2
  <2>2. t \in DOMAIN trades => trades[t] \in Nat /\ trades'[t] = trades[t] + 0
    BY <1>1, <2>1 DEF TradesSound
  <2> QED BY <1>1, <2>1, <2>2
<1>3. ASSUME NEW l
      PROVE  /\ <<i, l>> \in DOMAIN subs' <=> <<i, l>> \in DOMAIN subs
             /\ <<i, l>> \in DOMAIN subs => subs'[<<i, l>>] = subs[<<i, l>>]
  <2>1. PICK s : s = <<i, l>>
    OBVIOUS
  <2>2. s[1] # id
    BY <2>1
  <2> QED BY <2>1, <2>2 DEF OthersAlone
<1> QED BY <1>2, <1>3 DEF Rests, OthersAlone

\* A trade by the owner is one by hand.
LEMMA HandTrades ==
    ASSUME NEW S, trades' = trades (+) SetToBag(S), NEW x \in S, NEW id, x.pos = id, x.hand
    PROVE  ByHand(id)'
<1>1. x \in DOMAIN trades'
  BY DEF SetToBag, (+)
<1> QED BY <1>1 DEF ByHand, Of, BagToSet

\* A position traded only by the runner was so before.
LEMMA RunnersBefore ==
    ASSUME NEW S, trades' = trades (+) SetToBag(S), NEW id \in DOMAIN positions, Runners(id)',
           positions'[id].status # "DELETED" => positions[id].status # "DELETED"
    PROVE  Runners(id)
<1>1. DOMAIN trades \subseteq DOMAIN trades'
  BY DEF SetToBag, (+)
<1> QED BY <1>1 DEF Runners, ByHand, Of, BagToSet

\* The sub-positions sold are no longer open, and what they cost is returned.
LEMMA SubsClosed ==
    ASSUME SubsSound, NEW id, NEW closing \in SUBSET OpenSubs(SubsOf(id)),
           subs' = [s \in DOMAIN subs |-> IF s[1] = id /\ s[2] \in closing
                                          THEN [subs[s] EXCEPT !.status = "CLOSED"] ELSE subs[s]]
    PROVE  /\ IsFiniteSet(closing) /\ Cardinality(closing) \in Nat
           /\ Backing(id) \in Nat /\ Backing(id)' = Backing(id) - Cardinality(closing)
           /\ Returned(id) \in Nat /\ Total([l \in closing |-> SubsOf(id)[l].cost]) \in Nat
           /\ Returned(id)' = Returned(id) + Total([l \in closing |-> SubsOf(id)[l].cost])
<1>1. PICK f, g, ss, tt : f = SubsOf(id) /\ g = SubsOf(id)' /\ ss = subs /\ tt = subs'
  OBVIOUS
<1>2. TableOf(f, ss, id) /\ TableOf(g, tt, id) /\ SubTable(f)
  BY <1>1, SubsOfIs, SubsTable
<1>3. PICK D, O, C : D = DOMAIN f /\ O = OpenSubs(f) /\ C = ClosedSubs(id)
  OBVIOUS
<1>4. DOMAIN g = D
  <2>1. DOMAIN tt = DOMAIN ss
    BY <1>1
  <2> QED BY <1>2, <1>3, <2>1 DEF TableOf
<1>5. ASSUME NEW l \in D
      PROVE  /\ f[l] \in Sub /\ f[l] = ss[<<id, l>>] /\ g[l] = tt[<<id, l>>]
             /\ g[l].cost = f[l].cost
             /\ g[l].status = IF l \in closing THEN "CLOSED" ELSE f[l].status
  <2>1. f[l] \in Sub /\ f[l] = ss[<<id, l>>] /\ g[l] = tt[<<id, l>>] /\ <<id, l>> \in DOMAIN ss
    BY <1>2, <1>3, <1>4 DEF TableOf, SubTable
  <2>2. PICK s, e : s = <<id, l>> /\ e = ss[s]
    OBVIOUS
  <2>3. s[1] = id /\ s[2] = l /\ s \in DOMAIN subs /\ subs[s] = e /\ e \in Sub
    BY <1>1, <2>1, <2>2
  <2>4. tt[s] = IF l \in closing THEN [e EXCEPT !.status = "CLOSED"] ELSE e
    BY <1>1, <2>3
  <2> QED BY <2>1, <2>2, <2>3, <2>4 DEF Sub
<1>6. /\ O = {l \in D : f[l].status = "OPEN"} /\ C = {l \in D : f[l].status = "CLOSED"}
      /\ O \subseteq D /\ C \subseteq D /\ closing \subseteq O /\ closing \cap C = {}
  BY <1>1, <1>3 DEF OpenSubs, ClosedSubs
<1>7. OpenSubs(g) = O \ closing
  BY <1>4, <1>5, <1>6 DEF OpenSubs
<1>8. ClosedSubs(id)' = C \union closing
  <2>1. ClosedSubs(id)' = {l \in D : g[l].status = "CLOSED"}
    BY <1>1, <1>4 DEF ClosedSubs
  <2> QED BY <1>5, <1>6, <2>1
<1>9. IsFiniteSet(O) /\ IsFiniteSet(C) /\ IsFiniteSet(closing)
  BY <1>2, <1>3, <1>6, FS_Subset DEF SubTable
<1>10. Cardinality(O \ closing) = Cardinality(O) - Cardinality(closing)
  <2>1. O \cap closing = closing
    BY <1>6
  <2> QED BY <1>9, <2>1, FS_Difference
<1>11. Cardinality(O) \in Nat /\ Cardinality(closing) \in Nat
  BY <1>9, FS_CardinalityType
<1>12. Backing(id) = Cardinality(O) /\ Backing(id)' = Cardinality(O \ closing)
  BY <1>1, <1>3, <1>7 DEF Backing
<1>13. PICK a, b, h : /\ a = [l \in C |-> f[l].cost] /\ b = [l \in closing |-> f[l].cost]
                      /\ h = [l \in C \union closing |-> f[l].cost]
  OBVIOUS
<1>14. a \in [C -> Nat] /\ b \in [closing -> Nat] /\ \A l \in D : f[l].cost \in Nat
  BY <1>5, <1>6, <1>13 DEF Sub
<1>15. Joins(h, a, b)
  <2>1. ASSUME NEW l \in C \union closing PROVE h[l] = At0(a, l) + At0(b, l)
    <3>1. PICK n \in Nat : n = f[l].cost
      BY <1>6, <1>14
    <3>2. CASE l \in C
      <4>1. At0(a, l) = n /\ At0(b, l) = 0 /\ h[l] = n
        BY <1>6, <1>13, <3>1, <3>2 DEF At0
      <4> QED BY <4>1
    <3>3. CASE l \notin C
      <4>1. At0(a, l) = 0 /\ At0(b, l) = n /\ h[l] = n
        BY <1>6, <1>13, <3>1, <3>3 DEF At0
      <4> QED BY <4>1
    <3> QED BY <3>2, <3>3
  <2> QED BY <1>13, <2>1 DEF Joins
<1>16. Total(h) = Total(a) + Total(b) /\ Total(a) \in Nat /\ Total(b) \in Nat
  BY <1>9, <1>14, <1>15, TotalJoin, TotalType
<1>17. Returned(id) = Total(a)
  <2>1. [l \in C |-> subs[<<id, l>>].cost] = a
    BY <1>1, <1>5, <1>6, <1>13
  <2> QED BY <1>3, <2>1 DEF Returned
<1>18. Returned(id)' = Total(h)
  <2>1. ASSUME NEW l \in C \union closing PROVE subs'[<<id, l>>].cost = f[l].cost
    <3>1. l \in D
      BY <1>6
    <3>2. g[l] = tt[<<id, l>>] /\ g[l].cost = f[l].cost
      BY <1>5, <3>1
    <3> QED BY <1>1, <3>2
  <2>2. [l \in C \union closing |-> subs'[<<id, l>>].cost] = h
    BY <1>13, <2>1
  <2> QED BY <1>8, <2>2 DEF Returned
<1>19. Total([l \in closing |-> SubsOf(id)[l].cost]) = Total(b)
  BY <1>1, <1>13
<1> QED BY <1>9, <1>10, <1>11, <1>12, <1>16, <1>17, <1>18, <1>19

\* A sub-position bought is open.
LEMMA SubsBought ==
    ASSUME SubsSound, NEW id, NEW level, <<id, level>> \notin DOMAIN subs, NEW e, e.status = "OPEN",
           subs' = [s \in DOMAIN subs \union {<<id, level>>} |->
                       IF s = <<id, level>> THEN e ELSE subs[s]]
    PROVE  /\ Backing(id) \in Nat /\ Backing(id)' = Backing(id) + 1
           /\ Returned(id)' = Returned(id)
<1>1. PICK f, g, ss, tt : f = SubsOf(id) /\ g = SubsOf(id)' /\ ss = subs /\ tt = subs'
  OBVIOUS
<1>2. TableOf(f, ss, id) /\ TableOf(g, tt, id) /\ SubTable(f)
  BY <1>1, SubsOfIs, SubsTable
<1>3. PICK D, O, C : D = DOMAIN f /\ O = OpenSubs(f) /\ C = ClosedSubs(id)
  OBVIOUS
<1>4. /\ level \notin D /\ \A l : <<id, l>> \in DOMAIN tt <=> <<id, l>> \in DOMAIN ss \/ l = level
      /\ \A l \in D : tt[<<id, l>>] = ss[<<id, l>>]
      /\ tt[<<id, level>>] = e
  <2>1. ASSUME NEW l
        PROVE  /\ l \in D <=> <<id, l>> \in DOMAIN ss
               /\ <<id, l>> \in DOMAIN tt <=> <<id, l>> \in DOMAIN ss \/ l = level
               /\ <<id, l>> \in DOMAIN ss => tt[<<id, l>>] = ss[<<id, l>>]
    <3>1. PICK s, z : s = <<id, l>> /\ z = <<id, level>>
      OBVIOUS
    <3>2. s = z <=> l = level
      BY <3>1
    <3>3. tt = [y \in DOMAIN ss \union {z} |-> IF y = z THEN e ELSE ss[y]] /\ z \notin DOMAIN ss
      BY <1>1, <3>1
    <3>4. /\ s \in DOMAIN tt <=> s \in DOMAIN ss \/ l = level
          /\ s \in DOMAIN ss => tt[s] = ss[s]
      BY <3>2, <3>3
    <3>5. l \in D <=> <<id, l>> \in DOMAIN ss
      BY <1>2, <1>3 DEF TableOf
    <3> QED BY <3>1, <3>4, <3>5
  <2>2. tt[<<id, level>>] = e
    BY <1>1
  <2> QED BY <1>1, <2>1, <2>2
<1>5. DOMAIN g = D \union {level}
  <2>1. ASSUME NEW l PROVE l \in DOMAIN g <=> l \in D \union {level}
    BY <1>2, <1>3, <1>4 DEF TableOf
  <2> QED BY <2>1
<1>6. g[level] = e /\ \A l \in D : g[l] = f[l] /\ f[l] = ss[<<id, l>>] /\ f[l] = tt[<<id, l>>]
  BY <1>2, <1>3, <1>4, <1>5 DEF TableOf
<1>7. OpenSubs(g) = O \union {level} /\ level \notin O
  BY <1>3, <1>4, <1>5, <1>6 DEF OpenSubs
<1>8. ClosedSubs(id)' = C /\ C \subseteq D
  BY <1>1, <1>3, <1>5, <1>6 DEF ClosedSubs
<1>9. IsFiniteSet(O)
  <2>1. O \subseteq D /\ IsFiniteSet(D)
    BY <1>2, <1>3 DEF OpenSubs, SubTable
  <2> QED BY <2>1, FS_Subset
<1>10. Cardinality(O) \in Nat /\ Cardinality(O \union {level}) = Cardinality(O) + 1
  BY <1>7, <1>9, FS_AddElement, FS_CardinalityType
<1>11. Backing(id) = Cardinality(O) /\ Backing(id)' = Cardinality(O \union {level})
  BY <1>1, <1>3, <1>7 DEF Backing
<1>12. Returned(id)' = Returned(id)
  <2>1. [l \in C |-> subs'[<<id, l>>].cost] = [l \in C |-> subs[<<id, l>>].cost]
    BY <1>1, <1>6, <1>8
  <2> QED BY <1>3, <1>8, <2>1 DEF Returned
<1> QED BY <1>10, <1>11, <1>12

\* What the runner has read of a position before it acts is what is there, so
\* that what it writes is right; the quantity sold is never negative.
LEMMA KeptTypes ==
    ASSUME PaperSound, NEW id \in DOMAIN positions, Kept(id), positions[id].status = "OPEN"
    PROVE  /\ positions[id] \in Position /\ positions[id].qty \in Nat /\ positions[id].cost \in Int
           /\ Backing(id) \in Nat /\ TradesSound /\ SubsSound
           /\ Quantity(BoughtIn(id)) \in Nat /\ Quantity(SoldIn(id)) \in Nat
           /\ Paid(BoughtIn(id)) \in Nat
<1>1. TradesSound /\ SubsSound /\ positions \in Seq(Position)
  BY DEF PaperSound, RowsSound
<1>2. positions[id] \in Position
  BY <1>1
<1>3. Backing(id) \in Nat
  <2>1. SubTable(SubsOf(id)) /\ OpenSubs(SubsOf(id)) \subseteq DOMAIN SubsOf(id)
    BY <1>1, SubsTable DEF OpenSubs
  <2> QED BY <2>1, FS_Subset, FS_CardinalityType DEF Backing, SubTable
<1>4. positions[id].qty \in Int /\ positions[id].cost \in Int /\ Backing(id) < positions[id].qty
  BY <1>2 DEF Position, Kept
<1>5. positions[id].qty \in Nat
  BY <1>3, <1>4
<1> QED BY <1>1, <1>2, <1>3, <1>4, <1>5, Sums DEF Kept

\* A position is opened with one lot.
LEMMA OpenKept ==
    ASSUME BooksKept, PaperSound, PaperSound', Exclusive, NEW p \in Proc,
           OpenCheck(p) \/ OpenRefuse(p) \/ OpenCreate(p)
    PROVE  BooksKept'
<1>1. CASE OpenCheck(p)
  <2>1. PICK v : Goto(p, "create", v) /\ UNCHANGED rows
    BY <1>1 DEF OpenCheck
  <2> QED BY <2>1, TouchesNone DEF rows, Fresh
<1>2. CASE Fails(p)
  BY <1>2, FailsNone
<1>3. CASE OpenCreate(p) /\ Exists
  <2>1. PICK id, a, more : /\ id = Len(positions) + 1 /\ a = BuildPlan(local[p].config)[1]
                           /\ more = (Len(BuildPlan(local[p].config)) > 1)
    OBVIOUS
  <2>2. PICK row, x : /\ row = [status |-> "OPEN", qty |-> 1, cost |-> a.quote, dca |-> 0,
                                next |-> more, tp |-> TRUE]
                      /\ x = Bought(p, id, 1, a)
    OBVIOUS
  <2>3. /\ positions' = Append(positions, row) /\ trades' = trades (+) SetToBag({x})
        /\ Goto(p, "idle", Blank) /\ UNCHANGED subs /\ at[p] = "create"
    BY <1>3, <2>1, <2>2 DEF OpenCreate, Finish
  <2>4. positions \in Seq(Position) /\ SubsSound /\ TradesSound /\ TradesSound'
    BY DEF PaperSound, RowsSound
  <2>5. /\ DOMAIN positions' = DOMAIN positions \union {id} /\ id \notin DOMAIN positions
        /\ positions'[id] = row /\ \A i \in DOMAIN positions : positions'[i] = positions[i]
    <3>1. /\ DOMAIN positions = 1..Len(positions) /\ Len(positions) \in Nat
      BY <2>4
    <3> QED BY <2>1, <2>3, <2>4, <3>1
  <2>6. /\ x.pos = id /\ x.side = "BUY" /\ x.qty = 1 /\ x.cost = a.quote
        /\ x.hand = (p \in Users)
    BY <2>2 DEF Bought
  <2>7. Elsewhere(id)
    <3>1. OthersAlone(id)
      BY <2>3, <2>5 DEF OthersAlone
    <3>2. \A y \in {x} : y.pos = id
      BY <2>6
    <3> QED BY <2>3, <2>4, <3>1, <3>2, OthersRest
  <2>8. p \in Users => ByHand(id)'
    BY <2>3, <2>6, HandTrades
  <2>9. Kept(id)'
    <3>1. Of(id) = {} /\ BoughtIn(id) = {} /\ SoldIn(id) = {}
      BY <2>4, <2>5 DEF TradesSound, Of, BagToSet, BoughtIn, SoldIn
    <3>2. Quantity(BoughtIn(id)) = 0 /\ Quantity(SoldIn(id)) = 0 /\ Paid(BoughtIn(id)) = 0
      BY <3>1, TotalNone DEF Quantity, Paid
    <3>3. x.cost \in Nat /\ x.qty \in Nat
      <4>1. x \in DOMAIN trades'
        BY <2>3 DEF SetToBag, (+)
      <4>2. x.cost \in Nat
        BY <2>4, <4>1 DEF TradesSound
      <4> QED BY <2>6, <4>2
    <3>4. /\ \A t \in Of(id)' : t.qty \in Nat
          /\ Quantity(BoughtIn(id))' = Quantity(BoughtIn(id)) + x.qty
          /\ Paid(BoughtIn(id))' = Paid(BoughtIn(id)) + x.cost
          /\ Quantity(SoldIn(id))' = Quantity(SoldIn(id))
      BY <2>3, <2>4, <2>6, <3>1, <3>3, PurchaseAdds
    <3>5. DOMAIN SubsOf(id)' = {}
      <4>1. PICK g, tt : g = SubsOf(id)' /\ tt = subs'
        OBVIOUS
      <4>2. TableOf(g, tt, id)
        BY <4>1, SubsOfIs
      <4>3. ASSUME NEW l PROVE <<id, l>> \notin DOMAIN tt
        <5>1. PICK s : s = <<id, l>>
          OBVIOUS
        <5>2. s \notin (DOMAIN positions) \X Nat
          BY <2>5, <5>1
        <5> QED BY <2>3, <2>4, <4>1, <5>1, <5>2 DEF SubsSound
      <4> QED BY <4>1, <4>2, <4>3 DEF TableOf
    <3>6. Backing(id)' = 0 /\ Returned(id)' = 0
      <4>1. OpenSubs(SubsOf(id)') = {} /\ ClosedSubs(id)' = {}
        BY <3>5 DEF OpenSubs, ClosedSubs
      <4> QED BY <4>1, FS_EmptySet, TotalNone DEF Backing, Returned
    <3>7. positions'[id].status = "OPEN" /\ positions'[id].qty = 1 /\ positions'[id].cost = x.cost
      BY <2>2, <2>5, <2>6
    <3> QED BY <2>6, <3>2, <3>3, <3>4, <3>6, <3>7 DEF Kept, Held
  <2>10. p \in Users \/ Working(p)
    BY <2>3 DEF Working, Proc
  <2> QED BY <2>3, <2>5, <2>7, <2>8, <2>9, <2>10, Touches DEF Fresh
<1> QED BY <1>1, <1>2, <1>3 DEF OpenRefuse, OpenCreate

\* What a tick loads is what is there.
LEMMA LoadKept ==
    ASSUME BooksKept, PaperSound, NEW p \in Proc, Load(p) \/ Hold(p)
    PROVE  BooksKept'
<1>1. CASE Fails(p)
  BY <1>1, FailsNone
<1>2. CASE ~Fails(p)
  <2>0. Remembers("load", local[p]) /\ Load(p)
    BY <1>2 DEF Load, Hold, PaperSound
  <2>1. PICK id, l, v : /\ id = local[p].id
                        /\ l = IF local[p].job = "tick" THEN "subs" ELSE "act"
                        /\ v = [local[p] EXCEPT !.row = positions[id], !.subs = SubsOf(id),
                                                !.config = strategy.config]
    OBVIOUS
  <2>2. Goto(p, l, v) /\ UNCHANGED rows /\ positions[id].status = "OPEN"
    BY <1>2, <2>0, <2>1 DEF Load
  <2>3. v.id = id /\ v.row = positions[id] /\ v.subs = SubsOf(id)
    BY <2>0, <2>1 DEF Remembers, Blank
  <2>4. Fresh(l, v)
    BY <2>2, <2>3 DEF Fresh
  <2> QED BY <2>2, <2>4, TouchesNone DEF rows
<1> QED BY <1>1, <1>2

\* Sub-positions are sold.
LEMMA CloseSubsKept ==
    ASSUME BooksKept, PaperSound, PaperSound', Exclusive, NEW p \in Proc, CloseSubs(p)
    PROVE  BooksKept'
<1>0. RowsSound /\ Remembers("subs", local[p])
  BY DEF CloseSubs, PaperSound
<1>1. CASE Fails(p)
  BY <1>1, FailsNone
<1>2. CASE Goto(p, "act", local[p]) /\ UNCHANGED rows
  <2>1. p \in Ticks => Fresh("act", local[p])
    <3> SUFFICES ASSUME p \in Ticks PROVE Fresh("act", local[p])
      OBVIOUS
    <3>1. PICK k, w : k = at[p] /\ w = local[p]
      OBVIOUS
    <3>2. Fresh(k, w) /\ k = "subs"
      BY <3>1 DEF BooksKept, CloseSubs
    <3> QED BY <3>1, <3>2 DEF Fresh
  <2> QED BY <1>2, <2>1, TouchesNone DEF rows
<1>3. ASSUME NEW closing \in SUBSET OpenSubs(local[p].subs), closing # {},
             SellSubs(p, closing), ~Fails(p)
      PROVE  BooksKept'
  <2>1. PICK id, r, snap : id = local[p].id /\ r = local[p].row /\ snap = local[p].subs
    OBVIOUS
  <2>2. PICK old, n, c : /\ old = positions[id] /\ n = Cardinality(closing)
                         /\ c = Total([l \in closing |-> snap[l].cost])
    OBVIOUS
  <2>3. PICK q, d : q = Without(r, snap, closing).qty /\ d = Without(r, snap, closing).cost
    OBVIOUS
  <2>4. PICK b, row : b = (q > 0) /\ row = [old EXCEPT !.qty = q, !.cost = d, !.tp = b]
    OBVIOUS
  <2>5. PICK closed : closed = [s \in DOMAIN subs |->
                         IF s[1] = id /\ s[2] \in closing
                         THEN [subs[s] EXCEPT !.status = "CLOSED"] ELSE subs[s]]
    OBVIOUS
  <2>6. PICK S, v : /\ S = {Sold(p, id, l, TRUE, 1) : l \in closing}
                    /\ v = Refreshed(local[p], row, [l \in DOMAIN SubsOf(id) |-> closed[<<id, l>>]])
    OBVIOUS
  <2>7. /\ positions' = [positions EXCEPT ![id] = row] /\ subs' = closed /\ old.status # "DELETED"
        /\ trades' = trades (+) SetToBag(S) /\ Goto(p, "act", v) /\ at[p] = "subs"
    BY <1>3, <2>1, <2>2, <2>3, <2>4, <2>5, <2>6 DEF SellSubs, CloseSubs
  <2>8. /\ id \in DOMAIN positions /\ positions \in Seq(Position) /\ SubsSound /\ TradesSound
        /\ DOMAIN local[p] = DOMAIN Blank /\ r \in Position
    BY <1>0, <2>1 DEF Remembers, RowsSound
  <2>9. /\ DOMAIN positions' = DOMAIN positions /\ positions'[id] = row
        /\ \A i \in DOMAIN positions : i # id => positions'[i] = positions[i]
    BY <2>7, <2>8
  <2>10. \A x \in S : /\ x.pos = id /\ x.side = "SELL" /\ x.qty = 1
                      /\ x.hand = (p \in Users)
    BY <2>6 DEF Sold
  <2>11. Elsewhere(id)
    <3>1. OthersAlone(id)
      BY <2>5, <2>7, <2>9 DEF OthersAlone
    <3> QED BY <2>7, <2>8, <2>10, <3>1, OthersRest
  <2>12. p \in Users => ByHand(id)'
    <3>1. PICK x : x \in S
      BY <1>3, <2>6
    <3> QED BY <2>7, <2>10, <3>1, HandTrades
  <2>13. old \in Position /\ row.qty = q /\ row.cost = d /\ row.status = old.status
    <3>1. old \in Position
      BY <2>2, <2>8
    <3> QED BY <2>4, <3>1 DEF Position
  <2>14. ASSUME p \in Ticks, Runners(id)'
         PROVE  Kept(id)' /\ Fresh("act", v)'
    <3>1. Runners(id) /\ Kept(id)
      <4>1. Runners(id)
        BY <2>2, <2>7, <2>8, <2>14, RunnersBefore
      <4> QED BY <2>8, <4>1 DEF BooksKept
    <3>2. old.status = "OPEN" /\ r = old /\ snap = SubsOf(id)
      <4>1. PICK w : w = local[p]
        OBVIOUS
      <4>2. Fresh("subs", w)
        BY <2>7, <2>14, <4>1 DEF BooksKept
      <4> QED BY <2>1, <2>2, <3>1, <4>1, <4>2 DEF Fresh
    <3>3. /\ old.qty \in Nat /\ old.cost \in Int
          /\ Quantity(BoughtIn(id)) \in Nat /\ Quantity(SoldIn(id)) \in Nat
          /\ Paid(BoughtIn(id)) \in Nat
      BY <2>2, <2>8, <3>1, <3>2, KeptTypes
    <3>4. closing \in SUBSET OpenSubs(SubsOf(id))
      BY <2>1, <3>2
    <3>5. /\ IsFiniteSet(closing) /\ n \in Nat /\ c \in Nat
          /\ Backing(id) \in Nat /\ Backing(id)' = Backing(id) - n
          /\ Returned(id) \in Nat /\ Returned(id)' = Returned(id) + c
      BY <2>2, <2>5, <2>7, <2>8, <3>2, <3>4, SubsClosed
    <3>6. q = old.qty - n /\ d = old.cost - c
      BY <2>2, <2>3, <2>8, <3>2 DEF Without, Position
    <3>7. IsFiniteSet(S) /\ Total([x \in S |-> x.qty]) = n
      <4>1. [l \in closing |-> Sold(p, id, l, TRUE, 1)] \in Bijection(closing, S)
        BY <2>6 DEF Bijection, Injection, Surjection, IsInjective, Sold
      <4>2. IsFiniteSet(S) /\ Cardinality(S) = n
        BY <2>2, <3>5, <4>1, FS_Bijection DEF ExistsBijection
      <4>3. PICK f : f = [x \in S |-> x.qty]
        OBVIOUS
      <4>4. f = [x \in S |-> 1]
        BY <2>10, <4>3
      <4> QED BY <4>2, <4>3, <4>4, TotalOnes
    <3>8. /\ \A t \in Of(id)' : t.qty \in Nat
          /\ Quantity(SoldIn(id))' = Quantity(SoldIn(id)) + n
          /\ Quantity(BoughtIn(id))' = Quantity(BoughtIn(id))
          /\ Paid(BoughtIn(id))' = Paid(BoughtIn(id))
      <4>1. \A t \in Of(id) : t.qty \in Nat
        BY <3>1 DEF Kept
      <4>2. \A x \in S : x.pos = id /\ x.side = "SELL" /\ x.qty \in Nat
        BY <2>10
      <4> QED BY <2>7, <2>8, <3>7, <4>1, <4>2, SalesAdd
    <3>9. /\ Backing(id) < old.qty /\ old.qty = Quantity(BoughtIn(id)) - Quantity(SoldIn(id))
          /\ old.cost = Paid(BoughtIn(id)) - Returned(id)
      BY <2>2, <3>1, <3>2 DEF Kept, Held
    <3>10. Kept(id)'
      BY <2>9, <2>13, <3>2, <3>3, <3>5, <3>6, <3>8, <3>9 DEF Kept, Held
    <3>11. v.id = id /\ v.row = row
      BY <2>1, <2>6, <2>8 DEF Refreshed, Blank
    <3>12. Fresh("act", v)'
      BY <2>9, <2>13, <3>2, <3>11 DEF Fresh
    <3> QED BY <3>10, <3>12
  <2>15. p \in Ticks => Fresh("act", v)'
    <3>1. v.id = id
      BY <2>1, <2>6, <2>8 DEF Refreshed, Blank
    <3>2. ~Runners(id)' => Fresh("act", v)'
      BY <3>1 DEF Fresh
    <3> QED BY <2>14, <3>2
  <2>16. p \in Users \/ Working(p)
    BY <2>7 DEF Working, Proc
  <2> QED BY <2>7, <2>8, <2>9, <2>11, <2>12, <2>14, <2>15, <2>16, Touches
<1> QED BY <1>1, <1>2, <1>3 DEF CloseSubs

\* A lot is bought.
LEMMA DcaKept ==
    ASSUME BooksKept, PaperSound, PaperSound', Exclusive, NEW p \in Proc,
           at[p] = "act", ExecuteDca(p)
    PROVE  BooksKept'
<1>0. RowsSound /\ Remembers("act", local[p])
  BY DEF PaperSound
<1>1. CASE Fails(p)
  BY <1>1, FailsNone
<1>2. CASE ~Fails(p)
  <2>1. PICK id, r, plan : /\ id = local[p].id /\ r = local[p].row
                           /\ plan = BuildPlan(local[p].config)
    OBVIOUS
  <2>2. PICK level, a, old : level = r.dca + 2 /\ a = plan[level] /\ old = positions[id]
    OBVIOUS
  <2>3. PICK more, row, x, e :
               /\ more = (level < Len(plan))
               /\ row = [old EXCEPT !.qty = r.qty + 1, !.cost = r.cost + a.quote,
                                    !.dca = r.dca + 1, !.next = more, !.tp = TRUE]
               /\ x = Bought(p, id, level, a) /\ e = [status |-> "OPEN", cost |-> a.quote]
    OBVIOUS
  <2>4. /\ a.independent => UniqueLevel(id, level)
        /\ positions' = [positions EXCEPT ![id] = row] /\ old.status # "DELETED"
        /\ subs' = IF a.independent
                   THEN [s \in DOMAIN subs \union {<<id, level>>} |->
                            IF s = <<id, level>> THEN e ELSE subs[s]]
                   ELSE subs
        /\ trades' = trades (+) SetToBag({x})
        /\ Goto(p, "idle", Blank)
    BY <1>2, <2>1, <2>2, <2>3 DEF ExecuteDca, Finish
  <2>5. /\ id \in DOMAIN positions /\ positions \in Seq(Position) /\ SubsSound /\ TradesSound
        /\ TradesSound' /\ old \in Position
    BY <1>0, <2>1, <2>2 DEF Remembers, PaperSound, RowsSound
  <2>6. /\ DOMAIN positions' = DOMAIN positions /\ positions'[id] = row
        /\ \A i \in DOMAIN positions : i # id => positions'[i] = positions[i]
    BY <2>4, <2>5
  <2>7. /\ x.pos = id /\ x.side = "BUY" /\ x.qty = 1 /\ x.cost = a.quote
        /\ x.hand = (p \in Users)
    BY <2>3 DEF Bought
  <2>8. Elsewhere(id)
    <3>1. \A s : s[1] # id => s # <<id, level>>
      OBVIOUS
    <3>2. OthersAlone(id)
      BY <2>4, <2>6, <3>1 DEF OthersAlone
    <3>3. \A y \in {x} : y.pos = id
      BY <2>7
    <3> QED BY <2>4, <2>5, <3>2, <3>3, OthersRest
  <2>9. p \in Users => ByHand(id)'
    BY <2>4, <2>7, HandTrades
  <2>10. /\ row.qty = r.qty + 1 /\ row.cost = r.cost + a.quote /\ row.status = old.status
    BY <2>3, <2>5 DEF Position
  <2>11. ASSUME p \in Ticks, Runners(id)'
         PROVE  Kept(id)'
    <3>1. Runners(id) /\ Kept(id)
      <4>1. Runners(id)
        BY <2>2, <2>4, <2>5, <2>11, RunnersBefore
      <4> QED BY <2>5, <4>1 DEF BooksKept
    <3>2. old.status = "OPEN" /\ r = old
      <4>1. PICK w : w = local[p]
        OBVIOUS
      <4>2. Fresh("act", w)
        BY <2>11, <4>1 DEF BooksKept
      <4> QED BY <2>1, <2>2, <3>1, <4>1, <4>2 DEF Fresh
    <3>3. /\ old.qty \in Nat /\ old.cost \in Int /\ Backing(id) \in Nat
          /\ Quantity(BoughtIn(id)) \in Nat /\ Quantity(SoldIn(id)) \in Nat
          /\ Paid(BoughtIn(id)) \in Nat
      BY <2>2, <2>5, <3>1, <3>2, KeptTypes
    <3>4. x.cost \in Nat /\ x.qty \in Nat
      <4>1. x \in DOMAIN trades'
        BY <2>4 DEF SetToBag, (+)
      <4>2. x.cost \in Nat
        BY <2>5, <4>1 DEF TradesSound
      <4> QED BY <2>7, <4>2
    <3>5. /\ \A t \in Of(id)' : t.qty \in Nat
          /\ Quantity(BoughtIn(id))' = Quantity(BoughtIn(id)) + x.qty
          /\ Paid(BoughtIn(id))' = Paid(BoughtIn(id)) + x.cost
          /\ Quantity(SoldIn(id))' = Quantity(SoldIn(id))
      <4>1. \A t \in Of(id) : t.qty \in Nat
        BY <3>1 DEF Kept
      <4> QED BY <2>4, <2>5, <2>7, <3>4, <4>1, PurchaseAdds
    <3>6. Backing(id)' <= Backing(id) + 1 /\ Backing(id)' \in Int /\ Returned(id)' = Returned(id)
      <4>1. CASE a.independent
        <5>1. <<id, level>> \notin DOMAIN subs /\ e.status = "OPEN"
          BY <2>3, <2>4, <4>1 DEF UniqueLevel
        <5>2. Backing(id)' = Backing(id) + 1 /\ Returned(id)' = Returned(id)
          BY <2>4, <2>5, <4>1, <5>1, SubsBought
        <5> QED BY <3>3, <5>2
      <4>2. CASE ~a.independent
        <5>1. UNCHANGED subs
          BY <2>4, <4>2
        <5>2. SubsOf(id)' = SubsOf(id)
          BY <5>1 DEF SubsOf, Levels
        <5>3. Backing(id)' = Backing(id) /\ Returned(id)' = Returned(id)
          BY <5>1, <5>2 DEF Backing, Returned, ClosedSubs
        <5> QED BY <3>3, <5>3
      <4> QED BY <4>1, <4>2
    <3>7. /\ Backing(id) < old.qty /\ old.qty = Quantity(BoughtIn(id)) - Quantity(SoldIn(id))
          /\ old.cost = Paid(BoughtIn(id)) - Returned(id)
      BY <2>2, <3>1, <3>2 DEF Kept, Held
    <3>8. Returned(id) \in Int
      <4>1. SubTable(SubsOf(id)) /\ ClosedSubs(id) \subseteq DOMAIN SubsOf(id)
        BY <2>5, SubsTable DEF ClosedSubs
      <4>2. IsFiniteSet(ClosedSubs(id))
        BY <4>1, FS_Subset DEF SubTable
      <4>3. PICK f, ss, g, C : /\ f = SubsOf(id) /\ ss = subs /\ C = ClosedSubs(id)
                               /\ g = [l \in C |-> subs[<<id, l>>].cost]
        OBVIOUS
      <4>4. TableOf(f, ss, id)
        BY <4>3, SubsOfIs
      <4>5. g \in [C -> Nat]
        BY <4>1, <4>3, <4>4 DEF TableOf, SubTable, Sub
      <4>6. Total(g) \in Nat
        BY <4>2, <4>3, <4>5, TotalType
      <4> QED BY <4>3, <4>6 DEF Returned
    <3>9. positions'[id].status = "OPEN" /\ positions'[id].qty = old.qty + x.qty
          /\ positions'[id].cost = old.cost + x.cost /\ x.qty = 1
      BY <2>6, <2>7, <2>10, <3>2
    <3> QED BY <3>3, <3>4, <3>5, <3>6, <3>7, <3>8, <3>9 DEF Kept, Held
  <2>12. p \in Users \/ Working(p)
    BY DEF Working, Proc
  <2> QED BY <2>4, <2>5, <2>6, <2>8, <2>9, <2>11, <2>12, Touches DEF Fresh
<1> QED BY <1>1, <1>2

\* All that is held is sold.
LEMMA CloseKept ==
    ASSUME BooksKept, PaperSound, Exclusive, NEW p \in Proc, at[p] = "act", ExecuteClose(p)
    PROVE  BooksKept'
<1>0. RowsSound /\ Remembers("act", local[p])
  BY DEF PaperSound
<1>1. CASE Fails(p)
  BY <1>1, FailsNone
<1>2. CASE ~Fails(p)
  <2>1. PICK id, r, old : id = local[p].id /\ r = local[p].row /\ old = positions[id]
    OBVIOUS
  <2>2. PICK row, x : /\ row = [old EXCEPT !.status = "CLOSED", !.next = FALSE, !.tp = FALSE]
                      /\ x = Sold(p, id, r.dca + 2, FALSE, r.qty)
    OBVIOUS
  <2>3. /\ positions' = [positions EXCEPT ![id] = row] /\ old.status # "DELETED"
        /\ subs' = [s \in DOMAIN subs |->
                       IF s[1] = id THEN [subs[s] EXCEPT !.status = "CLOSED"] ELSE subs[s]]
        /\ trades' = trades (+) SetToBag({x})
        /\ Goto(p, "idle", Blank)
    BY <1>2, <2>1, <2>2 DEF ExecuteClose, Finish
  <2>4. /\ id \in DOMAIN positions /\ positions \in Seq(Position) /\ TradesSound
        /\ old \in Position
    BY <1>0, <2>1 DEF Remembers, RowsSound
  <2>5. /\ DOMAIN positions' = DOMAIN positions /\ positions'[id] = row
        /\ \A i \in DOMAIN positions : i # id => positions'[i] = positions[i]
        /\ row.status = "CLOSED"
    BY <2>2, <2>3, <2>4 DEF Position
  <2>6. x.pos = id /\ x.side = "SELL" /\ x.qty = r.qty /\ x.hand = (p \in Users)
    BY <2>2 DEF Sold
  <2>7. Elsewhere(id)
    <3>1. OthersAlone(id)
      BY <2>3, <2>5 DEF OthersAlone
    <3>2. \A y \in {x} : y.pos = id
      BY <2>6
    <3> QED BY <2>3, <2>4, <3>1, <3>2, OthersRest
  <2>8. p \in Users => ByHand(id)'
    BY <2>3, <2>6, HandTrades
  <2>9. ASSUME p \in Ticks, Runners(id)'
        PROVE  Kept(id)'
    <3>1. Runners(id) /\ Kept(id)
      <4>1. Runners(id)
        BY <2>1, <2>3, <2>4, <2>9, RunnersBefore
      <4> QED BY <2>4, <4>1 DEF BooksKept
    <3>2. old.status = "OPEN" /\ r = old
      <4>1. PICK w : w = local[p]
        OBVIOUS
      <4>2. Fresh("act", w)
        BY <2>9, <4>1 DEF BooksKept
      <4> QED BY <2>1, <3>1, <4>1, <4>2 DEF Fresh
    <3>3. /\ old.qty \in Nat
          /\ Quantity(BoughtIn(id)) \in Nat /\ Quantity(SoldIn(id)) \in Nat
      BY <2>1, <2>4, <3>1, <3>2, KeptTypes
    <3>4. PICK S, f, d : S = {x} /\ f = [y \in S |-> y.qty] /\ d = x.qty
      OBVIOUS
    <3>5. IsFiniteSet(S) /\ Total(f) = d /\ d \in Nat
      <4>1. f = [y \in {x} |-> d]
        BY <3>4
      <4>2. d \in Nat
        BY <2>6, <3>2, <3>3, <3>4
      <4> QED BY <3>4, <4>1, <4>2, FS_Singleton, TotalOne
    <3>6. /\ \A t \in Of(id)' : t.qty \in Nat
          /\ Quantity(SoldIn(id))' = Quantity(SoldIn(id)) + d
          /\ Quantity(BoughtIn(id))' = Quantity(BoughtIn(id))
      <4>1. \A t \in Of(id) : t.qty \in Nat
        BY <3>1 DEF Kept
      <4>2. \A y \in S : y.pos = id /\ y.side = "SELL" /\ y.qty \in Nat
        BY <2>6, <3>4, <3>5
      <4>3. trades' = trades (+) SetToBag(S)
        BY <2>3, <3>4
      <4> QED BY <2>4, <3>4, <3>5, <4>1, <4>2, <4>3, SalesAdd
    <3>7. old.qty = Quantity(BoughtIn(id)) - Quantity(SoldIn(id)) /\ d = old.qty
      BY <2>1, <2>6, <3>1, <3>2, <3>4 DEF Kept, Held
    <3> QED BY <2>5, <3>3, <3>4, <3>5, <3>6, <3>7 DEF Kept, Held
  <2>10. p \in Users \/ Working(p)
    BY DEF Working, Proc
  <2> QED BY <2>3, <2>4, <2>5, <2>7, <2>8, <2>9, <2>10, Touches DEF Fresh
<1> QED BY <1>1, <1>2

\* Requests, the tick's first steps, and what is done with the strategy's row.
LEMMA QuietKept ==
    ASSUME BooksKept, PaperSound, NEW p \in Proc,
           TickStep(p) \/ (\E job \in Requests : Request(p, job)) \/ (p \in Users /\ UpdateWrite(p))
           \/ (p \in Users /\ RemoveRead(p)),
           UNCHANGED <<positions, subs, trades>>
    PROVE  BooksKept'
<1>1. CASE Fails(p)
  BY <1>1, FailsNone
<1>2. CASE ~Fails(p)
  <2>1. PICK l, v : Goto(p, l, v) /\ (p \in Users \/ l \notin {"subs", "act"})
    <3>1. CASE TickRead(p) \/ TickSkip(p) \/ TickStart(p)
      <4>1. PICK l, v : l \in {"tick", "idle", "quote"} /\ Goto(p, l, v)
        BY <3>1 DEF TickRead, TickSkip, TickStart
      <4> QED BY <4>1
    <3>2. CASE TickQuote(p)
      <4>1. PICK l : l = IF local[p].id = 0 THEN "open" ELSE "load"
        OBVIOUS
      <4>2. Goto(p, l, local[p])
        BY <1>2, <3>2, <4>1 DEF TickQuote
      <4> QED BY <4>1, <4>2
    <3>3. CASE /\ p \in Users
               /\ (\E job \in Requests : Request(p, job)) \/ UpdateWrite(p) \/ RemoveRead(p)
      <4>1. \E l, v : Goto(p, l, v)
        BY <3>3 DEF Request, UpdateWrite, RemoveRead
      <4> QED BY <3>3, <4>1
    <3> QED BY <3>1, <3>2, <3>3 DEF TickStep, Request, Asks
  <2>2. p \in Ticks => Fresh(l, v)
    BY <2>1, ProcAssumption DEF Fresh
  <2> QED BY <2>1, <2>2, TouchesNone
<1> QED BY <1>1, <1>2

\* No position is touched, and no process goes on but to be idle.
LEMMA StillKept ==
    ASSUME BooksKept, UNCHANGED <<positions, subs, trades>>,
           UNCHANGED <<at, local>> \/ at' = [p \in Proc |-> "idle"]
    PROVE  BooksKept'
<1>1. \A i \in DOMAIN positions : Rests(i)
  BY DEF Rests
<1>2. \A i \in DOMAIN positions' : Runners(i)' => Kept(i)'
  BY <1>1, AtRest DEF BooksKept
<1>3. ASSUME NEW q \in Ticks PROVE Fresh(at[q], local[q])'
  <2>0. q \in Proc
    BY DEF Proc
  <2>1. CASE at' = [p \in Proc |-> "idle"]
    BY <2>0, <2>1 DEF Fresh
  <2>2. CASE UNCHANGED <<at, local>>
    <3>1. PICK k, w : k = at[q] /\ w = local[q]
      OBVIOUS
    <3>2. Fresh(k, w)
      BY <3>1 DEF BooksKept
    <3>3. Fresh(k, w)'
      <4>1. CASE w.id \in DOMAIN positions
        BY <1>1, <3>2, <4>1, FreshRests
      <4>2. CASE w.id \notin DOMAIN positions
        BY <4>2 DEF Fresh, Runners
      <4> QED BY <4>1, <4>2
    <3> QED BY <2>2, <3>1, <3>3
  <2> QED BY <2>1, <2>2
<1> QED BY <1>2, <1>3 DEF BooksKept

\* What is done with the strategy's row touches no position.
LEMMA ManageKept ==
    ASSUME BooksKept, PaperSound, Manage, UNCHANGED <<subs, trades, running>>
    PROVE  BooksKept'
<1>1. CASE UNCHANGED <<positions, at, local>>
  BY <1>1, StillKept
<1>2. ASSUME NEW p \in Users, UpdateWrite(p) \/ RemoveRead(p) PROVE BooksKept'
  <2>1. UNCHANGED positions /\ p \in Proc
    BY <1>2 DEF UpdateWrite, RemoveRead, Proc
  <2> QED BY <1>2, <2>1, QuietKept
<1>3. ASSUME NEW c \in Configs, NEW paper \in Modes, NEW p \in Users, UpdateRead(p, c, paper)
      PROVE  BooksKept'
  <2>1. PICK v : Goto(p, "update", v) /\ UNCHANGED positions /\ p \in Proc
    BY <1>3 DEF UpdateRead, Proc
  <2> QED BY <2>1, TouchesNone DEF Fresh
<1> QED BY <1>1, <1>2, <1>3 DEF Manage, Create, SetStatus

\* Positions that are removed have no books.
LEMMA RemovedKept == ASSUME BooksKept, PaperSound, NEW p \in Users, Removed(p) PROVE BooksKept'
<1>1. Goto(p, "idle", Blank) /\ p \in Proc
  BY DEF Removed, RemoveDelete, Proc
<1>2. CASE Exists
  <2>1. positions' = [i \in DOMAIN positions |-> [NoPosition EXCEPT !.status = "DELETED"]]
    BY <1>2 DEF Removed, RemoveDelete
  <2>2. \A i : ~Runners(i)'
    BY <2>1 DEF Runners, NoPosition
  <2> QED BY <2>2 DEF BooksKept, Fresh
<1>3. CASE ~Exists
  <2>1. UNCHANGED <<positions, subs, trades>>
    BY <1>3 DEF Removed, RemoveDelete
  <2> QED BY <1>1, <2>1, TouchesNone DEF Fresh
<1> QED BY <1>2, <1>3

\* Every step keeps the books.
LEMMA StepKept ==
    ASSUME BooksKept, PaperInv, PaperSound, PaperSound', [Next]_vars
    PROVE  BooksKept'
<1>0. Exclusive
  BY DEF PaperInv
<1>1. CASE UNCHANGED vars
  BY <1>1, StillKept DEF vars
<1>2. CASE Manage /\ UNCHANGED <<subs, trades, running>>
  BY <1>2, ManageKept
<1>3. CASE \E p \in Users : Removed(p)
  BY <1>3, RemovedKept
<1>4. CASE Restart
  BY <1>4, StillKept DEF Restart, rows
<1>5. ASSUME NEW p \in Proc, TickStep(p) \/ \E job \in Requests : Request(p, job)
      PROVE  BooksKept'
  <2>1. UNCHANGED <<positions, subs, trades>>
    BY <1>5 DEF TickStep, TickRead, TickSkip, TickStart, TickQuote, Request, Fails, rows
  <2> QED BY <1>5, <2>1, QuietKept
<1>6. ASSUME NEW p \in Proc, PositionStep(p) PROVE BooksKept'
  <2>1. CASE TakeProfit(p) \/ Dca(p)
    BY <1>0, <2>1, CloseKept, DcaKept DEF TakeProfit, Dca
  <2>2. CASE ~(TakeProfit(p) \/ Dca(p))
    BY <1>0, <1>6, <2>2, OpenKept, LoadKept, CloseSubsKept DEF PositionStep
  <2> QED BY <2>1, <2>2
<1> QED BY <1>1, <1>2, <1>3, <1>4, <1>5, <1>6 DEF Next

\* The books of a position that only the runner has traded agree with its trades,
\* whatever its owner asks meanwhile of the others.
THEOREM PaperBalances == Spec => []PaperBooks
<1>1. Init => BooksKept
  <2>1. Init => /\ DOMAIN positions = {} /\ \A p \in Ticks : at[p] = "idle"
    BY DEF Init, Proc
  <2> QED BY <2>1 DEF BooksKept, Fresh
<1>2. BooksKept /\ PaperInv /\ PaperSound /\ PaperSound' /\ [Next]_vars => BooksKept'
  BY StepKept
<1>3. BooksKept => PaperBooks
  BY DEF BooksKept, Runners, Kept, Held, Returned, PaperBooks
<1> QED BY <1>1, <1>2, <1>3, PaperHolds, PaperStands, PTL DEF Spec
=============================================================================
