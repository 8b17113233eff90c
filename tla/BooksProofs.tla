----------------------------- MODULE BooksProofs -----------------------------
(***************************************************************************)
(* While only the schedulers place orders, one of each kind, and no retry  *)
(* has got through: one order is unresolved at a time, every snapshot is   *)
(* current when it is written back, and so the positions are what the      *)
(* order rows add up to.                                                   *)
(***************************************************************************)
EXTENDS OrderProofs

\* The locks hold, and the owner leaves the orders alone.
SchedulersAlone ==
    /\ \A p, q \in Runners : p = q
    /\ \A p, q \in Syncers : p = q
    /\ Requests \cap {"order", "close", "sync", "stop"} = {}

\* Places of an execution before its outcome, and those after the rows were read.
Busy == {"start", "claim", "create", "place", "commit"}
Admitted == {"claim", "create", "place", "commit"}

\* The jobs of the runner itself.
Original(job) == job.type # "NONE" /\ job.key.tries = <<>>
OriginalJob(job) ==
    /\ job.key.by = "auto" /\ job.key.type = job.type
    /\ job.type \in Exits <=> job.side = "SELL"
    /\ job.type = "INITIAL_ENTRY" <=> job.key.pos = NoId
    /\ job.type \in {"DCA_ENTRY", "INDEPENDENT_EXIT"} => job.key.tag = job.level
    /\ job.type = "PARENT_EXIT" => job.key.tag = 0
    /\ job.type = "DCA_ENTRY" => job.level < MaxDca + 2

\* Activity p at l works on a job of the runner or of a retry, or on an order.
Acts(p, l, v) ==
    /\ l \in {"tick"} \union Busy =>
          v.job.type # "NONE" /\ (Original(v.job) => p \in Runners /\ OriginalJob(v.job))
    /\ l = "claimRetry" => v.job.type # "NONE" /\ v.job.key.tries # <<>>
    /\ l = "tick" => Original(v.job)
    /\ l \in {"fetch", "apply"} => p \in Syncers

\* What an execution sells, its snapshot holds.
Stocked(job, row, sub, id) ==
    job.side = "SELL" =>
        /\ id # NoId
        /\ job.qty <= IF job.type = "INDEPENDENT_EXIT" THEN sub.qty ELSE row.qty

\* What the runner knows at l, and what a synchronization does: the position is
\* still the one the tick decided about, and nobody has written the rows since
\* they were read.
Fresh(l, v) ==
    /\ Original(v.job) /\ l \in {"tick"} \union Busy =>
          /\ v.job.level >= 1
          /\ \A i \in DOMAIN positions : positions[i].status = "OPEN" => i = v.job.key.pos
    /\ Original(v.job) /\ l \in Busy => UnresolvedOrders = {}
    /\ Original(v.job) /\ l \in Admitted =>
          /\ NewestOpen(v.pos)
          /\ v.row = RowOf(v.pos) /\ v.sub = SubOf(v.pos, v.job.level)
          /\ Stocked(v.job, v.row, v.sub, v.pos)
    /\ Original(v.job) /\ l = "commit" =>
          exchange[v.oid].qty = v.job.qty /\ exchange[v.oid].side = v.job.side
    /\ l \in {"fetch", "apply"} =>
          /\ v.oid \in UnresolvedOrders /\ v.order = orders[v.oid]
          /\ v.row = positions[v.order.pos]
          /\ v.sub = IF v.order.linked THEN SubOf(v.order.pos, v.order.level) ELSE NoSub

Bought(os) == Accounted(os, "BUY")
Sold(os) == Accounted(os, "SELL")

\* Positions and sub-positions hold what their order rows add up to.
Balanced ==
    /\ \A id \in DOMAIN positions : positions[id].qty + Sold(OrdersOf(id)) = Bought(OrdersOf(id))
    /\ \A id \in DOMAIN positions, level \in Nat :
          SubOf(id, level).qty + Sold(OrdersOfSub(<<id, level>>)) = Bought(OrdersOfSub(<<id, level>>))

\* One order at a time, one position at a time; a closed position is empty, an
\* order still to be executed can be, and a purchase has a position to go to.
Stock(order) == IF order.independent THEN SubOf(order.pos, order.level).qty
                ELSE positions[order.pos].qty
SoundOrder(order, x) ==
    /\ order.side = x.side
    /\ order.independent => order.level >= 1 /\ (order.side = "SELL" => order.linked)
    /\ order.status \in LiveOrder =>
          /\ order.side = "SELL" => x.qty <= Stock(order) + order.accounted
          /\ order.side = "BUY" /\ ~order.independent => positions[order.pos].status = "OPEN"
Sound ==
    /\ \A o, i \in UnresolvedOrders : o = i
    /\ \A i, j \in DOMAIN positions :
          positions[i].status = "OPEN" /\ positions[j].status = "OPEN" => i = j
    /\ \A i \in DOMAIN positions : positions[i].status = "CLOSED" => positions[i].qty = 0
    /\ \A s \in DOMAIN subs : s[2] >= 1
    /\ \A o \in DOMAIN orders : SoundOrder(orders[o], exchange[o])

Limits == \A o \in DOMAIN exchange : exchange[o].executed <= exchange[o].qty
Acting == \A p \in Proc : Acts(p, pc[p], mem[p])
Kept == Sound /\ Balanced /\ \A p \in Proc : Fresh(pc[p], mem[p])

BooksInv == Limits /\ Acting /\ (~Retried => Kept)

-----------------------------------------------------------------------------
(* Counting lots *)

\* Lots are finitely many.
LEMMA LotsFinite ==
    ASSUME NEW S, IsFiniteSet(S), NEW f \in [S -> Nat]
    PROVE  IsFiniteSet(LotsIn(f)) /\ Total(f) \in Nat
<1> DEFINE lots == [o \in S |-> {o} \X (1..f[o])]
           T == {{o} \X (1..f[o]) : o \in S}
<1>1. lots \in Surjection(S, T)
  BY DEF Surjection
<1>2. IsFiniteSet(T)
  BY <1>1, FS_Surjection
<1>3. ASSUME NEW o \in S PROVE IsFiniteSet({o} \X (1..f[o]))
  <2>1. 1 \in Int /\ f[o] \in Int
    OBVIOUS
  <2>2. IsFiniteSet({o}) /\ IsFiniteSet(1..f[o])
    BY <2>1, FS_Singleton, FS_Interval
  <2>3. QED
    BY <2>2, FS_Product
<1>4. LotsIn(f) = UNION T
  BY DEF LotsIn
<1>5. IsFiniteSet(LotsIn(f))
  BY <1>2, <1>3, <1>4, FS_UNION
<1>6. QED
  BY <1>5, FS_CardinalityType DEF Total

\* d lots more of o.
LEMMA TotalAdds ==
    ASSUME NEW S, IsFiniteSet(S), NEW f \in [S -> Nat], NEW o, NEW d \in Nat,
           NEW n \in Nat, n = (IF o \in S THEN f[o] ELSE 0),
           NEW g \in [S \union {o} -> Nat],
           \A i \in S \ {o} : g[i] = f[i], g[o] = n + d
    PROVE  Total(g) = Total(f) + d
<1> DEFINE more == {o} \X (n + 1 .. n + d)
<1>1. IsFiniteSet(LotsIn(f)) /\ Total(f) \in Nat
  BY LotsFinite
<1>2. IsFiniteSet(more) /\ Cardinality(more) = d
  <2>1. IsFiniteSet(n + 1 .. n + d) /\ Cardinality(n + 1 .. n + d) = d
    <3>1. PICK a \in Int, b \in Int : a = n + 1 /\ b = n + d
      OBVIOUS
    <3>2. IsFiniteSet(a..b) /\ Cardinality(a..b) = IF a > b THEN 0 ELSE b - a + 1
      BY FS_Interval
    <3>3. QED
      BY <3>1, <3>2
  <2>2. IsFiniteSet({o}) /\ Cardinality({o}) = 1
    BY FS_Singleton
  <2>3. IsFiniteSet(more)
        /\ Cardinality(more) = Cardinality({o}) * Cardinality(n + 1 .. n + d)
    BY <2>1, <2>2, FS_Product
  <2>4. QED
    BY <2>1, <2>2, <2>3
<1>3. LotsIn(g) = LotsIn(f) \union more
  <2>1. \A i \in S \ {o} : {i} \X (1..g[i]) = {i} \X (1..f[i])
    OBVIOUS
  <2>2. {o} \X (1..g[o]) = ({o} \X (1..n)) \union more
    <3>1. 1..g[o] = (1..n) \union (n + 1 .. n + d)
      OBVIOUS
    <3>2. QED
      BY <3>1
  <2>3. CASE o \in S
    BY <2>1, <2>2, <2>3 DEF LotsIn
  <2>4. CASE o \notin S
    <3>1. 1..n = {}
      BY <2>4
    <3>2. {o} \X (1..g[o]) = more
      BY <2>2, <3>1
    <3>3. QED
      BY <2>1, <2>4, <3>2 DEF LotsIn
  <2>5. QED
    BY <2>3, <2>4
<1>4. LotsIn(f) \cap more = {}
  <2>1. ASSUME NEW x \in LotsIn(f), x \in more PROVE FALSE
    <3>1. PICK i \in S : x \in {i} \X (1..f[i])
      BY DEF LotsIn
    <3>2. i = o /\ x[2] \in 1..f[o] /\ x[2] \in n + 1 .. n + d
      BY <2>1, <3>1
    <3>3. QED
      BY <3>1, <3>2
  <2>2. QED
    BY <2>1
<1>5. Cardinality(LotsIn(f) \union more) = Cardinality(LotsIn(f)) + Cardinality(more)
  <2>1. Cardinality(LotsIn(f)) \in Nat
    BY <1>1 DEF Total
  <2>2. Cardinality(LotsIn(f) \union more)
          = Cardinality(LotsIn(f)) + Cardinality(more) - Cardinality(LotsIn(f) \cap more)
    BY <1>1, <1>2, FS_Union
  <2>3. Cardinality(LotsIn(f) \cap more) = 0
    BY <1>4, FS_EmptySet
  <2>4. QED
    BY <1>2, <2>1, <2>2, <2>3
<1>6. QED
  BY <1>2, <1>3, <1>5 DEF Total

\* No lots of nothing.
LEMMA TotalNone == ASSUME NEW f, DOMAIN f = {} PROVE Total(f) = 0
<1>1. LotsIn(f) = {}
  BY DEF LotsIn
<1>2. QED
  BY <1>1, FS_EmptySet DEF Total
-----------------------------------------------------------------------------
(* Accounts *)

\* The order rows gain d lots of o, and nothing else that is counted.
Gains(o, d) ==
    /\ DOMAIN orders' = DOMAIN orders \union {o}
    /\ \A i \in DOMAIN orders \ {o} : orders'[i] = orders[i]
    /\ orders'[o].accounted = d + IF o \in DOMAIN orders THEN orders[o].accounted ELSE 0
    /\ o \in DOMAIN orders =>
          /\ orders'[o].pos = orders[o].pos /\ orders'[o].side = orders[o].side
          /\ orders'[o].level = orders[o].level
          /\ orders'[o].independent = orders[o].independent

\* The order rows are finitely many.
LEMMA OrdersFinite ==
    ASSUME RowsOK
    PROVE  IsFiniteSet(DOMAIN orders) /\ \A o \in DOMAIN orders : orders[o].accounted \in Nat
<1>1. PICK n \in Nat : DOMAIN exchange = 1..n
  BY DEF RowsOK
<1>2. 1 \in Int /\ n \in Int
  OBVIOUS
<1>3. IsFiniteSet(1..n)
  BY <1>2, FS_Interval
<1>4. IsFiniteSet(DOMAIN orders)
  BY <1>1, <1>3, FS_Subset DEF RowsOK
<1>5. \A o \in DOMAIN orders : orders[o] \in Order
  BY DEF RowsOK
<1>6. QED
  BY <1>4, <1>5 DEF Order

\* The account of any orders is a number.
LEMMA AccountOK ==
    ASSUME RowsOK, NEW os, os \subseteq DOMAIN orders, NEW side
    PROVE  /\ IsFiniteSet({o \in os : orders[o].side = side})
           /\ [o \in {o \in os : orders[o].side = side} |-> orders[o].accounted]
                 \in [{o \in os : orders[o].side = side} -> Nat]
           /\ Accounted(os, side) \in Nat
<1> DEFINE S == {o \in os : orders[o].side = side}
           f == [o \in S |-> orders[o].accounted]
<1>1. IsFiniteSet(S)
  <2>1. S \in SUBSET (DOMAIN orders)
    OBVIOUS
  <2>2. QED
    BY <2>1, OrdersFinite, FS_Subset
<1>2. f \in [S -> Nat]
  BY OrdersFinite
<1>3. Accounted(os, side) = Total(f)
  BY DEF Accounted
<1> HIDE DEF S, f
<1>4. Total(f) \in Nat
  BY <1>1, <1>2, LotsFinite
<1>5. QED
  BY <1>1, <1>2, <1>3, <1>4 DEF S, f

\* How the account of some orders grows: os they are before, qs after.
LEMMA AccountGains ==
    ASSUME RowsOK, RowsOK', NEW o, NEW d \in Nat, Gains(o, d), NEW os, NEW qs, NEW side,
           os \subseteq DOMAIN orders, qs \subseteq DOMAIN orders', qs \ {o} = os \ {o},
           o \in DOMAIN orders => (o \in os <=> o \in qs)
    PROVE  Total([i \in {i \in qs : orders'[i].side = side} |-> orders'[i].accounted])
              = Accounted(os, side) + IF o \in qs /\ orders'[o].side = side THEN d ELSE 0
<1> DEFINE S == {i \in os : orders[i].side = side}
           f == [i \in S |-> orders[i].accounted]
           T == {i \in qs : orders'[i].side = side}
           g == [i \in T |-> orders'[i].accounted]
<1>1. IsFiniteSet(S) /\ f \in [S -> Nat] /\ Accounted(os, side) \in Nat
      /\ Accounted(os, side) = Total(f)
  <2>1. Accounted(os, side) = Total(f)
    BY DEF Accounted
  <2>2. IsFiniteSet(S)
    BY AccountOK, Zenon
  <2>3. f \in [S -> Nat]
    BY OrdersFinite
  <2>4. Accounted(os, side) \in Nat
    BY AccountOK, Zenon
  <2>5. QED
    BY <2>1, <2>2, <2>3, <2>4
<1>2. \A i \in S \ {o} : i \in T /\ f[i] = g[i]
  BY DEF Gains
<1>3. \A i \in T \ {o} : i \in S
  BY DEF Gains
<1>4. CASE o \in T
  <2>1. T = S \union {o}
    BY <1>2, <1>3, <1>4
  <2>2. PICK n \in Nat : n = IF o \in S THEN f[o] ELSE 0
    BY <1>1
  <2>3. o \in S <=> o \in DOMAIN orders
    BY <1>4 DEF Gains
  <2>4. g[o] = n + d
    <3>1. g[o] = orders'[o].accounted
      BY <1>4
    <3>2. n = IF o \in DOMAIN orders THEN orders[o].accounted ELSE 0
      BY <2>2, <2>3
    <3>3. QED
      BY <3>1, <3>2 DEF Gains
  <2>5. g \in [S \union {o} -> Nat]
    <3>1. \A i \in DOMAIN orders' : orders'[i].accounted \in Nat
      <4>1. \A i \in DOMAIN orders' : orders'[i] \in Order
        BY DEF RowsOK
      <4>2. QED
        BY <4>1 DEF Order
    <3>2. QED
      BY <2>1, <3>1
  <2> HIDE DEF S, f, T, g
  <2>6. Total(g) = Total(f) + d
    BY <1>1, <1>2, <2>2, <2>4, <2>5, TotalAdds
  <2>7. QED
    BY <1>1, <1>4, <2>6 DEF g, T
<1>5. CASE o \notin T
  <2>1. o \notin S
    BY <1>5 DEF Gains
  <2>2. S = T
    BY <1>2, <1>3, <1>5, <2>1
  <2>3. f = g
    BY <1>2, <2>1, <2>2
  <2>4. ~(o \in qs /\ orders'[o].side = side)
    BY <1>5
  <2>5. Total(g) = Accounted(os, side) + 0
    BY <1>1, <2>3
  <2>6. QED
    BY <2>4, <2>5
<1>6. QED
  BY <1>4, <1>5

\* The account of a position, and that of a sub-position.
LEMMA ParentGains ==
    ASSUME RowsOK, RowsOK', NEW o, NEW d \in Nat, Gains(o, d), NEW id, NEW side
    PROVE  Accounted(OrdersOf(id), side)' = Accounted(OrdersOf(id), side)
              + IF /\ orders'[o].pos = id /\ ~orders'[o].independent
                   /\ orders'[o].side = side THEN d ELSE 0
<1>1. PICK os, qs : os = OrdersOf(id) /\ qs = OrdersOf(id)'
  OBVIOUS
<1>2. /\ os \subseteq DOMAIN orders /\ qs \subseteq DOMAIN orders' /\ qs \ {o} = os \ {o}
      /\ o \in DOMAIN orders => (o \in os <=> o \in qs)
      /\ o \in qs <=> orders'[o].pos = id /\ ~orders'[o].independent
  BY <1>1 DEF OrdersOf, Gains
<1>3. Total([i \in {i \in qs : orders'[i].side = side} |-> orders'[i].accounted])
         = Accounted(os, side) + IF o \in qs /\ orders'[o].side = side THEN d ELSE 0
  BY <1>2, AccountGains
<1>4. Accounted(OrdersOf(id), side)'
         = Total([i \in {i \in qs : orders'[i].side = side} |-> orders'[i].accounted])
  BY <1>1 DEF Accounted
<1>5. QED
  BY <1>1, <1>2, <1>3, <1>4

LEMMA SubGains ==
    ASSUME RowsOK, RowsOK', NEW o, NEW d \in Nat, Gains(o, d), NEW s, NEW side
    PROVE  Accounted(OrdersOfSub(s), side)' = Accounted(OrdersOfSub(s), side)
              + IF /\ orders'[o].pos = s[1] /\ orders'[o].level = s[2]
                   /\ orders'[o].independent /\ orders'[o].side = side THEN d ELSE 0
<1>1. PICK os, qs : os = OrdersOfSub(s) /\ qs = OrdersOfSub(s)'
  OBVIOUS
<1>2. /\ os \subseteq DOMAIN orders /\ qs \subseteq DOMAIN orders' /\ qs \ {o} = os \ {o}
      /\ o \in DOMAIN orders => (o \in os <=> o \in qs)
      /\ o \in qs <=> orders'[o].pos = s[1] /\ orders'[o].level = s[2] /\ orders'[o].independent
  BY <1>1 DEF OrdersOfSub, Gains
<1>3. Total([i \in {i \in qs : orders'[i].side = side} |-> orders'[i].accounted])
         = Accounted(os, side) + IF o \in qs /\ orders'[o].side = side THEN d ELSE 0
  BY <1>2, AccountGains
<1>4. Accounted(OrdersOfSub(s), side)'
         = Total([i \in {i \in qs : orders'[i].side = side} |-> orders'[i].accounted])
  BY <1>1 DEF Accounted
<1>5. QED
  BY <1>1, <1>2, <1>3, <1>4

\* A position that has no orders has no account.
LEMMA NoAccount ==
    ASSUME RowsOK, NEW id, id \notin DOMAIN positions, NEW level, NEW side
    PROVE  /\ Accounted(OrdersOf(id), side) = 0
           /\ Accounted(OrdersOfSub(<<id, level>>), side) = 0
           /\ SubOf(id, level).qty = 0
<1>1. OrdersOf(id) = {} /\ OrdersOfSub(<<id, level>>) = {}
  BY DEF OrdersOf, OrdersOfSub, RowsOK
<1>2. Accounted({}, side) = 0
  BY TotalNone DEF Accounted
<1>3. <<id, level>> \notin DOMAIN subs
  BY DEF RowsOK
<1>4. QED
  BY <1>1, <1>2, <1>3 DEF SubOf, NoSub

\* A quantity follows d lots bought or sold.
Changes(old, new, side, d) == IF side = "BUY" THEN new = old + d ELSE new + d = old
QtyOf(id) == IF id \in DOMAIN positions THEN positions[id].qty ELSE 0

\* If rows and positions change alike, they stay balanced.
LEMMA BalanceStep ==
    ASSUME RowsOK, RowsOK', Balanced, NEW o, NEW d \in Nat, Gains(o, d), 
           \A i \in DOMAIN positions' :
              IF orders'[o].pos = i /\ ~orders'[o].independent
              THEN Changes(QtyOf(i), positions'[i].qty, orders'[o].side, d)
              ELSE positions'[i].qty = QtyOf(i),
           \A i \in DOMAIN positions', level \in Nat :
              IF orders'[o].pos = i /\ orders'[o].level = level /\ orders'[o].independent
              THEN Changes(SubOf(i, level).qty, SubOf(i, level)'.qty, orders'[o].side, d)
              ELSE SubOf(i, level)'.qty = SubOf(i, level).qty
    PROVE  Balanced'
<1>1. PICK side : side = orders'[o].side
  OBVIOUS
<1>2. side \in Side
  BY <1>1 DEF RowsOK, Gains, Order
<1>3. ASSUME NEW i \in DOMAIN positions'
      PROVE  positions'[i].qty + Accounted(OrdersOf(i), "SELL")' = Accounted(OrdersOf(i), "BUY")'
  <2>1. /\ QtyOf(i) + Accounted(OrdersOf(i), "SELL") = Accounted(OrdersOf(i), "BUY")
        /\ QtyOf(i) \in Nat
    <3>1. CASE i \in DOMAIN positions
      <4>1. positions[i] \in Position
        BY <3>1 DEF RowsOK
      <4>2. positions[i].qty \in Nat /\ QtyOf(i) = positions[i].qty
        BY <3>1, <4>1 DEF Position, QtyOf
      <4>3. QED
        BY <3>1, <4>2 DEF Balanced, Bought, Sold
    <3>2. CASE i \notin DOMAIN positions
      <4>1. QtyOf(i) = 0
        BY <3>2 DEF QtyOf
      <4>2. Accounted(OrdersOf(i), "SELL") = 0 /\ Accounted(OrdersOf(i), "BUY") = 0
        BY <3>2, NoAccount
      <4>3. QED
        BY <4>1, <4>2
    <3>3. QED
      BY <3>1, <3>2
  <2>2. Accounted(OrdersOf(i), "SELL") \in Nat /\ Accounted(OrdersOf(i), "BUY") \in Nat
    <3>1. OrdersOf(i) \subseteq DOMAIN orders
      BY DEF OrdersOf
    <3>2. QED
      BY <3>1, AccountOK
  <2>3. positions'[i].qty \in Nat
    <3>1. positions'[i] \in Position
      BY DEF RowsOK
    <3>2. QED
      BY <3>1 DEF Position
  <2>4. PICK a, b, c, e : /\ a = Accounted(OrdersOf(i), "SELL") /\ b = Accounted(OrdersOf(i), "BUY")
                          /\ c = Accounted(OrdersOf(i), "SELL")' /\ e = Accounted(OrdersOf(i), "BUY")'
    OBVIOUS
  <2>5. CASE orders'[o].pos = i /\ ~orders'[o].independent
    <3>1. c = a + (IF side = "SELL" THEN d ELSE 0) /\ e = b + (IF side = "BUY" THEN d ELSE 0)
      BY <1>1, <2>4, <2>5, ParentGains
    <3>2. Changes(QtyOf(i), positions'[i].qty, side, d)
      BY <1>1, <2>5
    <3>3. QED
      BY <1>2, <2>1, <2>2, <2>3, <2>4, <3>1, <3>2 DEF Changes, Side
  <2>6. CASE ~(orders'[o].pos = i /\ ~orders'[o].independent)
    <3>1. c = a /\ e = b
      <4>1. c = a + 0 /\ e = b + 0
        BY <2>4, <2>6, ParentGains
      <4>2. QED
        BY <2>2, <2>4, <4>1
    <3>2. positions'[i].qty = QtyOf(i)
      BY <2>6
    <3>3. QED
      BY <2>1, <2>4, <3>1, <3>2
  <2>7. QED
    BY <2>5, <2>6
<1>4. ASSUME NEW i \in DOMAIN positions', NEW level \in Nat
      PROVE  SubOf(i, level)'.qty + Accounted(OrdersOfSub(<<i, level>>), "SELL")'
                = Accounted(OrdersOfSub(<<i, level>>), "BUY")'
  <2>1. /\ SubOf(i, level).qty + Accounted(OrdersOfSub(<<i, level>>), "SELL")
              = Accounted(OrdersOfSub(<<i, level>>), "BUY")
        /\ SubOf(i, level).qty \in Nat
    <3>1. SubOf(i, level).qty \in Nat
      BY SubOfOK DEF Sub
    <3>2. CASE i \in DOMAIN positions
      BY <3>1, <3>2 DEF Balanced, Bought, Sold
    <3>3. CASE i \notin DOMAIN positions
      BY <3>3, NoAccount
    <3>4. QED
      BY <3>1, <3>2, <3>3
  <2>2. /\ Accounted(OrdersOfSub(<<i, level>>), "SELL") \in Nat
        /\ Accounted(OrdersOfSub(<<i, level>>), "BUY") \in Nat
    <3>1. OrdersOfSub(<<i, level>>) \subseteq DOMAIN orders
      BY DEF OrdersOfSub
    <3>2. QED
      BY <3>1, AccountOK
  <2>3. SubOf(i, level)'.qty \in Nat
    BY DEF SubOf, NoSub, RowsOK, Sub
  <2>4. PICK a, b, c, e : /\ a = Accounted(OrdersOfSub(<<i, level>>), "SELL")
                          /\ b = Accounted(OrdersOfSub(<<i, level>>), "BUY")
                          /\ c = Accounted(OrdersOfSub(<<i, level>>), "SELL")'
                          /\ e = Accounted(OrdersOfSub(<<i, level>>), "BUY")'
    OBVIOUS
  <2>5. PICK s : s = <<i, level>>
    OBVIOUS
  <2>6. s[1] = i /\ s[2] = level
    BY <2>5
  <2>7. CASE orders'[o].pos = i /\ orders'[o].level = level /\ orders'[o].independent
    <3>1. c = a + (IF side = "SELL" THEN d ELSE 0) /\ e = b + (IF side = "BUY" THEN d ELSE 0)
      BY <1>1, <2>4, <2>5, <2>6, <2>7, SubGains
    <3>2. Changes(SubOf(i, level).qty, SubOf(i, level)'.qty, side, d)
      BY <1>1, <2>7
    <3>3. QED
      BY <1>2, <2>1, <2>2, <2>3, <2>4, <3>1, <3>2 DEF Changes, Side
  <2>8. CASE ~(orders'[o].pos = i /\ orders'[o].level = level /\ orders'[o].independent)
    <3>1. c = a /\ e = b
      <4>1. c = a + 0 /\ e = b + 0
        BY <2>4, <2>5, <2>6, <2>8, SubGains
      <4>2. QED
        BY <2>2, <2>4, <4>1
    <3>2. SubOf(i, level)'.qty = SubOf(i, level).qty
      BY <2>8
    <3>3. QED
      BY <2>1, <2>4, <3>1, <3>2
  <2>9. QED
    BY <2>7, <2>8
<1>5. QED
  BY <1>3, <1>4 DEF Balanced, Bought, Sold

-----------------------------------------------------------------------------
(* Steps that leave positions and order rows alone *)

\* Places where an activity has something to know or to do.
Places == {"tick", "claimRetry", "fetch", "apply"} \union Busy

\* What an order asks for stays what it was.
Steady == \A o \in DOMAIN exchange : /\ o \in DOMAIN exchange'
                                     /\ exchange'[o].qty = exchange[o].qty
                                     /\ exchange'[o].side = exchange[o].side

\* Books that nothing touches stay sound ...
LEMMA SoundOn ==
    ASSUME RowsOK, Sound, Balanced, UNCHANGED <<positions, subs, orders>>, Steady
    PROVE  Sound' /\ Balanced'
<1>1. Balanced'
  <2>1. \A i : OrdersOf(i)' = OrdersOf(i) /\ OrdersOfSub(i)' = OrdersOfSub(i)
    BY DEF OrdersOf, OrdersOfSub
  <2>2. \A i, side : /\ Accounted(OrdersOf(i), side)' = Accounted(OrdersOf(i), side)
                     /\ Accounted(OrdersOfSub(i), side)' = Accounted(OrdersOfSub(i), side)
    BY <2>1 DEF Accounted
  <2>3. \A i, level : SubOf(i, level)' = SubOf(i, level)
    BY DEF SubOf
  <2>4. QED
    BY <2>2, <2>3 DEF Balanced, Bought, Sold
<1>2. \A o \in DOMAIN orders : exchange'[o].qty = exchange[o].qty /\ exchange'[o].side = exchange[o].side
  BY DEF RowsOK, Steady
<1>3. ASSUME NEW o \in DOMAIN orders PROVE SoundOrder(orders[o], exchange[o])'
  BY <1>2 DEF Sound, SoundOrder, Stock, SubOf
<1>4. QED
  BY <1>1, <1>3 DEF Sound, UnresolvedOrders

\* ... and so does what is known of them.
LEMMA FreshOn ==
    ASSUME UNCHANGED <<positions, subs, orders>>, NEW l, NEW v, Fresh(l, v),
           l = "commit" => /\ exchange'[v.oid].qty = exchange[v.oid].qty
                           /\ exchange'[v.oid].side = exchange[v.oid].side
    PROVE  Fresh(l, v)'
BY DEF Fresh, NewestOpen, RowOf, SubOf, UnresolvedOrders

\* A step of p to l with locals v.
LEMMA StepBooks ==
    ASSUME RowsOK, LocalsOK, BooksInv, NEW p \in Proc, NEW l, NEW v, Goes(p, l, v),
           UNCHANGED <<positions, subs, orders>>, Steady, Limits',
           DOMAIN actions \subseteq DOMAIN actions',
           Acts(p, l, v), ~Retried' /\ Kept => Fresh(l, v)'
    PROVE  BooksInv'
<1>1. pc'[p] = l /\ mem'[p] = v /\ \A q \in Proc \ {p} : pc'[q] = pc[q] /\ mem'[q] = mem[q]
  BY DEF Goes, LocalsOK
<1>2. Acting'
  BY <1>1 DEF BooksInv, Acting, Acts
<1>3. ASSUME ~Retried' PROVE Kept'
  <2>1. Kept
    BY <1>3 DEF BooksInv, Retried
  <2>2. ASSUME NEW q \in Proc \ {p} PROVE Fresh(pc[q], mem[q])'
    <3>1. PICK k, u : k = pc[q] /\ u = mem[q]
      OBVIOUS
    <3>2. Fresh(k, u) /\ LocalOK(k, u)
      BY <2>1, <3>1 DEF Kept, LocalsOK
    <3>3. k = "commit" => /\ exchange'[u.oid].qty = exchange[u.oid].qty
                          /\ exchange'[u.oid].side = exchange[u.oid].side
      BY <3>2 DEF LocalOK, Steady
    <3>4. Fresh(k, u)'
      BY <3>2, <3>3, FreshOn
    <3>5. QED
      BY <1>1, <3>1, <3>4
  <2>3. Fresh(pc[p], mem[p])'
    BY <1>1, <1>3, <2>1
  <2>4. QED
    BY <2>1, <2>2, <2>3, SoundOn DEF Kept
<1>4. QED
  BY <1>2, <1>3 DEF BooksInv

\* The exchange is left alone as well.
LEMMA QuietBooks ==
    ASSUME RowsOK, LocalsOK, BooksInv, NEW p \in Proc, NEW l, NEW v, Goes(p, l, v),
           UNCHANGED <<positions, subs, orders, exchange>>,
           DOMAIN actions \subseteq DOMAIN actions',
           Acts(p, l, v), ~Retried /\ Kept => Fresh(l, v)
    PROVE  BooksInv'
<1>1. Steady /\ Limits'
  BY DEF Steady, Limits, BooksInv
<1>2. ASSUME ~Retried', Kept PROVE Fresh(l, v)'
  BY <1>2, FreshOn DEF Retried
<1>3. QED
  BY <1>1, <1>2, StepBooks

\* p goes where it has nothing to know.
LEMMA ElsewhereBooks ==
    ASSUME RowsOK, LocalsOK, BooksInv, NEW p \in Proc, NEW l, NEW v, Goes(p, l, v), l \notin Places,
           UNCHANGED <<positions, subs, orders, exchange>>, DOMAIN actions \subseteq DOMAIN actions'
    PROVE  BooksInv'
<1>1. Acts(p, l, v) /\ Fresh(l, v)
  BY DEF Acts, Fresh, Places, Busy, Admitted
<1>2. QED
  BY <1>1, QuietBooks

LEMMA ReturnBooks ==
    ASSUME RowsOK, LocalsOK, BooksInv, NEW p \in Proc, Return(p),
           UNCHANGED <<positions, subs, orders, exchange>>, DOMAIN actions \subseteq DOMAIN actions'
    PROVE  BooksInv'
<1>1. Goes(p, "idle", Blank) /\ "idle" \notin Places
  BY DEF Return, Goto, Goes, Places, Busy
<1>2. QED
  BY <1>1, ElsewhereBooks

LEMMA ThrowBooks ==
    ASSUME RowsOK, LocalsOK, BooksInv, NEW p \in Proc, NEW retry, Throw(p, retry),
           UNCHANGED <<positions, subs, orders, exchange>>, DOMAIN actions \subseteq DOMAIN actions'
    PROVE  BooksInv'
<1>1. CASE p \notin Retriers
  BY <1>1, ReturnBooks DEF Throw
<1>2. CASE p \in Retriers
  <2>1. Goes(p, "giveUp", [Blank EXCEPT !.orig = mem[p].orig, !.retry = retry])
    BY <1>2 DEF Throw, Goto, Goes
  <2>2. "giveUp" \notin Places
    BY DEF Places, Busy
  <2>3. QED
    BY <2>1, <2>2, ElsewhereBooks
<1>3. QED
  BY <1>1, <1>2

\* No activity moves.
LEMMA StillBooks ==
    ASSUME RowsOK, LocalsOK, BooksInv, UNCHANGED <<positions, subs, orders, pc, mem, actions>>,
           Steady, Limits'
    PROVE  BooksInv'
<1>1. Acting'
  BY DEF BooksInv, Acting, Acts
<1>2. ASSUME ~Retried' PROVE Kept'
  <2>1. Kept
    BY <1>2 DEF BooksInv, Retried
  <2>2. ASSUME NEW q \in Proc PROVE Fresh(pc[q], mem[q])'
    <3>1. PICK k, u : k = pc[q] /\ u = mem[q]
      OBVIOUS
    <3>2. Fresh(k, u) /\ LocalOK(k, u)
      BY <2>1, <3>1 DEF Kept, LocalsOK
    <3>3. k = "commit" => /\ exchange'[u.oid].qty = exchange[u.oid].qty
                          /\ exchange'[u.oid].side = exchange[u.oid].side
      BY <3>2 DEF LocalOK, Steady
    <3>4. Fresh(k, u)'
      BY <3>2, <3>3, FreshOn
    <3>5. QED
      BY <3>1, <3>4
  <2>3. QED
    BY <2>1, <2>2, SoundOn DEF Kept
<1>3. QED
  BY <1>1, <1>2 DEF BooksInv

\* The effects on an action row leave the table its keys.
LEMMA KeysKept ==
    ASSUME NEW k, NEW permanent,
           MarkCompleted(k) \/ MarkFailed(k, permanent) \/ Reopen(k) \/ CancelRetry(k)
    PROVE  DOMAIN actions' = DOMAIN actions
BY DEF MarkCompleted, MarkFailed, Reopen, CancelRetry

\* Where an activity has read a row it is about to mark as failed.
Verdicts == {"failWrite", "giveUpWrite", "recoverWrite"}

\* It only goes there.
LEMMA VerdictGoes ==
    ASSUME NEW p \in Proc,
           GiveUpRead(p) \/ RecoverEnded(p) \/ (FailRead(p) /\ mem[p].job.type # "NONE")
    PROVE  /\ UNCHANGED <<positions, subs, orders, exchange, actions>>
           /\ \E l \in Verdicts : \E v : Goes(p, l, v)
<1>1. UNCHANGED <<positions, subs, orders, exchange, actions>>
  BY DEF GiveUpRead, RecoverEnded, FailRead, rows
<1>2. PICK l, permanent : /\ l \in Verdicts /\ Goto(p, l)
                          /\ mem' = [mem EXCEPT ![p].permanent = permanent]
  BY DEF GiveUpRead, RecoverEnded, FailRead, Verdicts
<1>3. Goes(p, l, [mem[p] EXCEPT !.permanent = permanent])
  BY <1>2 DEF Goes, Goto
<1>4. QED
  BY <1>1, <1>2, <1>3

LEMMA VerdictBooks ==
    ASSUME RowsOK, LocalsOK, BooksInv, NEW p \in Proc,
           GiveUpRead(p) \/ RecoverEnded(p) \/ (FailRead(p) /\ mem[p].job.type # "NONE")
    PROVE  BooksInv'
<1>1. PICK l \in Verdicts : \E v : Goes(p, l, v)
  BY VerdictGoes
<1>2. PICK v : Goes(p, l, v)
  BY <1>1
<1>3. l \notin Places
  BY DEF Verdicts, Places, Busy
<1>4. UNCHANGED <<positions, subs, orders, exchange, actions>>
  BY VerdictGoes
<1>5. QED
  BY <1>2, <1>3, <1>4, ElsewhereBooks

-----------------------------------------------------------------------------
(* A tick *)

\* The jobs a tick decides on.
LEMMA DecisionOriginal ==
    ASSUME RowsOK, NEW id \in DOMAIN positions \union {NoId}, NEW job \in Decisions(id)
    PROVE  /\ Original(job) /\ OriginalJob(job) /\ job.key.pos = id
           /\ (\A s \in DOMAIN subs : s[2] >= 1) => job.level >= 1
<1>1. /\ id # NoId => positions[id].dca \in Nat
      /\ MaxDca \in Nat /\ IndependentFrom \in Nat
      /\ id \in DOMAIN positions => id # NoId
  <2>1. id # NoId => positions[id] \in Position
    BY DEF RowsOK
  <2>2. id \in DOMAIN positions => id # NoId
    BY DEF RowsOK, NoId
  <2>3. QED
    BY <2>1, <2>2, BoundsAssumption DEF Position
<1>2. CASE id = NoId
  <2>1. job = InitialEntry
    BY <1>2 DEF Decisions
  <2>2. QED
    BY <1>2, <2>1 DEF InitialEntry, AutoJob, Original, OriginalJob, Exits
<1>3. CASE id # NoId /\ job = ParentExit(id)
  <2>1. positions[id].dca + 1 >= 1
    BY <1>1, <1>3
  <2>2. QED
    BY <1>3, <2>1 DEF ParentExit, AutoJob, Original, OriginalJob, Exits
<1>4. CASE id # NoId /\ job = NextEntry(id) /\ positions[id].dca < MaxDca
  <2>1. PICK level, type : level = positions[id].dca + 2
           /\ type = IF level >= IndependentFrom THEN "INDEPENDENT_ENTRY" ELSE "DCA_ENTRY"
    OBVIOUS
  <2>2. level >= 1 /\ level < MaxDca + 2
    BY <1>1, <1>4, <2>1
  <2>3. job = AutoJob(type, "BUY", id, level, Lots, level)
    BY <1>4, <2>1 DEF NextEntry
  <2>4. QED
    BY <1>4, <2>1, <2>2, <2>3 DEF AutoJob, Original, OriginalJob, Exits
<1>5. CASE id # NoId /\ job \in IndependentExits(id)
  <2>1. PICK s \in DOMAIN subs : /\ s[1] = id /\ subs[s].qty > 0
                                 /\ job = AutoJob("INDEPENDENT_EXIT", "SELL", id, s[2], subs[s].qty, s[2])
    BY <1>5 DEF IndependentExits
  <2>2. QED
    BY <1>5, <2>1 DEF AutoJob, Original, OriginalJob, Exits
<1>6. QED
  BY <1>2, <1>3, <1>4, <1>5 DEF Decisions

LEMMA TickBooks ==
    ASSUME RowsOK, LocalsOK, BooksInv, NEW p \in Proc, TickStep(p)
    PROVE  BooksInv'
<1>1. CASE TickDecide(p)
  <2>1. PICK id \in DOMAIN positions \union {NoId} :
           NewestOpen(id) /\ \E job \in Decisions(id) : mem' = [mem EXCEPT ![p].job = job]
    BY <1>1 DEF TickDecide
  <2>2. PICK job \in Decisions(id) : mem' = [mem EXCEPT ![p].job = job]
    BY <2>1
  <2>3. PICK v : v = [mem[p] EXCEPT !.job = job]
    OBVIOUS
  <2>4. Goes(p, "tick", v) /\ v.job = job
    BY <1>1, <2>2, <2>3 DEF TickDecide, Goto, Goes, LocalsOK, Memory
  <2>5. Acts(p, "tick", v)
    BY <1>1, <2>4, DecisionOriginal DEF Acts, TickDecide, Busy, Original
  <2>6. ASSUME Kept PROVE Fresh("tick", v)
    <3>1. \A i \in DOMAIN positions : positions[i].status = "OPEN" => i = id
      BY <2>1, <2>6 DEF NewestOpen, Kept, Sound
    <3>2. job.level >= 1 /\ job.key.pos = id
      BY <2>6, DecisionOriginal DEF Kept, Sound
    <3>3. QED
      BY <2>4, <3>1, <3>2 DEF Fresh, Busy, Admitted
  <2>7. UNCHANGED <<positions, subs, orders, exchange, actions>>
    BY <1>1 DEF TickDecide, rows
  <2>8. QED
    BY <2>4, <2>5, <2>6, <2>7, QuietBooks
<1>2. CASE TickSkip(p)
  BY <1>2, ReturnBooks DEF TickSkip, rows
<1>3. CASE TickExecute(p)
  <2>1. PICK v : v = mem[p]
    OBVIOUS
  <2>2. Goes(p, "start", v) /\ pc[p] = "tick" /\ UnresolvedOrders = {}
    BY <1>3, <2>1 DEF TickExecute, PendingExecution, Goto, Goes, LocalsOK
  <2>3. Acts(p, "tick", v)
    BY <2>1, <2>2 DEF BooksInv, Acting
  <2>4. Acts(p, "start", v)
    BY <2>3 DEF Acts, Busy
  <2>5. ASSUME Kept PROVE Fresh("start", v)
    <3>1. Fresh("tick", v)
      BY <2>1, <2>2, <2>5 DEF Kept
    <3>2. QED
      BY <2>2, <3>1 DEF Fresh, Busy, Admitted
  <2>6. UNCHANGED <<positions, subs, orders, exchange, actions>>
    BY <1>3 DEF TickExecute, rows
  <2>7. QED
    BY <2>2, <2>4, <2>5, <2>6, QuietBooks
<1>4. QED
  BY <1>1, <1>2, <1>3 DEF TickStep

-----------------------------------------------------------------------------
(* An execution, up to its outcome *)

\* The rows are read and checked.
LEMMA AdmitBooks ==
    ASSUME RowsOK, LocalsOK, BooksInv, NEW p \in Proc, Admit(p)
    PROVE  BooksInv'
<1>0. PICK job : job = mem[p].job
  OBVIOUS
<1>1. PICK id \in DOMAIN positions \union {NoId} :
         /\ NewestOpen(id)
         /\ CASE job.type = "INDEPENDENT_EXIT" ->
                   id # NoId /\ SubOf(id, job.level).status = "OPEN"
                             /\ job.qty <= SubOf(id, job.level).qty
              [] job.type # "INDEPENDENT_EXIT" /\ job.side = "SELL" ->
                   id # NoId /\ job.qty <= RowOf(id).qty
              [] OTHER -> TRUE
         /\ mem' = [mem EXCEPT ![p].pos = id, ![p].row = RowOf(id),
                               ![p].sub = SubOf(id, job.level)]
  BY <1>0 DEF Admit
<1>2. PICK v : v = [mem[p] EXCEPT !.pos = id, !.row = RowOf(id), !.sub = SubOf(id, job.level)]
  OBVIOUS
<1>3. v.job = job /\ v.pos = id /\ v.row = RowOf(id) /\ v.sub = SubOf(id, job.level)
  BY <1>0, <1>2 DEF LocalsOK, Memory
<1>4. Acts(p, "start", mem[p]) /\ pc[p] = "start"
  BY DEF Admit, BooksInv, Acting
<1>5. Goes(p, "claim", v)
  BY <1>0, <1>1, <1>2, <1>4 DEF Admit, Acts, Busy, Goto, Goes
<1>6. Acts(p, "claim", v)
  BY <1>0, <1>3, <1>4 DEF Acts, Busy
<1>7. ASSUME Kept PROVE Fresh("claim", v)
  <2>1. Fresh("start", mem[p])
    BY <1>4, <1>7 DEF Kept
  <2>2. Stocked(job, RowOf(id), SubOf(id, job.level), id)
    BY <1>1 DEF Stocked
  <2>3. QED
    BY <1>0, <1>1, <1>3, <2>1, <2>2 DEF Fresh, Busy, Admitted
<1>8. UNCHANGED <<positions, subs, orders, exchange, actions>>
  BY DEF Admit, rows
<1>9. QED
  BY <1>5, <1>6, <1>7, <1>8, QuietBooks

\* The action is claimed and created.
LEMMA ClaimBooks ==
    ASSUME RowsOK, LocalsOK, BooksInv, NEW p \in Proc, PassClaim(p) \/ CreateAction(p)
    PROVE  BooksInv'
<1>1. PICK l, v : v = mem[p] /\ l = IF pc[p] = "claim" THEN "create" ELSE "place"
  OBVIOUS
<1>2. PICK k : k = pc[p]
  OBVIOUS
<1>3. Goes(p, l, v) /\ k \in {"claim", "create"} /\ l \in {"create", "place"}
  BY <1>1, <1>2 DEF PassClaim, CreateAction, Goto, Goes, LocalsOK
<1>4. UNCHANGED <<positions, subs, orders, exchange>> /\ DOMAIN actions \subseteq DOMAIN actions'
  BY DEF PassClaim, CreateAction, Create, Put, rows
<1>5. Acts(p, l, v)
  <2>1. Acts(p, k, v)
    BY <1>1, <1>2 DEF BooksInv, Acting
  <2>2. QED
    BY <1>3, <2>1 DEF Acts, Busy
<1>6. ASSUME Kept PROVE Fresh(l, v)
  <2>1. Fresh(k, v)
    BY <1>1, <1>2, <1>6 DEF Kept
  <2>2. QED
    BY <1>3, <2>1 DEF Fresh, Busy, Admitted
<1>7. QED
  BY <1>3, <1>4, <1>5, <1>6, QuietBooks

\* The exchange takes an order.
LEMMA AcceptBooks ==
    ASSUME RowsOK, LocalsOK, BooksInv, NEW p \in Proc, Accept(p)
    PROVE  /\ Steady /\ Limits' /\ Len(exchange') \in DOMAIN exchange'
           /\ exchange'[Len(exchange')].qty = mem[p].job.qty
           /\ exchange'[Len(exchange')].side = mem[p].job.side
           /\ exchange'[Len(exchange')].key = mem[p].job.key
<1>1. PICK x : exchange' = Append(exchange, x) /\ x \in NewOrders(mem[p].job)
  BY DEF Accept
<1>2. /\ Len(exchange') = Len(exchange) + 1 /\ Len(exchange) \in Nat
      /\ exchange'[Len(exchange')] = x /\ DOMAIN exchange' = DOMAIN exchange \union {Len(exchange')}
      /\ \A o \in DOMAIN exchange : exchange'[o] = exchange[o]
  BY <1>1 DEF RowsOK
<1>3. x.qty = mem[p].job.qty /\ x.side = mem[p].job.side /\ x.key = mem[p].job.key
      /\ x.executed \in 0..mem[p].job.qty
  BY <1>1 DEF NewOrders
<1>4. x.executed <= x.qty
  BY <1>3
<1>5. QED
  BY <1>2, <1>3, <1>4 DEF Steady, Limits, BooksInv

LEMMA PlaceBooks ==
    ASSUME RowsOK, LocalsOK, BooksInv, NEW p \in Proc, Place(p)
    PROVE  BooksInv'
<1>1. PICK n, v : n = Len(exchange') /\ v = [mem[p] EXCEPT !.oid = n, !.ack = exchange'[n]]
  OBVIOUS
<1>2. /\ v.oid = n /\ v.job = mem[p].job /\ v.pos = mem[p].pos
      /\ v.row = mem[p].row /\ v.sub = mem[p].sub
  BY <1>1 DEF LocalsOK, Memory
<1>3. Goes(p, "commit", v) /\ Accept(p) /\ pc[p] = "place"
  BY <1>1 DEF Place, Accept, Goto, Goes
<1>4. UNCHANGED <<positions, subs, orders, actions>>
  BY <1>3 DEF Accept, rows
<1>5. Acts(p, "commit", v)
  <2>1. Acts(p, "place", mem[p])
    BY <1>3 DEF BooksInv, Acting
  <2>2. QED
    BY <1>2, <2>1 DEF Acts, Busy
<1>6. Steady /\ Limits' /\ exchange'[n].qty = v.job.qty /\ exchange'[n].side = v.job.side
  BY <1>1, <1>2, <1>3, AcceptBooks
<1>7. ASSUME Kept PROVE Fresh("commit", v)'
  <2>1. Fresh("place", mem[p])
    BY <1>3, <1>7 DEF Kept
  <2>2. Fresh("place", v)
    BY <1>2, <2>1 DEF Fresh, Busy, Admitted
  <2>3. Fresh("place", v)'
    BY <1>4, <2>2, FreshOn
  <2>4. QED
    BY <1>2, <1>6, <2>3 DEF Fresh, Busy, Admitted
<1>8. QED
  BY <1>3, <1>4, <1>5, <1>6, <1>7, StepBooks

\* An execution that fails, at whatever step.
LEMMA FailBooks ==
    ASSUME RowsOK, LocalsOK, BooksInv, NEW p \in Proc,
           PlaceLost(p) \/ PlaceRefused(p) \/ CommitFails(p)
    PROVE  BooksInv'
<1>1. PICK v : Goes(p, "fail", v)
  <2>1. PICK retry : mem' = [mem EXCEPT ![p].retry = retry] /\ Goto(p, "fail")
    BY DEF PlaceLost, PlaceRefused, CommitFails
  <2>2. Goes(p, "fail", [mem[p] EXCEPT !.retry = retry])
    BY <2>1 DEF Goto, Goes
  <2>3. QED
    BY <2>2
<1>2. "fail" \notin Places
  BY DEF Places, Busy
<1>3. CASE PlaceLost(p)
  <2>1. Acts(p, "fail", v)
    BY DEF Acts, Busy
  <2>2. Fresh("fail", v)'
    BY DEF Fresh, Busy, Admitted
  <2>3. Steady /\ Limits' /\ UNCHANGED <<positions, subs, orders, actions>>
    BY <1>3, AcceptBooks DEF PlaceLost, Accept, rows
  <2>4. QED
    BY <1>1, <2>1, <2>2, <2>3, StepBooks
<1>4. CASE PlaceRefused(p) \/ CommitFails(p)
  <2>1. UNCHANGED <<positions, subs, orders, exchange, actions>>
    BY <1>4 DEF PlaceRefused, CommitFails, rows
  <2>2. QED
    BY <1>1, <1>2, <2>1, ElsewhereBooks
<1>5. QED
  BY <1>3, <1>4

LEMMA RetryBooks ==
    ASSUME RowsOK, LocalsOK, BooksInv, NEW p \in Proc, RetryStep(p)
    PROVE  BooksInv'
<1>1. CASE RetryPick(p)
  <2>1. PICK k \in DOMAIN actions :
           mem' = [mem EXCEPT
                ![p].orig = k,
                ![p].order = OrderOf(k),
                ![p].job = [type |-> actions[k].type, qty |-> actions[k].qty, level |-> actions[k].level,
                            side |-> IF actions[k].type \in Entries THEN "BUY" ELSE "SELL",
                            auto |-> TRUE, key |-> RetryKey(k, actions[k].attempts + 1)]]
    BY <1>1, Zenon DEF RetryPick
  <2>2. PICK job : job =
           [type |-> actions[k].type, qty |-> actions[k].qty, level |-> actions[k].level,
            side |-> IF actions[k].type \in Entries THEN "BUY" ELSE "SELL",
            auto |-> TRUE, key |-> RetryKey(k, actions[k].attempts + 1)]
    OBVIOUS
  <2>3. PICK v : v = [mem[p] EXCEPT !.orig = k, !.order = OrderOf(k), !.job = job]
    OBVIOUS
  <2>4. v.job = job
    BY <2>3 DEF LocalsOK, Memory
  <2>5. Goes(p, "claimRetry", v)
    BY <1>1, <2>1, <2>2, <2>3 DEF RetryPick, Goto, Goes
  <2>6. job.type # "NONE" /\ job.key.tries # <<>>
    <3>1. actions[k] \in Row /\ k \in Key
      BY DEF RowsOK, ActionsTypeOK
    <3>2. actions[k].type \in Types /\ k.tries \in Seq(Nat)
      BY <3>1 DEF Row, Key
    <3>3. job.key.tries = Append(k.tries, actions[k].attempts + 1)
      BY <2>2, <3>1 DEF RetryKey, Key
    <3>4. Append(k.tries, actions[k].attempts + 1) # <<>>
      BY <3>2
    <3>5. QED
      BY <2>2, <3>2, <3>3, <3>4 DEF Types, Entries, Exits
  <2>7. Acts(p, "claimRetry", v) /\ Fresh("claimRetry", v)
    BY <2>4, <2>6 DEF Acts, Fresh, Busy, Admitted
  <2>8. UNCHANGED <<positions, subs, orders, exchange, actions>>
    BY <1>1 DEF RetryPick, rows
  <2>9. QED
    BY <2>5, <2>7, <2>8, QuietBooks
<1>2. CASE RetryClaim(p)
  <2>1. PICK l, v : v = mem[p] /\ l = IF v.order.status \in LiveOrder THEN "giveUp" ELSE "start"
    OBVIOUS
  <2>2. Goes(p, l, v) /\ pc[p] = "claimRetry"
    BY <1>2, <2>1 DEF RetryClaim, Goto, Goes, LocalsOK
  <2>3. Acts(p, "claimRetry", v)
    BY <2>1, <2>2 DEF BooksInv, Acting
  <2>4. Acts(p, l, v) /\ Fresh(l, v)
    BY <2>1, <2>3 DEF Acts, Fresh, Busy, Admitted, Original
  <2>5. UNCHANGED <<positions, subs, orders, exchange>> /\ DOMAIN actions' = DOMAIN actions
    BY <1>2 DEF RetryClaim, Reopen
  <2>6. QED
    BY <2>2, <2>4, <2>5, QuietBooks
<1>3. CASE RetryGone(p)
  BY <1>3, ReturnBooks DEF RetryGone, rows
<1>4. CASE GiveUp(p)
  BY <1>4, KeysKept, ReturnBooks DEF GiveUp
<1>5. CASE GiveUpRead(p)
  BY <1>5, VerdictBooks
<1>6. QED
  BY <1>1, <1>2, <1>3, <1>4, <1>5 DEF RetryStep

\* The owner asks for nothing but retries and cancellations of actions.
LEMMA RequestBooks ==
    ASSUME SchedulersAlone, RowsOK, LocalsOK, BooksInv, NEW p \in Proc, RequestStep(p)
    PROVE  BooksInv'
<1>1. CASE RequestOrder(p) \/ RequestClose(p)
  BY <1>1 DEF RequestOrder, RequestClose, Asks, SchedulersAlone
<1>2. CASE RequestRetry(p) \/ RequestCancel(p)
  <2>1. PICK k, l : /\ l \in {"retryWrite", "cancelWrite"} /\ Goto(p, l)
                    /\ mem' = [mem EXCEPT ![p].orig = k]
    BY <1>2 DEF RequestRetry, RequestCancel
  <2>2. Goes(p, l, [mem[p] EXCEPT !.orig = k]) /\ l \notin Places
    BY <2>1 DEF Goto, Goes, Places, Busy
  <2>3. UNCHANGED <<positions, subs, orders, exchange, actions>>
    BY <1>2 DEF RequestRetry, RequestCancel, rows
  <2>4. QED
    BY <2>2, <2>3, ElsewhereBooks
<1>3. CASE ManualRetry(p) \/ ManualCancel(p)
  BY <1>3, KeysKept, ReturnBooks DEF ManualRetry, ManualCancel
<1>4. QED
  BY <1>1, <1>2, <1>3 DEF RequestStep

\* Nor does the owner stop everything.
LEMMA StopBooks ==
    ASSUME SchedulersAlone, LocalsOK, Following, NEW p \in Proc, StopStep(p)
    PROVE  FALSE
<1>1. pc[p] \notin {"stopList", "stopping"}
  BY DEF SchedulersAlone, Following, Informed
<1>2. QED
  BY <1>1 DEF StopStep, StopRows, StopList, StopCancel, StopWrite, StopDone, Asks, SchedulersAlone

\* An order is read and looked up; an action is recovered.
LEMMA ReadBooks ==
    ASSUME SchedulersAlone, RowsOK, LocalsOK, BooksInv, NEW p \in Proc, SyncStep(p), ~SyncApply(p)
    PROVE  BooksInv'
<1>1. ASSUME NEW o \in DOMAIN orders, SyncRead(p, o) PROVE BooksInv'
  <2>1. PICK v : v = [mem[p] EXCEPT !.oid = o, !.order = orders[o], !.row = positions[orders[o].pos],
                                    !.sub = IF orders[o].linked
                                            THEN SubOf(orders[o].pos, orders[o].level) ELSE NoSub]
    OBVIOUS
  <2>2. Goes(p, "fetch", v)
    BY <1>1, <2>1 DEF SyncRead, Goto, Goes
  <2>3. /\ v.oid = o /\ v.order = orders[o] /\ v.row = positions[orders[o].pos]
        /\ v.sub = IF orders[o].linked THEN SubOf(orders[o].pos, orders[o].level) ELSE NoSub
    BY <2>1 DEF LocalsOK, Memory
  <2>4. p \in Syncers /\ o \in UnresolvedOrders
    BY <1>1 DEF SyncRead, Asks, SchedulersAlone
  <2>5. Acts(p, "fetch", v) /\ Fresh("fetch", v)
    BY <2>3, <2>4 DEF Acts, Fresh, Busy, Admitted
  <2>6. UNCHANGED <<positions, subs, orders, exchange, actions>>
    BY <1>1 DEF SyncRead, rows
  <2>7. QED
    BY <2>2, <2>5, <2>6, QuietBooks
<1>2. CASE SyncFetch(p)
  <2>1. PICK v : v = [mem[p] EXCEPT !.ack = exchange[mem[p].oid]]
    OBVIOUS
  <2>2. Goes(p, "apply", v) /\ pc[p] = "fetch"
    BY <1>2, <2>1 DEF SyncFetch, Goto, Goes
  <2>3. v.oid = mem[p].oid /\ v.order = mem[p].order /\ v.row = mem[p].row /\ v.sub = mem[p].sub
    BY <2>1 DEF LocalsOK, Memory
  <2>4. Acts(p, "fetch", mem[p])
    BY <2>2 DEF BooksInv, Acting
  <2>5. Acts(p, "apply", v)
    BY <2>4 DEF Acts, Busy
  <2>6. ASSUME Kept PROVE Fresh("apply", v)
    <3>1. Fresh("fetch", mem[p])
      BY <2>2, <2>6 DEF Kept
    <3>2. QED
      BY <2>3, <3>1 DEF Fresh, Busy, Admitted
  <2>7. UNCHANGED <<positions, subs, orders, exchange, actions>>
    BY <1>2 DEF SyncFetch, rows
  <2>8. QED
    BY <2>2, <2>5, <2>6, <2>7, QuietBooks
<1>3. CASE SyncFails(p)
  BY <1>3, ReturnBooks DEF SyncFails, rows
<1>4. ASSUME NEW k \in DOMAIN actions, RecoverRead(p, k) PROVE BooksInv'
  <2>1. Goes(p, "recover", [mem[p] EXCEPT !.orig = k, !.order = OrderOf(k)]) /\ "recover" \notin Places
    BY <1>4 DEF RecoverRead, Goto, Goes, Places, Busy
  <2>2. UNCHANGED <<positions, subs, orders, exchange, actions>>
    BY <1>4 DEF RecoverRead, rows
  <2>3. QED
    BY <2>1, <2>2, ElsewhereBooks
<1>5. CASE RecoverFilled(p) \/ RecoverFail(p)
  <2>1. DOMAIN actions' = DOMAIN actions
    BY <1>5, KeysKept DEF RecoverFilled, RecoverFail
  <2>2. QED
    BY <1>5, <2>1, ReturnBooks DEF RecoverFilled, RecoverFail
<1>6. CASE RecoverEnded(p)
  BY <1>6, VerdictBooks
<1>7. QED
  BY <1>1, <1>2, <1>3, <1>4, <1>5, <1>6 DEF SyncStep, Recover

\* The exchange executes or ends an order.
LEMMA ExchangeBooks ==
    ASSUME RowsOK, LocalsOK, BooksInv, UNCHANGED <<pc, mem>>,
           NEW o \in DOMAIN exchange, ExchangeFills(o) \/ ExchangeEnds(o)
    PROVE  BooksInv'
<1>1. exchange \in Seq(ExchangeOrder) /\ exchange[o] \in ExchangeOrder
      /\ UNCHANGED <<positions, subs, orders, actions>>
  <2>1. UNCHANGED <<positions, subs, orders, actions>>
    BY DEF ExchangeFills, ExchangeEnds, rows
  <2>2. QED
    BY <2>1 DEF RowsOK
<1>2. CASE ExchangeEnds(o)
  <2>1. PICK s : exchange' = [exchange EXCEPT ![o].status = s]
    BY <1>2 DEF ExchangeEnds
  <2>2. DOMAIN exchange' = DOMAIN exchange
        /\ \A i \in DOMAIN exchange : /\ exchange'[i].executed = exchange[i].executed
                                      /\ exchange'[i].qty = exchange[i].qty
                                      /\ exchange'[i].side = exchange[i].side
    BY <1>1, <2>1 DEF ExchangeOrder
  <2>3. Steady /\ Limits'
    BY <2>2 DEF Steady, Limits, BooksInv
  <2>4. QED
    BY <1>1, <2>3, StillBooks
<1>3. CASE ExchangeFills(o)
  <2>1. PICK e \in exchange[o].executed + 1 .. exchange[o].qty :
           exchange' = [exchange EXCEPT
              ![o].executed = e,
              ![o].status = IF e = exchange[o].qty THEN "FILLED" ELSE "PARTIALLY_FILLED"]
    BY <1>3 DEF ExchangeFills
  <2>2. e <= exchange[o].qty
    BY <1>1, <2>1 DEF ExchangeOrder
  <2>3. DOMAIN exchange' = DOMAIN exchange
        /\ \A i \in DOMAIN exchange :
              /\ exchange'[i].executed = IF i = o THEN e ELSE exchange[i].executed
              /\ exchange'[i].qty = exchange[i].qty /\ exchange'[i].side = exchange[i].side
    BY <1>1, <2>1 DEF ExchangeOrder
  <2>4. Steady /\ Limits'
    BY <2>2, <2>3 DEF Steady, Limits, BooksInv
  <2>5. QED
    BY <1>1, <2>4, StillBooks
<1>4. QED
  BY <1>2, <1>3

-----------------------------------------------------------------------------
(* What a fill does to a position and to a sub-position *)

LEMMA ParentBuys ==
    ASSUME RowsOK, NEW id \in DOMAIN positions, NEW row, row = positions[id],
           NEW d \in Nat, NEW dca, BuyParent(id, row, d, dca)
    PROVE  /\ DOMAIN positions' = DOMAIN positions
           /\ \A i \in DOMAIN positions \ {id} : positions'[i] = positions[i]
           /\ positions'[id].qty = row.qty + d
           /\ positions'[id].dca = dca /\ positions'[id].status = row.status
<1>1. positions \in Seq(Position) /\ row \in Position
  BY DEF RowsOK
<1> DEFINE r == [row EXCEPT !.qty = row.qty + d, !.dca = dca, !.version = @ + 1]
<1>2. positions' = [positions EXCEPT ![id] = r]
  BY <1>1 DEF BuyParent
<1>3. r.qty = row.qty + d /\ r.dca = dca /\ r.status = row.status
  BY <1>1 DEF Position
<1> HIDE DEF r
<1>4. DOMAIN positions' = DOMAIN positions
      /\ \A i \in DOMAIN positions : positions'[i] = IF i = id THEN r ELSE positions[i]
  BY <1>1, <1>2
<1>5. QED
  BY <1>3, <1>4

LEMMA ParentSells ==
    ASSUME RowsOK, NEW id \in DOMAIN positions, NEW row, row = positions[id],
           NEW d \in Nat, d <= row.qty, SellParent(id, row, d)
    PROVE  /\ DOMAIN positions' = DOMAIN positions
           /\ \A i \in DOMAIN positions \ {id} : positions'[i] = positions[i]
           /\ positions'[id].qty + d = row.qty
           /\ positions'[id].dca = row.dca
           /\ positions'[id].status = IF positions'[id].qty = 0 THEN "CLOSED" ELSE "OPEN"
<1>1. positions \in Seq(Position) /\ row \in Position /\ row.qty \in Nat
  <2>1. positions \in Seq(Position) /\ row \in Position
    BY DEF RowsOK
  <2>2. QED
    BY <2>1 DEF Position
<1>2. PICK n : n = Less(row.qty, d)
  OBVIOUS
<1>3. n + d = row.qty
  BY <1>1, <1>2 DEF Less
<1> DEFINE r == [row EXCEPT !.qty = n, !.status = IF n = 0 THEN "CLOSED" ELSE "OPEN",
                            !.version = @ + 1]
<1>4. positions' = [positions EXCEPT ![id] = r]
  BY <1>1, <1>2 DEF SellParent
<1>5. r.qty = n /\ r.dca = row.dca /\ r.status = IF n = 0 THEN "CLOSED" ELSE "OPEN"
  BY <1>1 DEF Position
<1> HIDE DEF r
<1>6. DOMAIN positions' = DOMAIN positions
      /\ \A i \in DOMAIN positions : positions'[i] = IF i = id THEN r ELSE positions[i]
  BY <1>1, <1>4
<1>7. QED
  BY <1>3, <1>5, <1>6

\* The row of sub-position <<id, level>> becomes r.
LEMMA SubPut ==
    ASSUME NEW id, NEW level, NEW r, subs' = Put(subs, <<id, level>>, r)
    PROVE  /\ DOMAIN subs' = DOMAIN subs \union {<<id, level>>}
           /\ subs'[<<id, level>>] = r
           /\ \A i, l : <<i, l>> # <<id, level>> => SubOf(i, l)' = SubOf(i, l)
<1>1. PICK s : s = <<id, level>>
  OBVIOUS
<1>2. DOMAIN subs' = DOMAIN subs \union {s} /\ subs'[s] = r
      /\ \A x \in DOMAIN subs \ {s} : subs'[x] = subs[x]
  BY <1>1 DEF Put
<1>3. ASSUME NEW i, NEW l, <<i, l>> # s PROVE SubOf(i, l)' = SubOf(i, l)
  <2>1. PICK x : x = <<i, l>>
    OBVIOUS
  <2>2. x \in DOMAIN subs' <=> x \in DOMAIN subs
    BY <1>2, <1>3, <2>1
  <2>3. x \in DOMAIN subs => subs'[x] = subs[x]
    BY <1>2, <1>3, <2>1
  <2>4. QED
    BY <2>1, <2>2, <2>3 DEF SubOf
<1>4. QED
  BY <1>1, <1>2, <1>3

LEMMA SubBuys ==
    ASSUME NEW id, NEW level, NEW sub, NEW d, BuySub(id, level, sub, d)
    PROVE  /\ DOMAIN subs' = DOMAIN subs \union {<<id, level>>}
           /\ subs'[<<id, level>>].qty = sub.qty + d
           /\ \A i, l : <<i, l>> # <<id, level>> => SubOf(i, l)' = SubOf(i, l)
<1>1. PICK r : r = [status |-> "OPEN", qty |-> sub.qty + d]
  OBVIOUS
<1>2. subs' = Put(subs, <<id, level>>, r) /\ r.qty = sub.qty + d
  BY <1>1 DEF BuySub
<1>3. QED
  BY <1>2, SubPut

LEMMA SubSells ==
    ASSUME NEW id, NEW level, NEW sub, NEW d, SellSub(id, level, sub, d),
           sub.qty \in Nat, d \in Nat, d <= sub.qty
    PROVE  /\ DOMAIN subs' = DOMAIN subs \union {<<id, level>>}
           /\ subs'[<<id, level>>].qty + d = sub.qty
           /\ \A i, l : <<i, l>> # <<id, level>> => SubOf(i, l)' = SubOf(i, l)
<1>1. PICK r : r = [status |-> IF Less(sub.qty, d) = 0 THEN "CLOSED" ELSE "OPEN",
                    qty |-> Less(sub.qty, d)]
  OBVIOUS
<1>2. subs' = Put(subs, <<id, level>>, r) /\ r.qty + d = sub.qty
  BY <1>1 DEF SellSub, Less
<1>3. QED
  BY <1>2, SubPut

\* The positions follow d lots of an order with row r, and stay what they were.
Follows(r, d) ==
    /\ \A i \in DOMAIN positions' :
          IF r.pos = i /\ ~r.independent
          THEN Changes(QtyOf(i), positions'[i].qty, r.side, d)
          ELSE positions'[i].qty = QtyOf(i)
    /\ \A i \in DOMAIN positions', level \in Nat :
          IF r.pos = i /\ r.level = level /\ r.independent
          THEN Changes(SubOf(i, level).qty, SubOf(i, level)'.qty, r.side, d)
          ELSE SubOf(i, level)'.qty = SubOf(i, level).qty
    /\ \A s \in DOMAIN subs' : s \in DOMAIN subs \/ (r.independent /\ s[2] = r.level)

\* At most one position is open after a step as before, and none closed with lots.
Opens ==
    /\ \A i \in DOMAIN positions' : positions'[i].status = "CLOSED" => positions'[i].qty = 0
    /\ \/ \A i \in DOMAIN positions' : positions'[i].status = "OPEN" =>
             i \in DOMAIN positions /\ positions[i].status = "OPEN"
       \/ /\ \A i \in DOMAIN positions : positions[i].status # "OPEN" /\ positions'[i].status # "OPEN"
          /\ DOMAIN positions' = DOMAIN positions \union {Len(positions) + 1}

\* The books are sound after o was booked, the one order not yet resolved.
LEMMA BookStep ==
    ASSUME RowsOK, RowsOK', Sound, Balanced, UNCHANGED exchange,
           NEW o, UnresolvedOrders \subseteq {o}, NEW d \in Nat, NEW r, r = orders'[o], Gains(o, d), Follows(r, d), Opens,
           SoundOrder(r, exchange[o])'
    PROVE  Sound' /\ Balanced'
<1>1. Balanced'
  BY BalanceStep DEF Follows
<1>2. \A i \in DOMAIN orders \ {o} : orders'[i] = orders[i] /\ orders[i].status \notin LiveOrder
  BY DEF Gains, UnresolvedOrders
<1>3. UnresolvedOrders' \subseteq {o}
  BY <1>2 DEF UnresolvedOrders, Gains
<1>4. ASSUME NEW i \in DOMAIN orders' PROVE SoundOrder(orders[i], exchange[i])'
  <2>1. CASE i = o
    BY <2>1
  <2>2. CASE i # o
    BY <1>2, <2>2 DEF SoundOrder, Sound, Gains
  <2>3. QED
    BY <2>1, <2>2
<1>5. ASSUME NEW i \in DOMAIN positions', NEW j \in DOMAIN positions',
             positions'[i].status = "OPEN", positions'[j].status = "OPEN"
      PROVE  i = j
  BY <1>5 DEF Opens, Sound
<1>6. ASSUME NEW s \in DOMAIN subs' PROVE s[2] >= 1
  <2>1. CASE s \in DOMAIN subs
    BY <2>1 DEF Sound
  <2>2. CASE r.independent /\ s[2] = r.level
    BY <2>2 DEF SoundOrder
  <2>3. QED
    BY <2>1, <2>2 DEF Follows
<1>7. QED
  BY <1>1, <1>3, <1>4, <1>5, <1>6 DEF Sound, Opens

-----------------------------------------------------------------------------
(* The transaction of an execution *)

\* Who commits while no retry has got through is the runner, alone, with what it
\* read still true.
LEMMA CommitKnows ==
    ASSUME RowsOK, LocalsOK, Following, Claims, Alone, BooksInv, ~Retried,
           NEW p \in Proc, pc[p] = "commit", NEW m, m = mem[p]
    PROVE  /\ Kept /\ Original(m.job) /\ OriginalJob(m.job) /\ p \in Runners
           /\ Fresh("commit", m)
           /\ m.job.key \in DOMAIN actions
           /\ m.oid \in DOMAIN exchange /\ m.oid \notin DOMAIN orders
           /\ m.job \in Job /\ m.ack \in ExchangeOrder /\ m.pos \in DOMAIN positions \union {NoId}
           /\ m.ack.executed \in Nat /\ m.ack.executed <= m.job.qty
<1>1. m \in Memory /\ LocalOK("commit", m)
  BY DEF LocalsOK
<1>2. m.job \in Job /\ m.ack \in ExchangeOrder /\ m.pos \in DOMAIN positions \union {NoId}
      /\ m.oid \in DOMAIN exchange
  BY <1>1 DEF Memory, LocalOK
<1>3. Acts(p, "commit", m) /\ Kept /\ Fresh("commit", m)
  BY DEF BooksInv, Acting, Kept
<1>4. m.job.type # "NONE" /\ m.job.key # NoKey
  BY <1>1, <1>3 DEF Acts, Busy, LocalOK
<1>5. m.job.key \in DOMAIN actions
  <2>1. m.job.key \in Held(p)
    BY <1>4 DEF Held, Flight
  <2>2. QED
    BY <2>1 DEF Claims
<1>6. Original(m.job) /\ OriginalJob(m.job) /\ p \in Runners
  BY <1>3, <1>4, <1>5 DEF Retried, Original, Acts, Busy
<1>7. m.oid \notin DOMAIN orders
  BY DEF Alone, Booking
<1>8. m.ack.executed \in Nat /\ m.ack.executed <= m.job.qty
  <2>1. exchange[m.oid] \in ExchangeOrder
    BY <1>2 DEF RowsOK
  <2>2. exchange[m.oid].executed \in Nat /\ exchange[m.oid].qty \in Nat /\ m.ack.executed \in Nat
    BY <1>2, <2>1 DEF ExchangeOrder
  <2>3. m.ack.executed <= exchange[m.oid].executed
    BY DEF Following, Informed, Behind
  <2>4. exchange[m.oid].executed <= exchange[m.oid].qty
    BY <1>2 DEF BooksInv, Limits
  <2>5. exchange[m.oid].qty = m.job.qty
    BY <1>3, <1>6 DEF Fresh
  <2>6. QED
    BY <2>2, <2>3, <2>4, <2>5
<1>9. QED
  BY <1>2, <1>3, <1>5, <1>6, <1>7, <1>8

\* The position an execution writes: the one it saw, or a new one.
Target(m) == IF m.pos = NoId THEN Len(positions) + 1 ELSE m.pos

\* What it makes of the position ...
LEMMA CommitParent ==
    ASSUME RowsOK, Sound, NEW p \in Proc, Commit(p), NEW m, m = mem[p], NEW id, id = Target(m),
           m.pos \in DOMAIN positions \union {NoId}, NewestOpen(m.pos), m.row = RowOf(m.pos),
           Stocked(m.job, m.row, m.sub, m.pos), m.job.side \in Side,
           m.job.type \in Exits <=> m.job.side = "SELL",
           NEW d \in Nat, d = m.ack.executed, d <= m.job.qty, m.job.qty \in Nat
    PROVE  /\ DOMAIN positions' = DOMAIN positions \union {id}
           /\ \A i \in DOMAIN positions \ {id} : positions'[i] = positions[i]
           /\ IF Independent(m.job) THEN positions'[id].qty = QtyOf(id)
              ELSE Changes(QtyOf(id), positions'[id].qty, m.job.side, d)
           /\ m.job.side = "SELL" => id \in DOMAIN positions
           /\ m.job.side = "BUY" => positions'[id].status = "OPEN"
           /\ positions'[id].status = "OPEN" \/ positions'[id].qty = 0
           /\ id \notin DOMAIN positions => positions'[id].dca = 0
           /\ id \in DOMAIN positions => m.pos = id /\ positions[id].status = "OPEN" /\
                 positions'[id].dca = IF ~Independent(m.job) /\ d > 0 /\ m.job.side = "BUY"
                                      THEN positions[id].dca + 1 ELSE positions[id].dca
           /\ Opens
<1>1. PICK n \in Nat : n = Len(positions) /\ DOMAIN positions = 1..n /\ NoId \notin DOMAIN positions
  <2>1. positions \in Seq(Position)
    BY DEF RowsOK
  <2>2. Len(positions) \in Nat /\ DOMAIN positions = 1..Len(positions)
    BY <2>1
  <2>3. 0 \notin 1..Len(positions)
    BY <2>2
  <2>4. QED
    BY <2>2, <2>3 DEF NoId
<1>2. CASE m.pos = NoId
  <2>1. PICK new : /\ positions' = Append(positions, new)
                   /\ new = [status |-> "OPEN", qty |-> IF Independent(m.job) THEN 0 ELSE d,
                             dca |-> 0, version |-> 0]
    BY <1>2 DEF Commit
  <2>2. id = n + 1 /\ id \notin DOMAIN positions /\ id = Len(positions) + 1
    BY <1>1, <1>2 DEF Target
  <2>3. DOMAIN positions' = DOMAIN positions \union {id} /\ positions'[id] = new
        /\ \A i \in DOMAIN positions : positions'[i] = positions[i]
    BY <1>1, <2>1, <2>2 DEF RowsOK
  <2>4. m.job.side = "BUY" /\ QtyOf(id) = 0
    BY <1>2, <2>2 DEF Stocked, Side, QtyOf
  <2>5. \A i \in DOMAIN positions : positions[i].status # "OPEN"
    BY <1>1, <1>2 DEF NewestOpen
  <2>6. Opens
    BY <2>1, <2>2, <2>3, <2>5 DEF Opens, Sound
  <2>7. QED
    BY <2>1, <2>2, <2>3, <2>4, <2>6 DEF Changes
<1>3. CASE m.pos # NoId
  <2>1. /\ id = m.pos /\ id \in DOMAIN positions /\ m.row = positions[id]
        /\ positions[id].status = "OPEN" /\ QtyOf(id) = positions[id].qty
    BY <1>3 DEF Target, NewestOpen, RowOf, QtyOf
  <2>2. positions[id] \in Position /\ positions[id].qty \in Nat /\ positions[id].dca \in Nat
    <3>1. positions[id] \in Position
      BY <2>1 DEF RowsOK
    <3>2. QED
      BY <3>1 DEF Position
  <2>3. /\ DOMAIN positions' = DOMAIN positions
        /\ \A i \in DOMAIN positions \ {id} : positions'[i] = positions[i]
        /\ IF Independent(m.job) THEN positions'[id].qty = positions[id].qty
           ELSE Changes(positions[id].qty, positions'[id].qty, m.job.side, d)
        /\ m.job.side = "BUY" => positions'[id].status = "OPEN"
        /\ positions'[id].status = "OPEN" \/ positions'[id].qty = 0
        /\ positions'[id].status = "CLOSED" => positions'[id].qty = 0
        /\ positions'[id].dca = IF ~Independent(m.job) /\ d > 0 /\ m.job.side = "BUY"
                                THEN positions[id].dca + 1 ELSE positions[id].dca
    <3>1. CASE ~Independent(m.job) /\ d > 0 /\ m.job.side = "BUY"
      <4>1. PICK row, dca : row = positions[id] /\ dca = row.dca + 1
        OBVIOUS
      <4>2. BuyParent(id, row, d, dca)
        BY <1>3, <2>1, <3>1, <4>1 DEF Commit
      <4>3. /\ DOMAIN positions' = DOMAIN positions
            /\ \A i \in DOMAIN positions \ {id} : positions'[i] = positions[i]
            /\ positions'[id].qty = row.qty + d
            /\ positions'[id].dca = dca /\ positions'[id].status = row.status
        BY <2>1, <4>1, <4>2, ParentBuys
      <4>4. QED
        BY <2>1, <3>1, <4>1, <4>3 DEF Changes
    <3>2. CASE ~Independent(m.job) /\ d > 0 /\ m.job.side = "SELL"
      <4>1. PICK row : row = positions[id]
        OBVIOUS
      <4>2. SellParent(id, row, d)
        BY <1>3, <2>1, <3>2, <4>1 DEF Commit
      <4>3. d <= row.qty
        BY <2>1, <2>2, <3>2, <4>1 DEF Stocked, Independent
      <4>4. /\ DOMAIN positions' = DOMAIN positions
            /\ \A i \in DOMAIN positions \ {id} : positions'[i] = positions[i]
            /\ positions'[id].qty + d = row.qty
            /\ positions'[id].dca = row.dca
            /\ positions'[id].status = IF positions'[id].qty = 0 THEN "CLOSED" ELSE "OPEN"
        BY <2>1, <4>1, <4>2, <4>3, ParentSells
      <4>5. QED
        BY <3>2, <4>1, <4>4 DEF Changes
    <3>3. CASE Independent(m.job) \/ d = 0
      <4>1. UNCHANGED positions
        BY <1>3, <3>3 DEF Commit
      <4>2. ~Independent(m.job) => Changes(positions[id].qty, positions'[id].qty, m.job.side, d)
        BY <2>2, <3>3, <4>1 DEF Changes
      <4>3. QED
        BY <2>1, <3>3, <4>1, <4>2
    <3>4. QED
      BY <3>1, <3>2, <3>3 DEF Side
  <2>4. Opens
    BY <2>1, <2>3 DEF Opens, Sound
  <2>5. QED
    BY <2>1, <2>3, <2>4
<1>4. QED
  BY <1>2, <1>3

\* ... and of the sub-position.
LEMMA CommitSub ==
    ASSUME RowsOK, NEW p \in Proc, Commit(p), NEW m, m = mem[p], NEW id, id = Target(m),
           m.pos \in DOMAIN positions \union {NoId},
           m.sub = SubOf(m.pos, m.job.level),
           Stocked(m.job, m.row, m.sub, m.pos), m.job.side \in Side,
           m.job.type \in Exits <=> m.job.side = "SELL",
           NEW d \in Nat, d = m.ack.executed, d <= m.job.qty, m.job.qty \in Nat
    PROVE  /\ \A i, l :
                 IF i = id /\ l = m.job.level /\ Independent(m.job)
                 THEN Changes(SubOf(i, l).qty, SubOf(i, l)'.qty, m.job.side, d)
                 ELSE SubOf(i, l)'.qty = SubOf(i, l).qty
           /\ \A s \in DOMAIN subs' : s \in DOMAIN subs \/ (Independent(m.job) /\ s[2] = m.job.level)
<1>1. PICK l : l = m.job.level
  OBVIOUS
<1>2. SubOf(id, l) \in Sub /\ SubOf(id, l).qty \in Nat
  BY SubOfOK DEF Sub
<1>3. CASE Independent(m.job) /\ d > 0
  <2>1. PICK sub : sub = SubOf(id, l)
    OBVIOUS
  <2>2. /\ DOMAIN subs' = DOMAIN subs \union {<<id, l>>}
        /\ Changes(sub.qty, SubOf(id, l)'.qty, m.job.side, d)
        /\ \A i, k : <<i, k>> # <<id, l>> => SubOf(i, k)' = SubOf(i, k)
    <3>1. CASE m.job.side = "BUY"
      <4>1. BuySub(id, l, sub, d)
        BY <1>1, <1>3, <2>1, <3>1 DEF Commit, Target
      <4>2. /\ DOMAIN subs' = DOMAIN subs \union {<<id, l>>}
            /\ subs'[<<id, l>>].qty = sub.qty + d
            /\ \A i, k : <<i, k>> # <<id, l>> => SubOf(i, k)' = SubOf(i, k)
        BY <4>1, SubBuys
      <4>3. QED
        BY <3>1, <4>2 DEF Changes, SubOf
    <3>2. CASE m.job.side = "SELL"
      <4>1. id = m.pos /\ m.job.type = "INDEPENDENT_EXIT"
        BY <1>3, <3>2 DEF Stocked, Target, Independent, Exits
      <4>2. m.sub = sub
        BY <1>1, <2>1, <4>1
      <4>3. d <= sub.qty
        BY <1>2, <2>1, <3>2, <4>1, <4>2 DEF Stocked
      <4>4. SellSub(id, l, sub, d)
        BY <1>1, <1>3, <3>2, <4>2 DEF Commit, Target
      <4>5. /\ DOMAIN subs' = DOMAIN subs \union {<<id, l>>}
            /\ subs'[<<id, l>>].qty + d = sub.qty
            /\ \A i, k : <<i, k>> # <<id, l>> => SubOf(i, k)' = SubOf(i, k)
        BY <1>2, <2>1, <4>3, <4>4, SubSells
      <4>6. QED
        BY <3>2, <4>5 DEF Changes, SubOf
    <3>3. QED
      BY <3>1, <3>2 DEF Side
  <2>3. QED
    BY <1>1, <1>3, <2>1, <2>2
<1>4. CASE ~(Independent(m.job) /\ d > 0)
  <2>1. UNCHANGED subs
    BY <1>4 DEF Commit
  <2>2. \A i, k : SubOf(i, k)' = SubOf(i, k)
    BY <2>1 DEF SubOf
  <2>3. Independent(m.job) => Changes(SubOf(id, l).qty, SubOf(id, l)'.qty, m.job.side, d)
    BY <1>2, <1>4, <2>2 DEF Changes
  <2>4. QED
    BY <1>1, <2>1, <2>2, <2>3
<1>5. QED
  BY <1>3, <1>4

\* What the row it creates says.
LEMMA CommitRow ==
    ASSUME NEW p \in Proc, Commit(p), NEW m, m = mem[p], NEW id, id = Target(m),
           m.job.level \in Nat, m.job.level >= 1
    PROVE  \E r : /\ orders' = Put(orders, m.oid, r)
                  /\ r.pos = id /\ r.side = m.job.side /\ r.level = m.job.level
                  /\ r.independent = Independent(m.job)
                  /\ m.job.side = "SELL" => (r.linked = Independent(m.job))
                  /\ r.status = MapStatus(m.ack.status) /\ r.accounted = m.ack.executed
<1>1. m.job.level # 0
  OBVIOUS
<1>2. PICK level, linked :
         /\ orders' = Put(orders, m.oid,
               [pos |-> id, side |-> m.job.side, independent |-> Independent(m.job),
                level |-> level, linked |-> linked,
                status |-> MapStatus(m.ack.status), accounted |-> m.ack.executed])
         /\ level = m.job.level
         /\ m.job.side = "SELL" => (linked = Independent(m.job))
  <2>1. PICK level, linked :
           /\ level = m.job.level
           /\ linked = (Independent(m.job) /\ (m.ack.executed > 0 \/ m.job.side = "SELL"))
    OBVIOUS
  <2>2. orders' = Put(orders, m.oid,
               [pos |-> id, side |-> m.job.side, independent |-> Independent(m.job),
                level |-> level, linked |-> linked,
                status |-> MapStatus(m.ack.status), accounted |-> m.ack.executed])
    BY <1>1, <2>1 DEF Commit, Target
  <2>3. m.job.side = "SELL" => (linked = Independent(m.job))
    BY <2>1 DEF Independent
  <2>4. QED
    BY <2>1, <2>2, <2>3
<1>3. QED
  BY <1>2

LEMMA CommitBooks ==
    ASSUME SchedulersAlone, RowsOK, LocalsOK, Following, Claims, Alone, BooksInv, RowsOK',
           NEW p \in Proc, Commit(p)
    PROVE  BooksInv'
<1>1. PICK m : m = mem[p]
  OBVIOUS
<1>2. pc'[p] = "idle" /\ mem'[p] = Blank /\ UNCHANGED exchange /\ pc[p] = "commit"
      /\ \A q \in Proc \ {p} : pc'[q] = pc[q] /\ mem'[q] = mem[q]
  BY DEF Commit, Return, Goto, LocalsOK
<1>3. Acting' /\ Limits'
  <2>1. Acts(p, "idle", Blank)
    BY DEF Acts, Busy
  <2>2. QED
    BY <1>2, <2>1 DEF BooksInv, Acting, Acts, Limits
<1>4. ASSUME ~Retried' PROVE Kept'
  <2>1. ~Retried
    BY <1>4 DEF Retried, Commit, Bind
  <2>2. /\ Kept /\ Original(m.job) /\ OriginalJob(m.job) /\ p \in Runners
        /\ Fresh("commit", m)
        /\ m.oid \in DOMAIN exchange /\ m.oid \notin DOMAIN orders
        /\ m.job \in Job /\ m.pos \in DOMAIN positions \union {NoId}
        /\ m.ack.executed \in Nat /\ m.ack.executed <= m.job.qty
    BY <1>1, <1>2, <2>1, CommitKnows
  <2>3. PICK id, d, o : id = Target(m) /\ d = m.ack.executed /\ o = m.oid
    OBVIOUS
  <2>4. /\ m.job.side \in Side /\ m.job.qty \in Nat /\ m.job.level \in Nat
        /\ m.job.type \in Exits <=> m.job.side = "SELL"
        /\ d \in Nat /\ d <= m.job.qty
    BY <2>2, <2>3 DEF Job, OriginalJob
  <2>5. /\ m.job.level >= 1 /\ UnresolvedOrders = {} /\ NewestOpen(m.pos)
        /\ m.row = RowOf(m.pos) /\ m.sub = SubOf(m.pos, m.job.level)
        /\ Stocked(m.job, m.row, m.sub, m.pos)
        /\ exchange[o].qty = m.job.qty /\ exchange[o].side = m.job.side
        /\ Sound /\ Balanced
    BY <2>2, <2>3 DEF Fresh, Busy, Admitted, Kept
  <2>6. PICK r : /\ orders' = Put(orders, o, r)
                 /\ r.pos = id /\ r.side = m.job.side /\ r.level = m.job.level
                 /\ r.independent = Independent(m.job)
                 /\ m.job.side = "SELL" => (r.linked = Independent(m.job))
                 /\ r.accounted = d
    BY <1>1, <2>3, <2>4, <2>5, CommitRow
  <2>7. orders'[o] = r /\ Gains(o, d)
    BY <2>2, <2>3, <2>4, <2>6 DEF Gains, Put
  <2>8. /\ DOMAIN positions' = DOMAIN positions \union {id}
        /\ \A i \in DOMAIN positions \ {id} : positions'[i] = positions[i]
        /\ IF Independent(m.job) THEN positions'[id].qty = QtyOf(id)
           ELSE Changes(QtyOf(id), positions'[id].qty, m.job.side, d)
        /\ m.job.side = "SELL" => id \in DOMAIN positions
        /\ m.job.side = "BUY" => positions'[id].status = "OPEN"
        /\ Opens
    BY <1>1, <2>2, <2>3, <2>4, <2>5, CommitParent
  <2>9. /\ \A i, l :
              IF i = id /\ l = m.job.level /\ Independent(m.job)
              THEN Changes(SubOf(i, l).qty, SubOf(i, l)'.qty, m.job.side, d)
              ELSE SubOf(i, l)'.qty = SubOf(i, l).qty
        /\ \A s \in DOMAIN subs' : s \in DOMAIN subs \/ (Independent(m.job) /\ s[2] = m.job.level)
    BY <1>1, <2>2, <2>3, <2>4, <2>5, CommitSub
  <2>10. Follows(r, d)
    BY <2>6, <2>8, <2>9 DEF Follows, QtyOf
  <2>11. SoundOrder(r, exchange[o])'
    <3>1. CASE m.job.side = "BUY"
      BY <1>2, <2>4, <2>5, <2>6, <2>8, <3>1 DEF SoundOrder
    <3>2. CASE m.job.side = "SELL"
      <4>1. id = m.pos /\ id \in DOMAIN positions /\ id # NoId
        BY <2>3, <2>5, <3>2 DEF Stocked, Target, NewestOpen
      <4>2. Independent(m.job) <=> m.job.type = "INDEPENDENT_EXIT"
        BY <2>4, <3>2 DEF Independent, Exits
      <4>3. m.job.qty <= IF Independent(m.job) THEN SubOf(id, r.level).qty ELSE positions[id].qty
        BY <2>5, <2>6, <3>2, <4>1, <4>2 DEF Stocked, RowOf
      <4>4. Stock(r)' + d = IF Independent(m.job) THEN SubOf(id, r.level).qty ELSE positions[id].qty
        BY <2>6, <2>8, <2>9, <3>2, <4>1 DEF Stock, Changes, QtyOf
      <4>5. exchange'[o].qty <= Stock(r)' + d
        BY <1>2, <2>5, <4>3, <4>4
      <4>6. QED
        BY <1>2, <2>4, <2>5, <2>6, <3>2, <4>5 DEF SoundOrder
    <3>3. QED
      BY <2>4, <3>1, <3>2 DEF Side
  <2>12. Sound' /\ Balanced'
    BY <1>2, <2>2, <2>4, <2>5, <2>7, <2>8, <2>10, <2>11, BookStep
  <2>13. ASSUME NEW q \in Proc \ {p} PROVE Fresh(pc[q], mem[q])'
    <3>1. PICK l, v : l = pc[q] /\ v = mem[q]
      OBVIOUS
    <3>2. ~(Original(v.job) /\ l \in {"tick"} \union Busy)
      BY <2>2, <2>13, <3>1 DEF BooksInv, Acting, Acts, SchedulersAlone
    <3>3. l \notin {"fetch", "apply"}
      BY <2>2, <2>5, <3>1 DEF Kept, Fresh
    <3>4. Fresh(l, v)'
      BY <3>2, <3>3 DEF Fresh, Busy, Admitted
    <3>5. QED
      BY <1>2, <3>1, <3>4
  <2>14. Fresh("idle", Blank)'
    BY DEF Fresh, Busy, Admitted
  <2>15. QED
    BY <1>2, <2>12, <2>13, <2>14 DEF Kept
<1>5. QED
  BY <1>3, <1>4 DEF BooksInv

-----------------------------------------------------------------------------
(* The transaction of a synchronization *)

\* What the answer adds is what the order may still execute: the snapshots are current.
LEMMA ApplyKnows ==
    ASSUME RowsOK, LocalsOK, Following, BooksInv, ~Retried,
           NEW p \in Proc, pc[p] = "apply", NEW m, m = mem[p], NEW d, d = Delta(m.order, m.ack)
    PROVE  /\ Kept /\ p \in Syncers /\ m.oid \in UnresolvedOrders
           /\ m.order = orders[m.oid] /\ m.order \in Order /\ m.order.pos \in DOMAIN positions
           /\ m.row = positions[m.order.pos]
           /\ m.sub = IF m.order.linked THEN SubOf(m.order.pos, m.order.level) ELSE NoSub
           /\ SoundOrder(m.order, exchange[m.oid])
           /\ d \in Nat
           /\ m.order.side = "SELL" => d <= Stock(m.order)
<1>1. m \in Memory /\ m.oid \in DOMAIN orders /\ m.order.pos \in DOMAIN positions
  BY DEF LocalsOK, LocalOK
<1>2. Acts(p, "apply", m) /\ Kept /\ Fresh("apply", m)
  BY DEF BooksInv, Acting, Kept
<1>3. /\ p \in Syncers /\ m.oid \in UnresolvedOrders /\ m.order = orders[m.oid]
      /\ m.row = positions[m.order.pos]
      /\ m.sub = IF m.order.linked THEN SubOf(m.order.pos, m.order.level) ELSE NoSub
  BY <1>2 DEF Acts, Fresh
<1>4. m.order \in Order /\ m.order.accounted \in Nat /\ m.ack.executed \in Nat
      /\ m.order.level \in Nat /\ m.order.status \in LiveOrder
  <2>1. m.order \in Order /\ m.ack \in ExchangeOrder
    BY <1>1 DEF Memory
  <2>2. QED
    BY <1>3, <2>1 DEF Order, ExchangeOrder, UnresolvedOrders
<1>5. SoundOrder(m.order, exchange[m.oid])
  BY <1>1, <1>2, <1>3 DEF Kept, Sound
<1>6. d \in Nat /\ (d = 0 \/ d + m.order.accounted = m.ack.executed)
  BY <1>4 DEF Delta, Less
<1>7. ASSUME m.order.side = "SELL" PROVE d <= Stock(m.order)
  <2>1. exchange[m.oid] \in ExchangeOrder /\ m.oid \in DOMAIN exchange
    BY <1>1 DEF RowsOK
  <2>2. exchange[m.oid].executed \in Nat /\ exchange[m.oid].qty \in Nat
    BY <2>1 DEF ExchangeOrder
  <2>3. m.ack.executed <= exchange[m.oid].executed
    BY DEF Following, Informed, Behind
  <2>4. exchange[m.oid].executed <= exchange[m.oid].qty
    BY <2>1 DEF BooksInv, Limits
  <2>5. PICK n : n = Stock(m.order)
    OBVIOUS
  <2>6. n \in Nat
    <3>1. positions[m.order.pos] \in Position
      BY <1>1 DEF RowsOK
    <3>2. SubOf(m.order.pos, m.order.level) \in Sub
      BY SubOfOK
    <3>3. QED
      BY <2>5, <3>1, <3>2 DEF Stock, Position, Sub
  <2>7. exchange[m.oid].qty <= n + m.order.accounted
    BY <1>4, <1>5, <1>7, <2>5 DEF SoundOrder
  <2>8. QED
    BY <1>4, <1>6, <2>2, <2>3, <2>4, <2>5, <2>6, <2>7
<1>8. QED
  BY <1>1, <1>2, <1>3, <1>4, <1>5, <1>6, <1>7

LEMMA ApplyParent ==
    ASSUME RowsOK, Sound, NEW p \in Proc, SyncApply(p), NEW m, m = mem[p],
           m.order \in Order, NEW d, d = Delta(m.order, m.ack), d \in Nat,
           NEW id, id = m.order.pos, id \in DOMAIN positions, m.row = positions[id],
           m.order.side = "BUY" /\ ~m.order.independent => positions[id].status = "OPEN",
           m.order.side = "SELL" /\ ~m.order.independent => d <= positions[id].qty
    PROVE  /\ DOMAIN positions' = DOMAIN positions
           /\ \A i \in DOMAIN positions \ {id} : positions'[i] = positions[i]
           /\ IF m.order.independent THEN positions'[id].qty = positions[id].qty
              ELSE Changes(positions[id].qty, positions'[id].qty, m.order.side, d)
           /\ positions'[id].status = "OPEN" => positions[id].status = "OPEN"
           /\ m.order.side = "BUY" => positions'[id].status = positions[id].status
           /\ positions'[id].dca =
                 IF /\ ~m.order.independent /\ d > 0
                    /\ m.order.side = "BUY" /\ m.order.accounted = 0
                 THEN positions[id].dca + 1 ELSE positions[id].dca
           /\ Opens
<1>0. PICK order : order = m.order
  OBVIOUS
<1>1. PICK row : row = positions[id]
  OBVIOUS
<1>2. row \in Position /\ row.qty \in Nat /\ row.dca \in Nat /\ row.status \in {"OPEN", "CLOSED"}
  <2>1. row \in Position
    BY <1>1 DEF RowsOK
  <2>2. QED
    BY <2>1 DEF Position
<1>3. order.side \in Side
  BY <1>0 DEF Order
<1>4. row.status = "CLOSED" => row.qty = 0
  BY <1>1 DEF Sound
<1>5. /\ DOMAIN positions' = DOMAIN positions
      /\ \A i \in DOMAIN positions \ {id} : positions'[i] = positions[i]
      /\ IF order.independent THEN positions'[id].qty = row.qty
         ELSE Changes(row.qty, positions'[id].qty, order.side, d)
      /\ positions'[id].status = "OPEN" => row.status = "OPEN"
      /\ order.side = "BUY" => positions'[id].status = row.status
      /\ positions'[id].status = "CLOSED" => positions'[id].qty = 0
      /\ positions'[id].dca = IF /\ ~order.independent /\ d > 0
                                 /\ order.side = "BUY" /\ order.accounted = 0
                              THEN row.dca + 1 ELSE row.dca
  <2>1. CASE d > 0 /\ ~order.independent /\ order.side = "BUY"
    <3>1. PICK dca : dca = m.row.dca + IF order.accounted = 0 THEN 1 ELSE 0
      OBVIOUS
    <3>2. BuyParent(id, row, d, dca)
      BY <1>0, <1>1, <2>1, <3>1 DEF SyncApply
    <3>3. /\ DOMAIN positions' = DOMAIN positions
          /\ \A i \in DOMAIN positions \ {id} : positions'[i] = positions[i]
          /\ positions'[id].qty = row.qty + d
          /\ positions'[id].dca = dca /\ positions'[id].status = row.status
      BY <1>1, <3>2, ParentBuys
    <3>4. row.status = "OPEN"
      BY <1>0, <1>1, <2>1
    <3>5. QED
      BY <1>1, <1>2, <2>1, <3>1, <3>3, <3>4 DEF Changes
  <2>2. CASE d > 0 /\ ~order.independent /\ order.side = "SELL"
    <3>1. SellParent(id, row, d) /\ d <= row.qty
      BY <1>0, <1>1, <2>2 DEF SyncApply
    <3>2. /\ DOMAIN positions' = DOMAIN positions
          /\ \A i \in DOMAIN positions \ {id} : positions'[i] = positions[i]
          /\ positions'[id].qty + d = row.qty
          /\ positions'[id].dca = row.dca
          /\ positions'[id].status = IF positions'[id].qty = 0 THEN "CLOSED" ELSE "OPEN"
      BY <1>1, <3>1, ParentSells
    <3>3. row.status = "OPEN"
      BY <1>2, <1>4, <2>2, <3>1
    <3>4. QED
      BY <2>2, <3>2, <3>3 DEF Changes
  <2>3. CASE d = 0 \/ order.independent
    <3>1. UNCHANGED positions
      BY <1>0, <2>3 DEF SyncApply
    <3>2. d = 0 => Changes(row.qty, row.qty, order.side, d)
      BY <1>2 DEF Changes
    <3>3. QED
      BY <1>1, <1>4, <2>3, <3>1, <3>2
  <2>4. QED
    BY <1>3, <2>1, <2>2, <2>3 DEF Side
<1>6. Opens
  BY <1>1, <1>5 DEF Opens, Sound
<1>7. QED
  BY <1>0, <1>1, <1>5, <1>6

LEMMA ApplySub ==
    ASSUME RowsOK, NEW p \in Proc, SyncApply(p), NEW m, m = mem[p],
           m.order \in Order, NEW d, d = Delta(m.order, m.ack), d \in Nat,
           NEW id, id = m.order.pos, NEW l, l = m.order.level,
           m.sub = IF m.order.linked THEN SubOf(id, l) ELSE NoSub,
           m.order.side = "SELL" /\ m.order.independent => m.order.linked /\ d <= SubOf(id, l).qty
    PROVE  /\ \A i, k :
                 IF i = id /\ k = l /\ m.order.independent
                 THEN Changes(SubOf(i, k).qty, SubOf(i, k)'.qty, m.order.side, d)
                 ELSE SubOf(i, k)'.qty = SubOf(i, k).qty
           /\ \A s \in DOMAIN subs' : s \in DOMAIN subs \/ (m.order.independent /\ s[2] = l)
<1>0. PICK order : order = m.order
  OBVIOUS
<1>1. PICK sub : sub = SubOf(id, l)
  OBVIOUS
<1>2. sub \in Sub /\ sub.qty \in Nat
  BY <1>1, SubOfOK DEF Sub
<1>3. order.side \in Side
  BY <1>0 DEF Order
<1>4. CASE d > 0 /\ order.independent
  <2>1. /\ DOMAIN subs' = DOMAIN subs \union {<<id, l>>}
        /\ Changes(sub.qty, SubOf(id, l)'.qty, order.side, d)
        /\ \A i, k : <<i, k>> # <<id, l>> => SubOf(i, k)' = SubOf(i, k)
    <3>1. CASE order.side = "BUY"
      <4>1. BuySub(id, l, IF order.linked THEN m.sub ELSE SubOf(id, l), d)
        BY <1>0, <1>4, <3>1 DEF SyncApply
      <4>2. BuySub(id, l, sub, d)
        BY <1>0, <1>1, <4>1
      <4>3. /\ DOMAIN subs' = DOMAIN subs \union {<<id, l>>}
            /\ subs'[<<id, l>>].qty = sub.qty + d
            /\ \A i, k : <<i, k>> # <<id, l>> => SubOf(i, k)' = SubOf(i, k)
        BY <4>2, SubBuys
      <4>4. QED
        BY <3>1, <4>3 DEF Changes, SubOf
    <3>2. CASE order.side = "SELL"
      <4>0. SellSub(id, l, sub, d)
        BY <1>0, <1>1, <1>4, <3>2 DEF SyncApply
      <4>1. d <= sub.qty
        BY <1>0, <1>1, <1>4, <3>2
      <4>2. /\ DOMAIN subs' = DOMAIN subs \union {<<id, l>>}
            /\ subs'[<<id, l>>].qty + d = sub.qty
            /\ \A i, k : <<i, k>> # <<id, l>> => SubOf(i, k)' = SubOf(i, k)
        BY <1>2, <4>0, <4>1, SubSells
      <4>3. QED
        BY <3>2, <4>2 DEF Changes, SubOf
    <3>3. QED
      BY <1>3, <3>1, <3>2 DEF Side
  <2>2. QED
    BY <1>0, <1>1, <1>4, <2>1
<1>5. CASE ~(d > 0 /\ order.independent)
  <2>1. UNCHANGED subs
    BY <1>0, <1>5 DEF SyncApply
  <2>2. \A i, k : SubOf(i, k)' = SubOf(i, k)
    BY <2>1 DEF SubOf
  <2>3. order.independent => Changes(sub.qty, SubOf(id, l)'.qty, order.side, d)
    BY <1>1, <1>2, <1>5, <2>2 DEF Changes
  <2>4. QED
    BY <1>0, <1>1, <2>1, <2>2, <2>3
<1>6. QED
  BY <1>0, <1>4, <1>5

\* What the row becomes.
LEMMA ApplyRow ==
    ASSUME RowsOK, NEW p \in Proc, SyncApply(p), NEW m, m = mem[p],
           NEW o \in DOMAIN orders, o = m.oid, NEW order, order = orders[o], order = m.order,
           NEW d \in Nat, d = Delta(order, m.ack)
    PROVE  /\ Gains(o, d)
           /\ order.linked => orders'[o].linked
<1>1. order \in Order
  BY DEF RowsOK
<1> DEFINE r == [order EXCEPT !.status = MapStatus(m.ack.status),
                              !.linked = order.linked \/ (order.independent /\ d > 0),
                              !.accounted = order.accounted + d]
<1>2. orders' = [orders EXCEPT ![o] = r]
  BY <1>1 DEF SyncApply
<1>3. /\ r.accounted = d + order.accounted /\ r.pos = order.pos /\ r.side = order.side
      /\ r.level = order.level /\ r.independent = order.independent
      /\ order.linked => r.linked
  BY <1>1 DEF Order
<1> HIDE DEF r
<1>4. DOMAIN orders' = DOMAIN orders /\ orders'[o] = r
      /\ \A i \in DOMAIN orders \ {o} : orders'[i] = orders[i]
  BY <1>2 DEF RowsOK
<1>5. QED
  BY <1>3, <1>4 DEF Gains

LEMMA ApplyBooks ==
    ASSUME SchedulersAlone, RowsOK, LocalsOK, Following, BooksInv, RowsOK',
           NEW p \in Proc, SyncApply(p)
    PROVE  BooksInv'
<1>1. PICK m : m = mem[p]
  OBVIOUS
<1>2. pc'[p] = "idle" /\ mem'[p] = Blank /\ UNCHANGED exchange /\ pc[p] = "apply"
      /\ \A q \in Proc \ {p} : pc'[q] = pc[q] /\ mem'[q] = mem[q]
  BY DEF SyncApply, Return, Goto, LocalsOK
<1>3. Acting' /\ Limits'
  <2>1. Acts(p, "idle", Blank)
    BY DEF Acts, Busy
  <2>2. QED
    BY <1>2, <2>1 DEF BooksInv, Acting, Acts, Limits
<1>4. ASSUME ~Retried' PROVE Kept'
  <2>1. ~Retried
    BY <1>4 DEF Retried, SyncApply
  <2>2. PICK order, o : order = m.order /\ o = m.oid
    OBVIOUS
  <2>3. PICK id, l, d : id = order.pos /\ l = order.level /\ d = Delta(order, m.ack)
    OBVIOUS
  <2>4. /\ Kept /\ p \in Syncers /\ o \in UnresolvedOrders
        /\ order = orders[o] /\ order \in Order /\ id \in DOMAIN positions
        /\ m.row = positions[id]
        /\ m.sub = IF order.linked THEN SubOf(id, l) ELSE NoSub
        /\ SoundOrder(order, exchange[o])
        /\ d \in Nat
        /\ order.side = "SELL" => d <= Stock(order)
    BY <1>1, <1>2, <2>1, <2>2, <2>3, ApplyKnows
  <2>5. o \in DOMAIN orders /\ order.status \in LiveOrder /\ Sound /\ Balanced
        /\ order.side \in Side /\ order.accounted \in Nat /\ UnresolvedOrders \subseteq {o}
    BY <2>4 DEF UnresolvedOrders, Kept, Sound, Order
  <2>6. /\ order.side = "BUY" /\ ~order.independent => positions[id].status = "OPEN"
        /\ order.side = "SELL" /\ ~order.independent => d <= positions[id].qty
        /\ order.side = "SELL" /\ order.independent => order.linked /\ d <= SubOf(id, l).qty
    BY <2>3, <2>4, <2>5 DEF SoundOrder, Stock
  <2>7. PICK r : r = orders'[o]
    OBVIOUS
  <2>8. Gains(o, d) /\ (order.linked => r.linked)
    BY <1>1, <2>2, <2>3, <2>4, <2>5, <2>7, ApplyRow
  <2>9. /\ r.pos = id /\ r.side = order.side /\ r.level = l
        /\ r.independent = order.independent /\ r.accounted = d + order.accounted
    BY <2>3, <2>4, <2>5, <2>7, <2>8 DEF Gains
  <2>10. /\ DOMAIN positions' = DOMAIN positions
         /\ \A i \in DOMAIN positions \ {id} : positions'[i] = positions[i]
         /\ IF order.independent THEN positions'[id].qty = positions[id].qty
            ELSE Changes(positions[id].qty, positions'[id].qty, order.side, d)
         /\ positions'[id].status = "OPEN" => positions[id].status = "OPEN"
         /\ order.side = "BUY" => positions'[id].status = positions[id].status
         /\ Opens
    <3>1. /\ m.order \in Order /\ d = Delta(m.order, m.ack) /\ id = m.order.pos
          /\ m.order.side = "BUY" /\ ~m.order.independent => positions[id].status = "OPEN"
          /\ m.order.side = "SELL" /\ ~m.order.independent => d <= positions[id].qty
      BY <2>2, <2>3, <2>4, <2>6
    <3>2. /\ DOMAIN positions' = DOMAIN positions
          /\ \A i \in DOMAIN positions \ {id} : positions'[i] = positions[i]
          /\ IF m.order.independent THEN positions'[id].qty = positions[id].qty
             ELSE Changes(positions[id].qty, positions'[id].qty, m.order.side, d)
          /\ positions'[id].status = "OPEN" => positions[id].status = "OPEN"
          /\ m.order.side = "BUY" => positions'[id].status = positions[id].status
          /\ Opens
      BY <1>1, <2>4, <2>5, <3>1, ApplyParent
    <3>3. QED
      BY <2>2, <3>2
  <2>11. /\ \A i, k :
               IF i = id /\ k = l /\ order.independent
               THEN Changes(SubOf(i, k).qty, SubOf(i, k)'.qty, order.side, d)
               ELSE SubOf(i, k)'.qty = SubOf(i, k).qty
         /\ \A s \in DOMAIN subs' : s \in DOMAIN subs \/ (order.independent /\ s[2] = l)
    <3>1. /\ m.order \in Order /\ d = Delta(m.order, m.ack) /\ id = m.order.pos /\ l = m.order.level
          /\ m.sub = IF m.order.linked THEN SubOf(id, l) ELSE NoSub
          /\ m.order.side = "SELL" /\ m.order.independent => m.order.linked /\ d <= SubOf(id, l).qty
      BY <2>2, <2>3, <2>4, <2>6
    <3>2. /\ \A i, k :
                IF i = id /\ k = l /\ m.order.independent
                THEN Changes(SubOf(i, k).qty, SubOf(i, k)'.qty, m.order.side, d)
                ELSE SubOf(i, k)'.qty = SubOf(i, k).qty
          /\ \A s \in DOMAIN subs' : s \in DOMAIN subs \/ (m.order.independent /\ s[2] = l)
      BY <1>1, <2>4, <3>1, ApplySub
    <3>3. QED
      BY <2>2, <3>2
  <2>12. Follows(r, d)
    BY <2>9, <2>10, <2>11 DEF Follows, QtyOf
  <2>13. SoundOrder(r, exchange[o])'
    <3>1. exchange'[o] = exchange[o]
      BY <1>2
    <3>2. CASE order.side = "BUY"
      BY <2>3, <2>4, <2>5, <2>6, <2>9, <2>10, <3>1, <3>2 DEF SoundOrder
    <3>3. CASE order.side = "SELL"
      <4>1. exchange[o].qty <= Stock(order) + order.accounted
        BY <2>4, <2>5, <3>3 DEF SoundOrder
      <4>2. Stock(r)' + d = Stock(order)
        BY <2>3, <2>9, <2>10, <2>11, <3>3 DEF Stock, Changes
      <4>3. Stock(r)' \in Nat
        <5>1. positions'[id] \in Position
          BY <2>4, <2>10 DEF RowsOK
        <5>2. SubOf(id, l)' \in Sub
          BY DEF SubOf, RowsOK, NoSub, Sub
        <5>3. QED
          BY <2>9, <5>1, <5>2 DEF Stock, Position, Sub
      <4>4. Stock(r)' + r.accounted = Stock(order) + order.accounted
        BY <2>4, <2>5, <2>9, <4>2, <4>3
      <4>5. QED
        BY <2>3, <2>4, <2>5, <2>8, <2>9, <3>1, <3>3, <4>1, <4>4 DEF SoundOrder
    <3>4. QED
      BY <2>5, <3>2, <3>3 DEF Side
  <2>14. Sound' /\ Balanced'
    BY <1>2, <2>4, <2>5, <2>7, <2>8, <2>12, <2>10, <2>13, BookStep
  <2>15. ASSUME NEW q \in Proc \ {p} PROVE Fresh(pc[q], mem[q])'
    <3>1. PICK k, v : k = pc[q] /\ v = mem[q]
      OBVIOUS
    <3>2. Fresh(k, v) /\ k \notin {"fetch", "apply"}
      BY <2>4, <2>15, <3>1 DEF Kept, BooksInv, Acting, Acts, SchedulersAlone
    <3>3. ~(Original(v.job) /\ k \in Busy)
      BY <2>4, <3>2 DEF Fresh
    <3>4. \A i \in DOMAIN positions' : positions'[i].status = "OPEN" =>
             i \in DOMAIN positions /\ positions[i].status = "OPEN"
      BY <2>10
    <3>5. Fresh(k, v)'
      BY <3>2, <3>3, <3>4 DEF Fresh, Busy, Admitted
    <3>6. QED
      BY <1>2, <3>1, <3>5
  <2>16. Fresh("idle", Blank)'
    BY DEF Fresh, Busy, Admitted
  <2>17. QED
    BY <1>2, <2>14, <2>15, <2>16 DEF Kept
<1>5. QED
  BY <1>3, <1>4 DEF BooksInv

-----------------------------------------------------------------------------
(* All steps *)

LEMMA ExecutionBooks ==
    ASSUME SchedulersAlone, RowsOK, LocalsOK, Following, Claims, Alone, BooksInv, RowsOK',
           NEW p \in Proc, ExecutionStep(p)
    PROVE  BooksInv'
<1>1. CASE Refuse(p) \/ RefuseClaim(p)
  <2>1. \E retry : Throw(p, retry)
    BY <1>1 DEF Refuse, RefuseClaim
  <2>2. UNCHANGED <<positions, subs, orders, exchange, actions>>
    BY <1>1 DEF Refuse, RefuseClaim, rows
  <2>3. QED
    BY <2>1, <2>2, ThrowBooks
<1>2. CASE Duplicate(p)
  BY <1>2, ReturnBooks DEF Duplicate, rows
<1>3. CASE FailClaim(p)
  <2>1. DOMAIN actions' = DOMAIN actions
    BY <1>3, KeysKept DEF FailClaim
  <2>2. Throw(p, mem[p].retry) /\ UNCHANGED <<positions, subs, orders, exchange>>
    BY <1>3 DEF FailClaim
  <2>3. QED
    BY <2>1, <2>2, ThrowBooks
<1>4. CASE Admit(p)
  BY <1>4, AdmitBooks
<1>5. CASE PassClaim(p) \/ CreateAction(p)
  BY <1>5, ClaimBooks
<1>6. CASE Place(p)
  BY <1>6, PlaceBooks
<1>7. CASE PlaceLost(p) \/ PlaceRefused(p) \/ CommitFails(p)
  BY <1>7, FailBooks
<1>8. CASE Commit(p)
  BY <1>8, CommitBooks
<1>9. CASE FailRead(p)
  <2>1. CASE mem[p].job.type # "NONE"
    BY <1>9, <2>1, VerdictBooks
  <2>2. CASE mem[p].job.type = "NONE"
    <3>1. Throw(p, mem[p].retry) /\ UNCHANGED <<positions, subs, orders, exchange, actions>>
      BY <1>9, <2>2 DEF FailRead, rows
    <3>2. QED
      BY <3>1, ThrowBooks
  <2>3. QED
    BY <2>1, <2>2
<1>10. QED
  BY <1>1, <1>2, <1>3, <1>4, <1>5, <1>6, <1>7, <1>8, <1>9 DEF ExecutionStep

LEMMA NextBooks ==
    ASSUME SchedulersAlone, Followed, Claiming, Alone, BooksInv, [Next]_vars
    PROVE  BooksInv'
<1>1. RowsOK /\ LocalsOK /\ Following /\ Claims
  BY DEF Followed, Linked, Claiming
<1>2. RowsOK'
  BY NextFollows DEF Followed, Linked
<1>3. CASE \E p \in Proc : TickStep(p)
  BY <1>1, <1>3, TickBooks
<1>4. CASE \E p \in Proc : ExecutionStep(p)
  BY <1>1, <1>2, <1>4, ExecutionBooks
<1>5. CASE \E p \in Proc : RetryStep(p)
  BY <1>1, <1>5, RetryBooks
<1>6. CASE \E p \in Proc : SyncStep(p)
  BY <1>1, <1>2, <1>6, ReadBooks, ApplyBooks
<1>7. CASE \E p \in Proc : RequestStep(p)
  BY <1>1, <1>7, RequestBooks
<1>8. CASE \E p \in Proc : StopStep(p)
  BY <1>1, <1>8, StopBooks
<1>9. ASSUME NEW p \in Proc, Crash(p) PROVE BooksInv'
  BY <1>1, <1>9, ReturnBooks DEF Crash, rows
<1>10. CASE SetStatus \/ UNCHANGED vars
  <2>1. UNCHANGED <<positions, subs, orders, pc, mem, actions, exchange>>
    BY <1>10 DEF SetStatus, vars
  <2>2. Steady /\ Limits'
    BY <2>1 DEF Steady, Limits, BooksInv
  <2>3. QED
    BY <1>1, <2>1, <2>2, StillBooks
<1>11. CASE \E o \in DOMAIN exchange : ExchangeFills(o) \/ ExchangeEnds(o)
  <2>1. UNCHANGED <<pc, mem>>
    BY <1>11 DEF ExchangeFills, ExchangeEnds
  <2>2. QED
    BY <1>1, <1>11, <2>1, ExchangeBooks
<1>12. QED
  BY <1>3, <1>4, <1>5, <1>6, <1>7, <1>8, <1>9, <1>10, <1>11 DEF Next

LEMMA InitBooks == Init => BooksInv
<1> SUFFICES ASSUME Init PROVE BooksInv
  OBVIOUS
<1>1. Limits /\ Acting
  BY DEF Init, Limits, Acting, Acts, Busy
<1>2. Sound /\ Balanced
  BY DEF Init, Sound, Balanced, UnresolvedOrders
<1>3. \A p \in Proc : Fresh(pc[p], mem[p])
  BY DEF Init, Fresh, Busy, Admitted
<1>4. QED
  BY <1>1, <1>2, <1>3 DEF BooksInv, Kept

\* The three properties, from the invariant.
LEMMA OneAtMost ==
    ASSUME NEW S, \A x, y \in S : x = y
    PROVE  Cardinality(S) <= 1
<1>1. CASE S = {}
  BY <1>1, FS_EmptySet
<1>2. CASE S # {}
  <2>1. PICK x : x \in S
    BY <1>2
  <2>2. S = {x}
    BY <2>1
  <2>3. QED
    BY <2>2, FS_Singleton
<1>3. QED
  BY <1>1, <1>2

LEMMA BooksMatch ==
    ASSUME RowsOK, Sound, Balanced
    PROVE  PositionsMatchFills /\ OneOrderAtATime /\ OneOpenPosition
<1>1. ASSUME NEW os, os \subseteq DOMAIN orders, NEW qty \in Nat, qty + Sold(os) = Bought(os)
      PROVE  qty = Bought(os) - Sold(os)
  <2>1. Sold(os) \in Nat /\ Bought(os) \in Nat
    BY <1>1, AccountOK DEF Sold, Bought
  <2>2. QED
    BY <1>1, <2>1
<1>2. ASSUME NEW id \in DOMAIN positions
      PROVE  positions[id].qty = Bought(OrdersOf(id)) - Sold(OrdersOf(id))
  <2>1. positions[id] \in Position
    BY DEF RowsOK
  <2>2. positions[id].qty \in Nat
    BY <2>1 DEF Position
  <2>3. OrdersOf(id) \subseteq DOMAIN orders
    BY DEF OrdersOf
  <2>4. QED
    BY <1>1, <2>2, <2>3 DEF Balanced
<1>3. ASSUME NEW s \in DOMAIN subs
      PROVE  subs[s].qty = Bought(OrdersOfSub(s)) - Sold(OrdersOfSub(s))
  <2>1. PICK id, level : id \in DOMAIN positions /\ level \in Nat /\ s = <<id, level>>
    BY DEF RowsOK
  <2>2. subs[s] = SubOf(id, level) /\ subs[s] \in Sub
    BY <2>1 DEF SubOf, RowsOK
  <2>3. subs[s].qty \in Nat
    BY <2>2 DEF Sub
  <2>4. subs[s].qty + Sold(OrdersOfSub(s)) = Bought(OrdersOfSub(s))
    BY <2>1, <2>2 DEF Balanced
  <2>5. OrdersOfSub(s) \subseteq DOMAIN orders
    BY DEF OrdersOfSub
  <2>6. QED
    BY <1>1, <2>3, <2>4, <2>5
<1>4. OneOrderAtATime
  BY OneAtMost DEF OneOrderAtATime, Sound
<1>5. OneOpenPosition
  BY OneAtMost DEF OneOpenPosition, Sound
<1>6. QED
  BY <1>2, <1>3, <1>4, <1>5 DEF PositionsMatchFills, Bought, Sold

\* The invariants that the books rest on hold together.
LEMMA BooksHold ==
    ASSUME SchedulersAlone
    PROVE  Spec => [](Followed /\ Claiming /\ Alone /\ BooksInv)
<1>1. OneSyncer
  BY DEF SchedulersAlone, OneSyncer
<1>2. Init => Alone /\ BooksInv
  BY InitBooks DEF Init, Alone, Booking
<1>3. Followed /\ Claiming /\ Alone /\ BooksInv /\ [Next]_vars => Alone' /\ BooksInv'
  BY <1>1, NextBooks, LedgerFollows
<1>4. QED
  BY <1>2, <1>3, BooksFollow, ClaimsHold, PTL DEF Spec

\* What the invariants say of a state in which no retry has got through.
LEMMA BooksKept ==
    ASSUME SchedulersAlone
    PROVE  Spec => [](~Retried => PositionsMatchFills /\ OneOrderAtATime /\ OneOpenPosition)
<1>1. Followed /\ BooksInv => (~Retried => PositionsMatchFills /\ OneOrderAtATime /\ OneOpenPosition)
  BY BooksMatch DEF Followed, Linked, BooksInv, Kept
<1>2. QED
  BY <1>1, BooksHold, PTL

\* As long as the locks keep the schedulers alone and no retry has got through, no
\* fill is lost or counted twice between order rows and positions ...
THEOREM BooksBalance ==
    ASSUME SchedulersAlone
    PROVE  Spec => [](~Retried => PositionsMatchFills)
BY BooksKept, PTL

\* ... one order of the strategy is unresolved at a time ...
THEOREM OrdersOneByOne ==
    ASSUME SchedulersAlone
    PROVE  Spec => [](~Retried => OneOrderAtATime)
BY BooksKept, PTL

\* ... and one position is open.
THEOREM PositionsOneByOne ==
    ASSUME SchedulersAlone
    PROVE  Spec => [](~Retried => OneOpenPosition)
BY BooksKept, PTL

-----------------------------------------------------------------------------
(* Sales *)

\* The orders that bought what an exit with key k may sell, and what may be said
\* of an order on the exchange: a sale is an exit, of no more than they bought.
BooksOf(k) == IF k.type = "INDEPENDENT_EXIT" THEN OrdersOfSub(<<k.pos, k.tag>>) ELSE OrdersOf(k.pos)
Covered(x) ==
    x.side = "SELL" =>
        /\ x.key # NoKey /\ x.key.by = "auto" /\ x.key.type \in Exits
        /\ x.key.type = "PARENT_EXIT" => x.key.tag = 0
        /\ x.qty <= Bought(BooksOf(x.key))
Sales == ~Retried => \A i \in DOMAIN exchange : Covered(exchange[i])

\* No action is deleted.
LEMMA ActionsStay ==
    ASSUME SchedulersAlone, LocalsOK, Following, [Next]_vars
    PROVE  DOMAIN actions \subseteq DOMAIN actions'
<1>1. ASSUME NEW p \in Proc, TickStep(p) \/ RetryStep(p) PROVE DOMAIN actions' = DOMAIN actions
  BY <1>1, KeysKept
     DEF TickStep, TickDecide, TickSkip, TickExecute, RetryStep, RetryPick, RetryClaim, RetryGone,
         GiveUpRead, GiveUp, rows
<1>2. ASSUME NEW p \in Proc, RequestStep(p) PROVE DOMAIN actions' = DOMAIN actions
  BY <1>2, KeysKept
     DEF RequestStep, RequestOrder, RequestClose, Request, RequestRetry, ManualRetry, RequestCancel,
         ManualCancel, rows
<1>3. ASSUME NEW p \in Proc, SyncStep(p) PROVE DOMAIN actions' = DOMAIN actions
  <2>1. CASE SyncApply(p)
    BY <2>1 DEF SyncApply
  <2>2. CASE ~SyncApply(p)
    BY <1>3, <2>2, KeysKept DEF SyncStep, SyncRead, SyncFetch, SyncFails, RecoverRead,
                                        Recover, RecoverFilled, RecoverEnded, RecoverFail, rows
  <2>3. QED
    BY <2>1, <2>2
<1>4. ASSUME NEW p \in Proc, ExecutionStep(p) PROVE DOMAIN actions \subseteq DOMAIN actions'
  <2>1. CASE CreateAction(p)
    BY <2>1 DEF CreateAction, Create, Put
  <2>2. CASE Commit(p)
    BY <2>2 DEF Commit, Bind
  <2>3. CASE FailClaim(p)
    BY <2>3, KeysKept DEF FailClaim
  <2>4. CASE ~(CreateAction(p) \/ Commit(p) \/ FailClaim(p))
    BY <1>4, <2>4 DEF ExecutionStep, Refuse, Admit, Duplicate, RefuseClaim, PassClaim, FailRead,
                      Place, PlaceLost, PlaceRefused, Accept, CommitFails, rows
  <2>5. QED
    BY <2>1, <2>2, <2>3, <2>4
<1>5. ASSUME NEW p \in Proc, StopStep(p) \/ Crash(p) PROVE DOMAIN actions' = DOMAIN actions
  BY <1>5, StopBooks DEF Crash, rows
<1>6. CASE SetStatus \/ UNCHANGED vars \/ \E o \in DOMAIN exchange : ExchangeFills(o) \/ ExchangeEnds(o)
  BY <1>6 DEF SetStatus, vars, ExchangeFills, ExchangeEnds, rows
<1>7. QED
  BY <1>1, <1>2, <1>3, <1>4, <1>5, <1>6 DEF Next

\* What was bought stays bought.
LEMMA BoughtGrows ==
    ASSUME RowsOK, RowsOK', UNCHANGED orders \/ \E o : \E d \in Nat : Gains(o, d), NEW k
    PROVE  Bought(BooksOf(k)) \in Nat /\ \E e \in Nat : Bought(BooksOf(k))' = Bought(BooksOf(k)) + e
<1>1. PICK a, b : a = Bought(BooksOf(k)) /\ b = Bought(BooksOf(k))'
  OBVIOUS
<1>2. a \in Nat
  <2>1. BooksOf(k) \subseteq DOMAIN orders
    BY DEF BooksOf, OrdersOf, OrdersOfSub
  <2>2. QED
    BY <1>1, <2>1, AccountOK DEF Bought
<1>3. CASE UNCHANGED orders
  <2>1. b = a + 0
    BY <1>1, <1>2, <1>3 DEF Bought, Accounted, BooksOf, OrdersOf, OrdersOfSub
  <2>2. QED
    BY <1>1, <1>2, <2>1
<1>4. ASSUME NEW o, NEW d \in Nat, Gains(o, d) PROVE \E e \in Nat : b = a + e
  <2>1. PICK s : s = <<k.pos, k.tag>>
    OBVIOUS
  <2>2. PICK e \in Nat : b = a + e
    <3>1. CASE k.type = "INDEPENDENT_EXIT"
      <4>1. a = Accounted(OrdersOfSub(s), "BUY") /\ b = Accounted(OrdersOfSub(s), "BUY")'
        BY <1>1, <2>1, <3>1 DEF Bought, BooksOf
      <4>2. b = a + IF /\ orders'[o].pos = s[1] /\ orders'[o].level = s[2]
                       /\ orders'[o].independent /\ orders'[o].side = "BUY" THEN d ELSE 0
        BY <1>4, <4>1, SubGains
      <4>3. QED
        BY <4>2
    <3>2. CASE k.type # "INDEPENDENT_EXIT"
      <4>1. PICK id : id = k.pos
        OBVIOUS
      <4>2. a = Accounted(OrdersOf(id), "BUY") /\ b = Accounted(OrdersOf(id), "BUY")'
        BY <1>1, <3>2, <4>1 DEF Bought, BooksOf
      <4>3. b = a + IF /\ orders'[o].pos = id /\ ~orders'[o].independent
                       /\ orders'[o].side = "BUY" THEN d ELSE 0
        BY <1>4, <4>2, ParentGains
      <4>4. QED
        BY <4>3
    <3>3. QED
      BY <3>1, <3>2
  <2>3. QED
    BY <2>2
<1>5. QED
  BY <1>1, <1>2, <1>3, <1>4

\* An order that was covered stays so.
LEMMA CoveredOn ==
    ASSUME RowsOK, RowsOK', UNCHANGED orders \/ \E o : \E d \in Nat : Gains(o, d),
           NEW x, NEW y, Covered(x), y.key = x.key, y.side = x.side, y.qty = x.qty, x.qty \in Nat
    PROVE  Covered(y)'
<1>1. PICK k : k = x.key
  OBVIOUS
<1>2. PICK a, b : a = Bought(BooksOf(k)) /\ b = Bought(BooksOf(k))'
  OBVIOUS
<1>3. a \in Nat /\ \E e \in Nat : b = a + e
  BY <1>2, BoughtGrows
<1>4. QED
  BY <1>1, <1>2, <1>3 DEF Covered

\* Booking an order adds to its account and to no other.
LEMMA BookingGains ==
    ASSUME RowsOK, LocalsOK, Following, Alone, BooksInv, ~Retried,
           NEW p \in Proc, Commit(p) \/ SyncApply(p)
    PROVE  \E o : \E d \in Nat : Gains(o, d)
<1>1. PICK m : m = mem[p]
  OBVIOUS
<1>2. CASE Commit(p)
  <2>1. PICK o, d : o = m.oid /\ d = m.ack.executed
    OBVIOUS
  <2>2. d \in Nat /\ o \notin DOMAIN orders
    <3>1. m.ack \in ExchangeOrder
      BY <1>1 DEF LocalsOK, Memory
    <3>2. QED
      BY <1>1, <1>2, <2>1, <3>1 DEF ExchangeOrder, Alone, Booking, Commit
  <2>3. PICK r : orders' = Put(orders, o, r) /\ r.accounted = d
    BY <1>1, <1>2, <2>1 DEF Commit
  <2>4. DOMAIN orders' = DOMAIN orders \union {o} /\ orders'[o] = r
        /\ \A i \in DOMAIN orders : orders'[i] = orders[i]
    BY <2>2, <2>3 DEF Put
  <2>5. Gains(o, d)
    BY <2>2, <2>3, <2>4 DEF Gains
  <2>6. QED
    BY <2>2, <2>5
<1>3. CASE SyncApply(p)
  <2>1. PICK order, o : order = m.order /\ o = m.oid
    OBVIOUS
  <2>2. PICK d : d = Delta(order, m.ack)
    OBVIOUS
  <2>3. o \in UnresolvedOrders /\ order = orders[o] /\ d \in Nat
    BY <1>1, <1>3, <2>1, <2>2, ApplyKnows DEF SyncApply
  <2>4. o \in DOMAIN orders
    BY <2>3 DEF UnresolvedOrders
  <2>5. Gains(o, d)
    BY <1>1, <1>3, <2>1, <2>2, <2>3, <2>4, ApplyRow
  <2>6. QED
    BY <2>3, <2>5
<1>4. QED
  BY <1>2, <1>3

\* Who places an order while no retry has got through is the runner, and what it
\* sells is there.
LEMMA AcceptSales ==
    ASSUME RowsOK, LocalsOK, Claims, BooksInv, ~Retried, RowsOK',
           NEW p \in Proc, Accept(p), NEW x, x = exchange'[Len(exchange')]
    PROVE  Covered(x)
<1>1. PICK m : m = mem[p]
  OBVIOUS
<1>2. x.qty = m.job.qty /\ x.side = m.job.side /\ x.key = m.job.key /\ pc[p] = "place"
  BY <1>1, AcceptBooks DEF Accept
<1>3. m \in Memory /\ LocalOK("place", m) /\ Acts(p, "place", m) /\ Kept /\ Fresh("place", m)
  BY <1>1, <1>2 DEF LocalsOK, BooksInv, Acting, Kept
<1>4. m.job.type # "NONE" /\ m.job.key # NoKey
  BY <1>3 DEF Acts, Busy, LocalOK
<1>5. m.job.key \in DOMAIN actions
  <2>1. m.job.key \in Held(p)
    BY <1>1, <1>2, <1>4 DEF Held, Flight
  <2>2. QED
    BY <2>1 DEF Claims
<1>6. Original(m.job) /\ OriginalJob(m.job)
  BY <1>3, <1>4, <1>5 DEF Retried, Original, Acts, Busy
<1>7. /\ NewestOpen(m.pos) /\ Stocked(m.job, m.row, m.sub, m.pos)
      /\ m.row = RowOf(m.pos) /\ m.sub = SubOf(m.pos, m.job.level)
      /\ \A i \in DOMAIN positions : positions[i].status = "OPEN" => i = m.job.key.pos
  BY <1>3, <1>6 DEF Fresh, Busy, Admitted
<1>8. m.job \in Job /\ m.job.level \in Nat /\ m.job.qty \in Nat
  BY <1>3 DEF Memory, Job
<1>9. ASSUME m.job.side = "SELL" PROVE m.job.qty <= Bought(BooksOf(m.job.key))
  <2>1. PICK id, l : id = m.job.key.pos /\ l = m.job.level
    OBVIOUS
  <2>2. m.pos = id /\ id \in DOMAIN positions /\ id # NoId
    BY <1>7, <1>9, <2>1 DEF Stocked, NewestOpen
  <2>3. CASE m.job.type = "INDEPENDENT_EXIT"
    <3>1. PICK a, b, q : /\ a = Sold(OrdersOfSub(<<id, l>>)) /\ b = Bought(OrdersOfSub(<<id, l>>))
                         /\ q = SubOf(id, l).qty
      OBVIOUS
    <3>2. q + a = b
      BY <1>3, <1>8, <2>1, <2>2, <3>1 DEF Kept, Balanced
    <3>3. a \in Nat /\ b \in Nat
      <4>1. OrdersOfSub(<<id, l>>) \subseteq DOMAIN orders
        BY DEF OrdersOfSub
      <4>2. QED
        BY <3>1, <4>1, AccountOK DEF Bought, Sold
    <3>4. q \in Nat
      BY <3>1, SubOfOK DEF Sub
    <3>5. m.job.qty <= q
      BY <1>7, <1>9, <2>1, <2>2, <2>3, <3>1 DEF Stocked
    <3>6. b = Bought(BooksOf(m.job.key))
      BY <1>6, <2>1, <2>3, <3>1 DEF BooksOf, OriginalJob
    <3>7. QED
      BY <1>8, <3>2, <3>3, <3>4, <3>5, <3>6
  <2>4. CASE m.job.type # "INDEPENDENT_EXIT"
    <3>1. PICK a, b, q : /\ a = Sold(OrdersOf(id)) /\ b = Bought(OrdersOf(id))
                         /\ q = positions[id].qty
      OBVIOUS
    <3>2. q + a = b
      BY <1>3, <2>2, <3>1 DEF Kept, Balanced
    <3>3. a \in Nat /\ b \in Nat
      <4>1. OrdersOf(id) \subseteq DOMAIN orders
        BY DEF OrdersOf
      <4>2. QED
        BY <3>1, <4>1, AccountOK DEF Bought, Sold
    <3>4. q \in Nat
      <4>1. positions[id] \in Position
        BY <2>2 DEF RowsOK
      <4>2. QED
        BY <3>1, <4>1 DEF Position
    <3>5. m.job.qty <= q
      BY <1>7, <1>9, <2>2, <2>4, <3>1 DEF Stocked, RowOf
    <3>6. b = Bought(BooksOf(m.job.key))
      BY <1>6, <2>1, <2>4, <3>1 DEF BooksOf, OriginalJob
    <3>7. QED
      BY <1>8, <3>2, <3>3, <3>4, <3>5, <3>6
  <2>5. QED
    BY <2>3, <2>4
<1>10. QED
  BY <1>2, <1>4, <1>6, <1>9 DEF Covered, OriginalJob

LEMMA NextSales ==
    ASSUME SchedulersAlone, Followed, Claiming, Alone, BooksInv, Sales, [Next]_vars
    PROVE  Sales'
<1> SUFFICES ASSUME ~Retried', NEW i \in DOMAIN exchange' PROVE Covered(exchange[i])'
  BY DEF Sales
<1>1. RowsOK /\ LocalsOK /\ Following /\ Claims /\ RowsOK'
  BY NextFollows DEF Followed, Linked, Claiming
<1>2. ~Retried
  BY <1>1, ActionsStay DEF Retried
<1>3. ASSUME NEW j \in DOMAIN exchange PROVE Covered(exchange[j]) /\ exchange[j].qty \in Nat
  <2>1. exchange[j] \in ExchangeOrder
    BY <1>1 DEF RowsOK
  <2>2. QED
    BY <1>2, <2>1 DEF Sales, ExchangeOrder
<1>4. PICK y : y = exchange'[i]
  OBVIOUS
<1>5. ASSUME UNCHANGED orders \/ \E o : \E d \in Nat : Gains(o, d),
             i \in DOMAIN exchange, y.key = exchange[i].key, y.side = exchange[i].side,
             y.qty = exchange[i].qty
      PROVE  Covered(y)'
  <2>1. PICK x : x = exchange[i]
    OBVIOUS
  <2>2. QED
    BY <1>1, <1>3, <1>5, <2>1, CoveredOn
<1>6. ASSUME UNCHANGED orders \/ \E o : \E d \in Nat : Gains(o, d), UNCHANGED exchange
      PROVE  Covered(y)'
  BY <1>4, <1>5, <1>6
<1>7. ASSUME NEW p \in Proc, Accept(p) PROVE Covered(y)'
  <2>1. UNCHANGED orders
    BY <1>7 DEF Accept, rows
  <2>2. PICK n, x : /\ n = Len(exchange') /\ x = exchange'[n]
                    /\ DOMAIN exchange' = DOMAIN exchange \union {n}
                    /\ \A j \in DOMAIN exchange : exchange'[j] = exchange[j]
    <3>1. PICK x : exchange' = Append(exchange, x)
      BY <1>7 DEF Accept
    <3>2. exchange \in Seq(ExchangeOrder)
      BY <1>1 DEF RowsOK
    <3>3. QED
      BY <3>1, <3>2
  <2>3. CASE i \in DOMAIN exchange
    BY <1>4, <1>5, <2>1, <2>2, <2>3
  <2>4. CASE i = n
    <3>1. Covered(x) /\ x = y
      BY <1>1, <1>2, <1>4, <1>7, <2>2, <2>4, AcceptSales
    <3>2. y.qty \in Nat
      <4>1. y \in ExchangeOrder
        BY <1>1, <1>4 DEF RowsOK
      <4>2. QED
        BY <4>1 DEF ExchangeOrder
    <3>3. QED
      BY <1>1, <2>1, <3>1, <3>2, CoveredOn
  <2>5. QED
    BY <2>2, <2>3, <2>4
<1>8. ASSUME NEW p \in Proc, Commit(p) \/ SyncApply(p) PROVE Covered(y)'
  <2>1. UNCHANGED exchange
    BY <1>8 DEF Commit, SyncApply
  <2>2. QED
    BY <1>1, <1>2, <1>6, <1>8, <2>1, BookingGains
<1>9. ASSUME NEW o \in DOMAIN exchange, ExchangeFills(o) \/ ExchangeEnds(o) PROVE Covered(y)'
  <2>1. UNCHANGED orders /\ exchange \in Seq(ExchangeOrder)
    BY <1>1, <1>9 DEF ExchangeFills, ExchangeEnds, rows, RowsOK
  <2>2. PICK e, s : \/ exchange' = [exchange EXCEPT ![o].executed = e, ![o].status = s]
                    \/ exchange' = [exchange EXCEPT ![o].status = s]
    BY <1>9 DEF ExchangeFills, ExchangeEnds
  <2>3. i \in DOMAIN exchange /\ y.key = exchange[i].key /\ y.side = exchange[i].side
        /\ y.qty = exchange[i].qty
    <3>1. exchange[o] \in ExchangeOrder
      BY <1>9, <2>1
    <3>2. CASE exchange' = [exchange EXCEPT ![o].status = s]
      BY <1>4, <2>1, <3>1, <3>2 DEF ExchangeOrder
    <3>3. CASE exchange' = [exchange EXCEPT ![o].executed = e, ![o].status = s]
      BY <1>4, <2>1, <3>1, <3>3 DEF ExchangeOrder
    <3>4. QED
      BY <2>2, <3>2, <3>3
  <2>4. QED
    BY <1>5, <2>1, <2>3
<1>10. ASSUME NEW p \in Proc,
              \/ \E o \in DOMAIN orders : SyncRead(p, o)
              \/ SyncFetch(p)
       PROVE  Covered(y)'
  <2>1. UNCHANGED <<orders, exchange>>
    BY <1>10 DEF SyncRead, SyncFetch, rows
  <2>2. QED
    BY <1>6, <2>1
<1>11. ASSUME NEW p \in Proc, StopRows(p) \/ StopList(p) \/ StopCancel(p) \/ StopWrite(p) PROVE FALSE
  BY <1>1, <1>11, StopBooks DEF StopStep
<1>12. Covered(y)'
  <2>1. ASSUME NEW p \in Proc, Aside(p), UNCHANGED exchange \/ PlaceLost(p) PROVE Covered(y)'
    BY <1>6, <1>7, <2>1 DEF Aside, PlaceLost
  <2>2. ASSUME NEW p \in Proc, Place(p) PROVE Covered(y)'
    BY <1>7, <2>2 DEF Place
  <2>3. CASE UNCHANGED <<orders, pc, mem, exchange>>
    BY <1>6, <2>3
  <2>4. QED
    BY <1>1, <1>8, <1>9, <1>10, <1>11, <2>1, <2>2, <2>3, Steps
<1>13. QED
  BY <1>4, <1>12

\* Numbers of lots taken out of lots of their own are no more than there are.
LEMMA LotsCover ==
    ASSUME NEW S, NEW f \in [S -> Nat], NEW T, IsFiniteSet(T), NEW lots,
           \A x \in S : lots[x] \subseteq T /\ f[x] <= Cardinality(lots[x]),
           \A x, y \in S : x # y => lots[x] \cap lots[y] = {}
    PROVE  Total(f) <= Cardinality(T)
<1> DEFINE n(x) == Cardinality(lots[x])
           Nth(x) == Bijection(1..n(x), lots[x])
           nth == [x \in S |-> CHOOSE b : b \in Nth(x)]
           h == [z \in LotsIn(f) |-> nth[z[1]][z[2]]]
<1>1. ASSUME NEW x \in S PROVE n(x) \in Nat /\ nth[x] \in Nth(x)
  <2>1. lots[x] \in SUBSET T
    OBVIOUS
  <2>2. IsFiniteSet(lots[x])
    BY <2>1, FS_Subset
  <2>3. n(x) \in Nat /\ \E b : b \in Nth(x)
    BY <2>2, FS_CardinalityType, Zenon DEF ExistsBijection
  <2>4. QED
    BY <2>3
<1>2. ASSUME NEW z \in LotsIn(f)
      PROVE  z[1] \in S /\ z[2] \in 1..n(z[1]) /\ z = <<z[1], z[2]>>
  <2>1. PICK x \in S : z \in {x} \X (1..f[x])
    BY DEF LotsIn
  <2>2. n(x) \in Nat /\ f[x] <= n(x) /\ f[x] \in Nat
    BY <1>1
  <2>3. z[1] = x /\ z[2] \in 1..f[x] /\ z = <<z[1], z[2]>>
    BY <2>1
  <2>4. QED
    BY <2>2, <2>3
<1> HIDE DEF n, Nth, nth
<1>3. ASSUME NEW x \in S
      PROVE  /\ \A i \in 1..n(x) : nth[x][i] \in lots[x]
             /\ \A i, j \in 1..n(x) : nth[x][i] = nth[x][j] => i = j
  <2>1. PICK b, N : b = nth[x] /\ N = 1..n(x)
    OBVIOUS
  <2>2. b \in Injection(N, lots[x])
    BY <1>1, <2>1 DEF Nth, Bijection
  <2>3. b \in [N -> lots[x]] /\ \A i, j \in N : b[i] = b[j] => i = j
    BY <2>2 DEF Injection, IsInjective
  <2>4. QED
    BY <2>1, <2>3
<1>4. h \in Injection(LotsIn(f), T)
  <2>1. ASSUME NEW z \in LotsIn(f) PROVE h[z] \in lots[z[1]] /\ h[z] \in T
    BY <1>2, <1>3
  <2>2. ASSUME NEW z \in LotsIn(f), NEW w \in LotsIn(f), h[z] = h[w] PROVE z = w
    <3>1. z[1] = w[1]
      BY <1>2, <2>1, <2>2
    <3>2. z[2] = w[2]
      BY <1>2, <1>3, <2>2, <3>1
    <3>3. QED
      BY <1>2, <3>1, <3>2
  <2>3. h \in [LotsIn(f) -> T]
    BY <2>1
  <2> HIDE DEF h
  <2>4. QED
    BY <2>2, <2>3 DEF Injection, IsInjective
<1> HIDE DEF h
<1>5. Cardinality(LotsIn(f)) <= Cardinality(T)
  BY <1>4, FS_Injection
<1>6. QED
  BY <1>5 DEF Total

\* Different exits sell what different orders bought.
LEMMA BooksApart ==
    ASSUME NEW j \in Key, NEW k \in Key, j.by = k.by, j.tries = k.tries,
           j.type \in Exits, j.type = "PARENT_EXIT" => j.tag = 0,
           k.type \in Exits, k.type = "PARENT_EXIT" => k.tag = 0,
           NEW o, o \in BooksOf(j), o \in BooksOf(k)
    PROVE  j = k
<1>1. j.type = k.type /\ j.pos = k.pos /\ j.tag = k.tag
  BY DEF BooksOf, OrdersOf, OrdersOfSub, Exits
<1>2. QED
  BY <1>1 DEF Key

LEMMA CoveredSales ==
    ASSUME RowsOK, Following, Sent, BooksInv, Sales, ~Retried
    PROVE  NeverOversold
<1> DEFINE S == {i \in DOMAIN exchange : exchange[i].side = "SELL"}
           f == [i \in S |-> exchange[i].executed]
           B == {i \in DOMAIN exchange : exchange[i].side = "BUY"}
           g == [i \in B |-> exchange[i].executed]
           buyers(x) == {o \in BooksOf(exchange[x].key) : orders[o].side = "BUY"}
           lots == [x \in S |-> LotsIn([o \in buyers(x) |-> orders[o].accounted])]
<1>1. ASSUME NEW i \in DOMAIN exchange
      PROVE  /\ exchange[i].executed \in Nat /\ exchange[i].qty \in Nat
             /\ exchange[i].executed <= exchange[i].qty
             /\ exchange[i].key \in Key \union {NoKey}
  <2>1. exchange[i] \in ExchangeOrder
    BY DEF RowsOK
  <2>2. QED
    BY <2>1 DEF ExchangeOrder, BooksInv, Limits
<1>2. f \in [S -> Nat] /\ g \in [B -> Nat]
  BY <1>1
<1>3. IsFiniteSet(LotsIn(g))
  <2>1. PICK n \in Nat : DOMAIN exchange = 1..n
    BY DEF RowsOK
  <2>2. 1 \in Int /\ n \in Int
    OBVIOUS
  <2>3. IsFiniteSet(1..n)
    BY <2>2, FS_Interval
  <2>4. B \in SUBSET (1..n)
    BY <2>1
  <2>5. IsFiniteSet(B)
    BY <2>3, <2>4, FS_Subset
  <2> HIDE DEF B, g
  <2>6. QED
    BY <1>2, <2>5, LotsFinite
<1>4. ASSUME NEW x \in S
      PROVE  /\ exchange[x].key \in Key /\ exchange[x].key.by = "auto" /\ exchange[x].key.tries = <<>>
             /\ exchange[x].key.type \in Exits
             /\ exchange[x].key.type = "PARENT_EXIT" => exchange[x].key.tag = 0
             /\ exchange[x].qty <= Bought(BooksOf(exchange[x].key))
  <2>1. Covered(exchange[x])
    BY DEF Sales
  <2>2. exchange[x].key # NoKey
    BY <2>1 DEF Covered
  <2>3. exchange[x].key \in DOMAIN actions
    BY <2>2 DEF Sent
  <2>4. QED
    BY <1>1, <2>1, <2>2, <2>3 DEF Covered, Retried
<1>5. ASSUME NEW x \in S
      PROVE  lots[x] \subseteq LotsIn(g) /\ f[x] <= Cardinality(lots[x])
  <2>1. PICK os : os = BooksOf(exchange[x].key)
    OBVIOUS
  <2>2. os \subseteq DOMAIN orders
    BY <2>1 DEF BooksOf, OrdersOf, OrdersOfSub
  <2>3. ASSUME NEW o \in buyers(x)
        PROVE  o \in B /\ 1..orders[o].accounted \subseteq 1..g[o]
    <3>1. o \in DOMAIN orders /\ o \in DOMAIN exchange /\ orders[o] \in Order
      BY <2>1, <2>2 DEF RowsOK
    <3>2. orders[o].accounted <= exchange[o].executed
      BY <3>1 DEF Following, Booked
    <3>3. orders[o].side = exchange[o].side
      BY <3>1 DEF BooksInv, Kept, Sound, SoundOrder
    <3>4. o \in B /\ orders[o].accounted \in Nat /\ exchange[o].executed \in Nat
      BY <1>1, <3>1, <3>3 DEF Order
    <3>5. g[o] = exchange[o].executed
      BY <3>4
    <3>6. QED
      BY <3>2, <3>4, <3>5
  <2>4. lots[x] \subseteq LotsIn(g)
    <3>1. ASSUME NEW z \in lots[x] PROVE z \in LotsIn(g)
      <4>1. PICK o \in buyers(x) : z \in {o} \X (1..orders[o].accounted)
        BY <3>1 DEF LotsIn
      <4>2. o \in B /\ z \in {o} \X (1..g[o])
        BY <2>3, <4>1
      <4>3. QED
        BY <4>2 DEF LotsIn
    <3>2. QED
      BY <3>1
  <2>5. Cardinality(lots[x]) = Bought(os)
    BY <2>1 DEF Bought, Accounted, Total
  <2>6. exchange[x].qty <= Bought(os) /\ Bought(os) \in Nat
    <3>1. Bought(os) \in Nat
      BY <2>2, AccountOK DEF Bought
    <3>2. QED
      BY <1>4, <2>1, <3>1
  <2>7. f[x] <= Bought(os)
    BY <1>1, <2>6
  <2>8. QED
    BY <2>4, <2>5, <2>7
<1>6. ASSUME NEW x \in S, NEW y \in S, x # y PROVE lots[x] \cap lots[y] = {}
  <2>1. ASSUME NEW z \in lots[x], z \in lots[y] PROVE FALSE
    <3>1. z[1] \in buyers(x) /\ z[1] \in buyers(y)
      <4>1. PICK i \in buyers(x) : z \in {i} \X (1..orders[i].accounted)
        BY <2>1 DEF LotsIn
      <4>2. PICK o \in buyers(y) : z \in {o} \X (1..orders[o].accounted)
        BY <2>1 DEF LotsIn
      <4>3. z[1] = i
        BY <4>1
      <4>4. z[1] = o
        BY <4>2
      <4>5. QED
        BY <4>1, <4>2, <4>3, <4>4
    <3>2. exchange[x].key # exchange[y].key
      BY <1>4, <1>6, NoKeyAssumption DEF Sent, OneOrderPerKey
    <3>3. PICK j, k, o : j = exchange[x].key /\ k = exchange[y].key /\ o = z[1]
      OBVIOUS
    <3>4. j = k
      BY <1>4, <3>1, <3>3, BooksApart
    <3>5. QED
      BY <3>2, <3>3, <3>4
  <2>2. QED
    BY <2>1
<1>7. Executed("SELL") = Total(f) /\ Executed("BUY") = Cardinality(LotsIn(g))
  BY DEF Executed, Total
<1> HIDE DEF S, f, B, g, lots
<1>8. Total(f) <= Cardinality(LotsIn(g))
  BY <1>2, <1>3, <1>5, <1>6, LotsCover
<1>9. QED
  BY <1>7, <1>8 DEF NeverOversold

\* As long as the locks keep the schedulers alone and no retry has got through, the
\* exchange never executes more sales than purchases, whatever is lost or crashes.
THEOREM SalesCovered ==
    ASSUME SchedulersAlone
    PROVE  Spec => [](~Retried => NeverOversold)
<1>1. Init => Sales
  BY DEF Init, Sales
<1>2. Followed /\ Claiming /\ Alone /\ BooksInv /\ Sales /\ [Next]_vars => Sales'
  BY NextSales
<1>3. Followed /\ Claiming /\ BooksInv /\ Sales => (~Retried => NeverOversold)
  BY CoveredSales DEF Followed, Linked, Claiming
<1>4. QED
  BY <1>1, <1>2, <1>3, BooksHold, PTL DEF Spec

-----------------------------------------------------------------------------
(* The ladder *)

\* The key of the DCA order for a level of position id.
DcaKey(id, level) == [by |-> "auto", type |-> "DCA_ENTRY", pos |-> id, tag |-> level, tries |-> <<>>]

\* A purchase of position id of which nothing has been accounted: its first fill
\* will count as a DCA order.
Waits(o, id) ==
    /\ o \in UnresolvedOrders /\ orders[o].pos = id
    /\ orders[o].side = "BUY" /\ ~orders[o].independent /\ orders[o].accounted = 0

\* The position has room for the one that waits, whose key is taken.  (With
\* MaxDca = 0 the initial entry itself may be counted.)
Rungs ==
    /\ \A id \in DOMAIN positions : positions[id].dca <= MaxDca \/ positions[id].dca <= 1
    /\ \A id \in DOMAIN positions : \A o : Waits(o, id) =>
          /\ positions[id].dca < MaxDca \/ positions[id].dca = 0
          /\ \/ positions[id].qty = 0
             \/ DcaKey(id, positions[id].dca + 2) \in DOMAIN actions

\* The runner at l is about to buy the next level of its position, or a level
\* whose key was taken when it decided, or since.
Aiming(l, v) ==
    l \in {"tick"} \union Busy /\ Original(v.job) /\ v.job.type = "DCA_ENTRY" =>
        /\ v.job.key = DcaKey(v.job.key.pos, v.job.level)
        /\ v.job.key.pos \in DOMAIN positions
        /\ \/ v.job.key \in DOMAIN actions /\ l \notin {"place", "commit"}
           \/ /\ positions[v.job.key.pos].dca + 2 = v.job.level
              /\ \A o : ~Waits(o, v.job.key.pos)

Ladder == ~Retried => Rungs /\ \A p \in Proc : Aiming(pc[p], mem[p])

\* What a tick decides.
LEMMA DecisionAims ==
    ASSUME RowsOK, Rungs, NEW id \in DOMAIN positions \union {NoId}, NEW v, v.job \in Decisions(id)
    PROVE  Aiming("tick", v)
<1> SUFFICES ASSUME v.job.type = "DCA_ENTRY" PROVE Aiming("tick", v)
  BY DEF Aiming
<1>1. id \in DOMAIN positions /\ id # NoId
  <2>1. id # NoId
    BY DEF Decisions, InitialEntry, AutoJob
  <2>2. QED
    BY <2>1
<1>2. PICK level : level = positions[id].dca + 2
  OBVIOUS
<1>3. /\ v.job = AutoJob("DCA_ENTRY", "BUY", id, level, Lots, level)
      /\ positions[id].qty > 0
  <2>1. v.job # ParentExit(id) /\ v.job \notin IndependentExits(id)
    BY DEF ParentExit, IndependentExits, AutoJob
  <2>2. v.job = NextEntry(id) /\ positions[id].qty > 0
    BY <1>1, <2>1 DEF Decisions
  <2>3. PICK type : type = IF level >= IndependentFrom THEN "INDEPENDENT_ENTRY" ELSE "DCA_ENTRY"
    OBVIOUS
  <2>4. v.job = AutoJob(type, "BUY", id, level, Lots, level)
    BY <1>2, <2>2, <2>3 DEF NextEntry
  <2>5. type = "DCA_ENTRY"
    BY <2>4 DEF AutoJob
  <2>6. QED
    BY <2>2, <2>4, <2>5
<1>4. v.job.key = DcaKey(id, level) /\ v.job.key.pos = id /\ v.job.level = level
  BY <1>3 DEF AutoJob, DcaKey
<1>5. positions[id].qty # 0
  <2>1. positions[id] \in Position
    BY <1>1 DEF RowsOK
  <2>2. positions[id].qty \in Nat
    BY <2>1 DEF Position
  <2>3. QED
    BY <1>3, <2>2
<1>6. DcaKey(id, level) \in DOMAIN actions \/ \A o : ~Waits(o, id)
  BY <1>1, <1>2, <1>5 DEF Rungs
<1>7. QED
  BY <1>1, <1>2, <1>4, <1>6 DEF Aiming

\* A step of p that leaves positions and order rows alone: p decides, moves on
\* with its job, or goes where it is about to buy no level.
Onward(p) ==
    /\ UNCHANGED <<positions, orders>>
    /\ \E l, v : /\ Goes(p, l, v)
                 /\ \/ l \notin {"tick"} \union Busy
                    \/ ~Original(v.job) \/ v.job.type # "DCA_ENTRY"
                    \/ l = "tick" /\ \E id \in DOMAIN positions \union {NoId} : v.job \in Decisions(id)
                    \/ /\ v.job = mem[p].job /\ pc[p] \in {"tick"} \union Busy
                       /\ l \in {"place", "commit"} =>
                             pc[p] = "place" \/ v.job.key \notin DOMAIN actions

LEMMA ReturnOnward ==
    ASSUME NEW p, Return(p) \/ (\E retry : Throw(p, retry)), UNCHANGED <<positions, orders>>
    PROVE  Onward(p)
<1>1. CASE Return(p)
  <2>1. Goes(p, "idle", Blank)
    BY <1>1 DEF Return, Goto, Goes
  <2>2. QED
    BY <2>1 DEF Onward, Busy
<1>2. ASSUME NEW retry, Throw(p, retry), p \in Retriers PROVE Onward(p)
  <2>1. Goes(p, "giveUp", [Blank EXCEPT !.orig = mem[p].orig, !.retry = retry])
    BY <1>2 DEF Throw, Goto, Goes
  <2>2. QED
    BY <2>1 DEF Onward, Busy
<1>3. QED
  BY <1>1, <1>2 DEF Throw

LEMMA VerdictOnward ==
    ASSUME NEW p \in Proc,
           GiveUpRead(p) \/ RecoverEnded(p) \/ (FailRead(p) /\ mem[p].job.type # "NONE")
    PROVE  Onward(p)
BY VerdictGoes DEF Onward, Verdicts, Busy

LEMMA TickOnward ==
    ASSUME LocalsOK, NEW p \in Proc, TickStep(p)
    PROVE  Onward(p)
<1>1. CASE TickDecide(p)
  <2>1. PICK id \in DOMAIN positions \union {NoId} : \E job \in Decisions(id) : mem' = [mem EXCEPT ![p].job = job]
    BY <1>1 DEF TickDecide
  <2>2. PICK job \in Decisions(id) : mem' = [mem EXCEPT ![p].job = job]
    BY <2>1
  <2>3. PICK v : v = [mem[p] EXCEPT !.job = job]
    OBVIOUS
  <2>4. Goes(p, "tick", v) /\ v.job = job
    BY <1>1, <2>2, <2>3 DEF TickDecide, Goto, Goes, LocalsOK, Memory
  <2>5. UNCHANGED <<positions, orders>>
    BY <1>1 DEF TickDecide, rows
  <2>6. QED
    BY <2>4, <2>5 DEF Onward
<1>2. CASE TickSkip(p)
  BY <1>2, ReturnOnward DEF TickSkip, rows
<1>3. CASE TickExecute(p)
  <2>1. Goes(p, "start", mem[p]) /\ pc[p] = "tick"
    BY <1>3 DEF TickExecute, Goto, Goes, LocalsOK
  <2>2. UNCHANGED <<positions, orders>>
    BY <1>3 DEF TickExecute, rows
  <2>3. QED
    BY <2>1, <2>2 DEF Onward
<1>4. QED
  BY <1>1, <1>2, <1>3 DEF TickStep

LEMMA ExecutionOnward ==
    ASSUME LocalsOK, NEW p \in Proc, ExecutionStep(p), ~Commit(p)
    PROVE  Onward(p)
<1>1. CASE Refuse(p) \/ RefuseClaim(p) \/ Duplicate(p) \/ FailClaim(p)
  BY <1>1, ReturnOnward DEF Refuse, RefuseClaim, Duplicate, FailClaim, rows
<1>2. CASE Admit(p)
  <2>1. PICK job : job = mem[p].job
    OBVIOUS
  <2>2. PICK id : mem' = [mem EXCEPT ![p].pos = id, ![p].row = RowOf(id), ![p].sub = SubOf(id, job.level)]
    BY <1>2, <2>1 DEF Admit
  <2>3. PICK v : v = [mem[p] EXCEPT !.pos = id, !.row = RowOf(id), !.sub = SubOf(id, job.level)]
    OBVIOUS
  <2>4. PICK l : l = IF job.type = "NONE" THEN "place" ELSE "claim"
    OBVIOUS
  <2>5. v.job = job
    BY <2>1, <2>3 DEF LocalsOK, Memory
  <2>6. Goes(p, l, v)
    BY <1>2, <2>1, <2>2, <2>3, <2>4 DEF Admit, Goto, Goes
  <2>7. UNCHANGED <<positions, orders>> /\ pc[p] = "start"
    BY <1>2 DEF Admit, rows
  <2>8. QED
    BY <2>1, <2>4, <2>5, <2>6, <2>7 DEF Onward, Original, Busy
<1>3. CASE PassClaim(p)
  <2>1. Goes(p, "create", mem[p]) /\ pc[p] = "claim"
    BY <1>3 DEF PassClaim, Goto, Goes, LocalsOK
  <2>2. UNCHANGED <<positions, orders>>
    BY <1>3 DEF PassClaim, rows
  <2>3. QED
    BY <2>1, <2>2 DEF Onward, Busy
<1>4. CASE CreateAction(p)
  <2>1. Goes(p, "place", mem[p]) /\ pc[p] = "create"
    BY <1>4 DEF CreateAction, Goto, Goes, LocalsOK
  <2>2. UNCHANGED <<positions, orders>> /\ mem[p].job.key \notin DOMAIN actions
    BY <1>4 DEF CreateAction, Exists
  <2>3. QED
    BY <2>1, <2>2 DEF Onward, Busy
<1>5. CASE Place(p)
  <2>1. PICK v : v = [mem[p] EXCEPT !.oid = Len(exchange'), !.ack = exchange'[Len(exchange')]]
    OBVIOUS
  <2>2. Goes(p, "commit", v) /\ v.job = mem[p].job
    BY <1>5, <2>1 DEF Place, Goto, Goes, LocalsOK, Memory
  <2>3. UNCHANGED <<positions, orders>> /\ pc[p] = "place"
    BY <1>5 DEF Place, Accept, rows
  <2>4. QED
    BY <2>2, <2>3 DEF Onward, Busy
<1>6. CASE PlaceLost(p) \/ PlaceRefused(p) \/ CommitFails(p)
  <2>1. PICK retry : mem' = [mem EXCEPT ![p].retry = retry] /\ Goto(p, "fail")
    BY <1>6 DEF PlaceLost, PlaceRefused, CommitFails
  <2>2. Goes(p, "fail", [mem[p] EXCEPT !.retry = retry])
    BY <2>1 DEF Goto, Goes, LocalsOK
  <2>3. UNCHANGED <<positions, orders>>
    BY <1>6 DEF PlaceLost, Accept, PlaceRefused, CommitFails, rows
  <2>4. QED
    BY <2>2, <2>3 DEF Onward, Busy
<1>7. CASE FailRead(p)
  <2>1. CASE mem[p].job.type # "NONE"
    BY <1>7, <2>1, VerdictOnward
  <2>2. CASE mem[p].job.type = "NONE"
    BY <1>7, <2>2, ReturnOnward DEF FailRead, rows
  <2>3. QED
    BY <2>1, <2>2
<1>8. QED
  BY <1>1, <1>2, <1>3, <1>4, <1>5, <1>6, <1>7 DEF ExecutionStep

LEMMA RetryOnward ==
    ASSUME LocalsOK, Acting, NEW p \in Proc, RetryStep(p)
    PROVE  Onward(p)
<1>1. CASE RetryPick(p)
  <2>1. PICK v : Goes(p, "claimRetry", v)
    <3>1. PICK k \in DOMAIN actions :
             mem' = [mem EXCEPT
                  ![p].orig = k,
                  ![p].order = OrderOf(k),
                  ![p].job = [type |-> actions[k].type, qty |-> actions[k].qty, level |-> actions[k].level,
                              side |-> IF actions[k].type \in Entries THEN "BUY" ELSE "SELL",
                              auto |-> TRUE, key |-> RetryKey(k, actions[k].attempts + 1)]]
      BY <1>1, Zenon DEF RetryPick
    <3>2. PICK job : mem' = [mem EXCEPT ![p].orig = k, ![p].order = OrderOf(k), ![p].job = job]
      BY <3>1
    <3>3. Goes(p, "claimRetry", [mem[p] EXCEPT !.orig = k, !.order = OrderOf(k), !.job = job])
      BY <1>1, <3>2 DEF RetryPick, Goto, Goes
    <3>4. QED
      BY <3>3
  <2>2. UNCHANGED <<positions, orders>>
    BY <1>1 DEF RetryPick, rows
  <2>3. QED
    BY <2>1, <2>2 DEF Onward, Busy
<1>2. CASE RetryClaim(p)
  <2>1. PICK l : Goes(p, l, mem[p]) /\ l \in {"giveUp", "start"}
    BY <1>2 DEF RetryClaim, Goto, Goes, LocalsOK
  <2>2. ~Original(mem[p].job)
    BY <1>2 DEF RetryClaim, Acting, Acts, Original
  <2>3. UNCHANGED <<positions, orders>>
    BY <1>2 DEF RetryClaim
  <2>4. QED
    BY <2>1, <2>2, <2>3 DEF Onward
<1>3. CASE RetryGone(p) \/ GiveUp(p)
  BY <1>3, ReturnOnward DEF RetryGone, GiveUp, rows
<1>4. CASE GiveUpRead(p)
  BY <1>4, VerdictOnward
<1>5. QED
  BY <1>1, <1>2, <1>3, <1>4 DEF RetryStep

LEMMA OthersOnward ==
    ASSUME SchedulersAlone, LocalsOK, NEW p \in Proc,
           RequestStep(p) \/ Crash(p) \/ (SyncStep(p) /\ ~SyncApply(p))
    PROVE  Onward(p)
<1>1. CASE RequestOrder(p) \/ RequestClose(p)
  BY <1>1 DEF RequestOrder, RequestClose, Asks, SchedulersAlone
<1>2. CASE RequestRetry(p) \/ RequestCancel(p)
  <2>1. PICK k, l : /\ l \in {"retryWrite", "cancelWrite"} /\ Goto(p, l)
                    /\ mem' = [mem EXCEPT ![p].orig = k]
    BY <1>2 DEF RequestRetry, RequestCancel
  <2>2. Goes(p, l, [mem[p] EXCEPT !.orig = k]) /\ l \notin {"tick"} \union Busy
    BY <2>1 DEF Goto, Goes, Busy
  <2>3. UNCHANGED <<positions, orders>>
    BY <1>2 DEF RequestRetry, RequestCancel, rows
  <2>4. QED
    BY <2>2, <2>3 DEF Onward
<1>3. CASE \/ ManualRetry(p) \/ ManualCancel(p) \/ Crash(p) \/ SyncFails(p)
           \/ RecoverFilled(p) \/ RecoverFail(p)
  BY <1>3, ReturnOnward
     DEF ManualRetry, ManualCancel, Crash, SyncFails, RecoverFilled, RecoverFail, rows
<1>4. ASSUME NEW l, NEW v, l \notin {"tick"} \union Busy, Goto(p, l), mem' = [mem EXCEPT ![p] = v],
             UNCHANGED <<positions, orders>>
      PROVE  Onward(p)
  BY <1>4 DEF Onward, Goto, Goes
<1>5. ASSUME NEW o \in DOMAIN orders, SyncRead(p, o) PROVE Onward(p)
  <2>1. PICK row, sub : mem' = [mem EXCEPT ![p].oid = o, ![p].order = orders[o], ![p].row = row,
                                           ![p].sub = sub]
    BY <1>5 DEF SyncRead
  <2>2. mem' = [mem EXCEPT ![p] = [mem[p] EXCEPT !.oid = o, !.order = orders[o], !.row = row, !.sub = sub]]
    BY <2>1
  <2>3. Goto(p, "fetch") /\ UNCHANGED <<positions, orders>>
    BY <1>5 DEF SyncRead, rows
  <2>4. QED
    BY <1>4, <2>2, <2>3 DEF Busy
<1>6. CASE SyncFetch(p)
  <2>1. mem' = [mem EXCEPT ![p] = [mem[p] EXCEPT !.ack = exchange[mem[p].oid]]]
    BY <1>6 DEF SyncFetch
  <2>2. Goto(p, "apply") /\ UNCHANGED <<positions, orders>>
    BY <1>6 DEF SyncFetch, rows
  <2>3. QED
    BY <1>4, <2>1, <2>2 DEF Busy
<1>7. ASSUME NEW k \in DOMAIN actions, RecoverRead(p, k) PROVE Onward(p)
  <2>1. mem' = [mem EXCEPT ![p] = [mem[p] EXCEPT !.orig = k, !.order = OrderOf(k)]]
    BY <1>7 DEF RecoverRead
  <2>2. Goto(p, "recover") /\ UNCHANGED <<positions, orders>>
    BY <1>7 DEF RecoverRead, rows
  <2>3. QED
    BY <1>4, <2>1, <2>2 DEF Busy
<1>8. CASE RecoverEnded(p)
  BY <1>8, VerdictOnward
<1>9. QED
  BY <1>1, <1>2, <1>3, <1>5, <1>6, <1>7, <1>8 DEF RequestStep, SyncStep, Recover

\* Such a step keeps everybody's aim.
LEMMA OnwardLadder ==
    ASSUME RowsOK, LocalsOK, Ladder, ~Retried, DOMAIN actions \subseteq DOMAIN actions',
           NEW p \in Proc, Onward(p) \/ UNCHANGED <<positions, orders, pc, mem>>
    PROVE  Ladder'
<1>1. UNCHANGED <<positions, orders>> /\ \A o, id : Waits(o, id)' <=> Waits(o, id)
  BY DEF Onward, Waits, UnresolvedOrders
<1>2. Rungs /\ \A q \in Proc : Aiming(pc[q], mem[q])
  BY DEF Ladder
<1>3. Rungs'
  BY <1>1, <1>2 DEF Rungs
<1>4. ASSUME NEW q \in Proc, pc'[q] = pc[q], mem'[q] = mem[q] PROVE Aiming(pc[q], mem[q])'
  BY <1>1, <1>2, <1>4 DEF Aiming
<1>5. ASSUME Onward(p) PROVE Aiming(pc[p], mem[p])' /\ \A q \in Proc \ {p} : pc'[q] = pc[q] /\ mem'[q] = mem[q]
  <2>1. PICK l, v :
           /\ Goes(p, l, v)
           /\ \/ l \notin {"tick"} \union Busy
              \/ ~Original(v.job) \/ v.job.type # "DCA_ENTRY"
              \/ l = "tick" /\ \E id \in DOMAIN positions \union {NoId} : v.job \in Decisions(id)
              \/ /\ v.job = mem[p].job /\ pc[p] \in {"tick"} \union Busy
                 /\ l \in {"place", "commit"} => pc[p] = "place" \/ v.job.key \notin DOMAIN actions
    BY <1>5 DEF Onward
  <2>2. pc'[p] = l /\ mem'[p] = v /\ \A q \in Proc \ {p} : pc'[q] = pc[q] /\ mem'[q] = mem[q]
    BY <2>1 DEF Goes, LocalsOK
  <2>3. Aiming(l, v)'
    <3>1. CASE l \notin {"tick"} \union Busy \/ ~Original(v.job) \/ v.job.type # "DCA_ENTRY"
      BY <3>1 DEF Aiming
    <3>2. ASSUME l = "tick", NEW id \in DOMAIN positions \union {NoId}, v.job \in Decisions(id)
          PROVE  Aiming(l, v)'
      <4>1. Aiming("tick", v)
        BY <1>2, <3>2, DecisionAims
      <4>2. QED
        BY <1>1, <3>2, <4>1 DEF Aiming
    <3>3. CASE /\ v.job = mem[p].job /\ pc[p] \in {"tick"} \union Busy
               /\ l \in {"place", "commit"} => pc[p] = "place" \/ v.job.key \notin DOMAIN actions
      <4>1. Aiming(pc[p], mem[p])
        BY <1>2
      <4>2. QED
        BY <1>1, <3>3, <4>1 DEF Aiming
    <3>4. QED
      BY <2>1, <3>1, <3>2, <3>3
  <2>4. QED
    BY <2>2, <2>3
<1>6. QED
  BY <1>3, <1>4, <1>5 DEF Ladder

\* The runner's purchase takes the rung it aimed at.
LEMMA CommitLadder ==
    ASSUME RowsOK, LocalsOK, Following, Claims, Alone, BooksInv, Ladder, ~Retried,
           SchedulersAlone, NEW p \in Proc, Commit(p)
    PROVE  Ladder'
<1>1. PICK m : m = mem[p]
  OBVIOUS
<1>2. pc'[p] = "idle" /\ mem'[p] = Blank /\ pc[p] = "commit"
      /\ \A q \in Proc \ {p} : pc'[q] = pc[q] /\ mem'[q] = mem[q]
  BY DEF Commit, Return, Goto, LocalsOK
<1>3. /\ Kept /\ Original(m.job) /\ OriginalJob(m.job) /\ p \in Runners
      /\ Fresh("commit", m)
      /\ m.job.key \in DOMAIN actions /\ m.oid \notin DOMAIN orders
      /\ m.job \in Job /\ m.pos \in DOMAIN positions \union {NoId}
      /\ m.ack.executed \in Nat /\ m.ack.executed <= m.job.qty
  BY <1>1, <1>2, CommitKnows
<1>4. PICK id, d, o : id = Target(m) /\ d = m.ack.executed /\ o = m.oid
  OBVIOUS
<1>5. /\ m.job.side \in Side /\ m.job.qty \in Nat /\ m.job.level \in Nat
      /\ m.job.type \in Types
      /\ m.job.type \in Exits <=> m.job.side = "SELL"
      /\ d \in Nat /\ d <= m.job.qty
  BY <1>3, <1>4 DEF Job, OriginalJob, Original
<1>6. /\ m.job.level >= 1 /\ UnresolvedOrders = {} /\ NewestOpen(m.pos)
      /\ m.row = RowOf(m.pos) /\ Stocked(m.job, m.row, m.sub, m.pos)
      /\ \A i \in DOMAIN positions : positions[i].status = "OPEN" => i = m.job.key.pos
      /\ Sound
  BY <1>3 DEF Fresh, Busy, Admitted, Kept
<1>7. /\ DOMAIN positions' = DOMAIN positions \union {id}
      /\ \A i \in DOMAIN positions \ {id} : positions'[i] = positions[i]
      /\ IF Independent(m.job) THEN positions'[id].qty = QtyOf(id)
         ELSE Changes(QtyOf(id), positions'[id].qty, m.job.side, d)
      /\ id \notin DOMAIN positions => positions'[id].dca = 0
      /\ id \in DOMAIN positions => m.pos = id /\ positions[id].status = "OPEN" /\
            positions'[id].dca = IF ~Independent(m.job) /\ d > 0 /\ m.job.side = "BUY"
                                 THEN positions[id].dca + 1 ELSE positions[id].dca
  BY <1>1, <1>3, <1>4, <1>5, <1>6, CommitParent
<1>8. PICK r : /\ orders' = Put(orders, o, r)
               /\ r.pos = id /\ r.side = m.job.side /\ r.independent = Independent(m.job)
               /\ r.accounted = d
  BY <1>1, <1>4, <1>5, <1>6, CommitRow
<1>9. ASSUME NEW i, NEW j, Waits(i, j)'
      PROVE  j = id /\ d = 0 /\ m.job.side = "BUY" /\ ~Independent(m.job)
  <2>1. i = o
    BY <1>6, <1>8, <1>9 DEF Waits, UnresolvedOrders, Put
  <2>2. QED
    BY <1>8, <1>9, <2>1 DEF Waits, UnresolvedOrders, Put
<1>10. ASSUME id \in DOMAIN positions, m.job.side = "BUY", ~Independent(m.job)
       PROVE  /\ m.job.key = DcaKey(id, positions[id].dca + 2)
              /\ positions[id].dca < MaxDca
  <2>1. m.pos = id /\ id = m.job.key.pos /\ id # NoId
    BY <1>3, <1>6, <1>7, <1>10 DEF RowsOK, NoId
  <2>2. m.job.type = "DCA_ENTRY"
    BY <1>3, <1>5, <1>10, <2>1 DEF OriginalJob, Types, Entries, Exits, Independent
  <2>3. Aiming("commit", m)
    BY <1>1, <1>2 DEF Ladder
  <2>4. m.job.key = DcaKey(id, m.job.level) /\ positions[id].dca + 2 = m.job.level
    BY <1>3, <2>1, <2>2, <2>3 DEF Aiming, Busy
  <2>5. m.job.level < MaxDca + 2
    BY <1>3, <2>2 DEF OriginalJob
  <2>6. positions[id].dca \in Nat /\ MaxDca \in Nat
    <3>1. positions[id] \in Position
      BY <1>10 DEF RowsOK
    <3>2. QED
      BY <3>1, BoundsAssumption DEF Position
  <2>7. QED
    BY <2>4, <2>5, <2>6
<1>11. Rungs /\ MaxDca \in Nat
  BY BoundsAssumption DEF Ladder
<1>12. id \in DOMAIN positions => positions[id].dca \in Nat
  <2>1. id \in DOMAIN positions => positions[id] \in Position
    BY DEF RowsOK
  <2>2. QED
    BY <2>1 DEF Position
<1>13. Rungs'
  <2>1. ASSUME NEW i \in DOMAIN positions' PROVE positions'[i].dca <= MaxDca \/ positions'[i].dca <= 1
    <3>1. CASE i # id
      BY <1>7, <1>11, <3>1 DEF Rungs
    <3>2. CASE i = id /\ id \notin DOMAIN positions
      BY <1>7, <1>11, <3>2
    <3>3. CASE i = id /\ id \in DOMAIN positions
      BY <1>7, <1>10, <1>11, <1>12, <3>3 DEF Rungs
    <3>4. QED
      BY <3>1, <3>2, <3>3
  <2>2. ASSUME NEW i \in DOMAIN positions', NEW j, Waits(j, i)'
        PROVE  /\ positions'[i].dca < MaxDca \/ positions'[i].dca = 0
               /\ \/ positions'[i].qty = 0
                  \/ DcaKey(i, positions'[i].dca + 2) \in DOMAIN actions'
    <3>1. i = id /\ d = 0 /\ m.job.side = "BUY" /\ ~Independent(m.job)
      BY <1>9, <2>2
    <3>2. CASE id \notin DOMAIN positions
      BY <1>7, <3>1, <3>2 DEF QtyOf, Changes
    <3>3. CASE id \in DOMAIN positions
      <4>1. positions'[id].dca = positions[id].dca
        BY <1>7, <3>1, <3>3
      <4>2. DOMAIN actions' = DOMAIN actions
        BY DEF Commit, Bind
      <4>3. QED
        BY <1>3, <1>10, <3>1, <3>3, <4>1, <4>2
    <3>4. QED
      BY <3>2, <3>3
  <2>3. QED
    BY <2>1, <2>2 DEF Rungs
<1>14. ASSUME NEW q \in Proc PROVE Aiming(pc[q], mem[q])'
  <2>1. CASE q = p
    BY <1>2, <2>1 DEF Aiming, Busy
  <2>2. CASE q # p
    <3>1. pc[q] \in {"tick"} \union Busy /\ Original(mem[q].job) => q \in Runners
      BY DEF BooksInv, Acting, Acts
    <3>2. ~(pc[q] \in {"tick"} \union Busy /\ Original(mem[q].job))
      BY <1>3, <2>2, <3>1 DEF SchedulersAlone
    <3>3. QED
      BY <1>2, <2>2, <3>2 DEF Aiming
  <2>3. QED
    BY <2>1, <2>2
<1>15. QED
  BY <1>13, <1>14 DEF Ladder

\* A first fill counts for the order that waited, and nothing waits any more.
LEMMA ApplyLadder ==
    ASSUME RowsOK, LocalsOK, Following, BooksInv, Ladder, ~Retried, NEW p \in Proc, SyncApply(p)
    PROVE  Ladder'
<1>1. PICK m : m = mem[p]
  OBVIOUS
<1>2. pc'[p] = "idle" /\ mem'[p] = Blank /\ pc[p] = "apply"
      /\ \A q \in Proc \ {p} : pc'[q] = pc[q] /\ mem'[q] = mem[q]
  BY DEF SyncApply, Return, Goto, LocalsOK
<1>3. PICK order, o : order = m.order /\ o = m.oid
  OBVIOUS
<1>4. PICK id, d : id = order.pos /\ d = Delta(order, m.ack)
  OBVIOUS
<1>5. /\ Kept /\ o \in UnresolvedOrders /\ order = orders[o] /\ order \in Order
      /\ id \in DOMAIN positions /\ m.row = positions[id]
      /\ SoundOrder(order, exchange[o]) /\ d \in Nat
      /\ order.side = "SELL" => d <= Stock(order)
  BY <1>1, <1>2, <1>3, <1>4, ApplyKnows
<1>6. o \in DOMAIN orders /\ order.status \in LiveOrder /\ order.accounted \in Nat /\ Sound
  BY <1>5 DEF UnresolvedOrders, Order, Kept
<1>7. /\ DOMAIN positions' = DOMAIN positions
      /\ \A i \in DOMAIN positions \ {id} : positions'[i] = positions[i]
      /\ IF order.independent THEN positions'[id].qty = positions[id].qty
         ELSE Changes(positions[id].qty, positions'[id].qty, order.side, d)
      /\ positions'[id].dca =
            IF /\ ~order.independent /\ d > 0
               /\ order.side = "BUY" /\ order.accounted = 0
            THEN positions[id].dca + 1 ELSE positions[id].dca
  <2>1. order.side = "BUY" /\ ~order.independent => positions[id].status = "OPEN"
    BY <1>4, <1>5, <1>6 DEF SoundOrder
  <2>2. order.side = "SELL" /\ ~order.independent => d <= positions[id].qty
    BY <1>4, <1>5 DEF Stock
  <2>3. /\ m.order \in Order /\ d = Delta(m.order, m.ack) /\ id = m.order.pos
        /\ m.order.side = "BUY" /\ ~m.order.independent => positions[id].status = "OPEN"
        /\ m.order.side = "SELL" /\ ~m.order.independent => d <= positions[id].qty
    BY <1>3, <1>4, <1>5, <2>1, <2>2
  <2>4. /\ DOMAIN positions' = DOMAIN positions
        /\ \A i \in DOMAIN positions \ {id} : positions'[i] = positions[i]
        /\ IF m.order.independent THEN positions'[id].qty = positions[id].qty
           ELSE Changes(positions[id].qty, positions'[id].qty, m.order.side, d)
        /\ positions'[id].dca =
              IF /\ ~m.order.independent /\ d > 0
                 /\ m.order.side = "BUY" /\ m.order.accounted = 0
              THEN positions[id].dca + 1 ELSE positions[id].dca
    BY <1>1, <1>5, <1>6, <2>3, ApplyParent
  <2>5. QED
    BY <1>3, <2>4
<1>8. Gains(o, d)
  BY <1>1, <1>3, <1>4, <1>5, <1>6, ApplyRow
<1>9. ASSUME NEW i, NEW j, Waits(i, j)' PROVE Waits(i, j) /\ i = o /\ j = id /\ d = 0
  <2>1. i \in DOMAIN orders
    BY <1>6, <1>8, <1>9 DEF Gains, Waits, UnresolvedOrders
  <2>2. i = o
    BY <1>5, <1>6, <1>8, <1>9, <2>1 DEF Gains, Waits, UnresolvedOrders, Kept, Sound
  <2>3. /\ orders'[o].accounted = order.accounted + d /\ orders'[o].pos = order.pos
        /\ orders'[o].side = order.side /\ orders'[o].independent = order.independent
    BY <1>5, <1>6, <1>8 DEF Gains
  <2>4. d = 0 /\ order.accounted = 0
    BY <1>5, <1>6, <1>9, <2>2, <2>3 DEF Waits
  <2>5. QED
    BY <1>4, <1>5, <1>6, <1>9, <2>2, <2>3, <2>4 DEF Waits
<1>10. Rungs /\ MaxDca \in Nat
  BY BoundsAssumption DEF Ladder
<1>11. ASSUME NEW i \in DOMAIN positions PROVE positions[i].dca \in Nat /\ positions[i].qty \in Nat
  <2>1. positions[i] \in Position
    BY DEF RowsOK
  <2>2. QED
    BY <2>1 DEF Position
<1>12. ASSUME positions'[id].dca # positions[id].dca
       PROVE  Waits(o, id) /\ positions'[id].dca = positions[id].dca + 1
  BY <1>4, <1>5, <1>7, <1>12 DEF Waits
<1>13. DOMAIN actions' = DOMAIN actions
  BY DEF SyncApply
<1>14. Rungs'
  <2>1. ASSUME NEW i \in DOMAIN positions' PROVE positions'[i].dca <= MaxDca \/ positions'[i].dca <= 1
    <3>1. CASE positions'[i].dca = positions[i].dca
      BY <1>7, <1>10, <3>1 DEF Rungs
    <3>2. CASE positions'[i].dca # positions[i].dca
      <4>1. i = id
        BY <1>7, <3>2
      <4>2. positions[id].dca < MaxDca \/ positions[id].dca = 0
        BY <1>5, <1>10, <1>12, <3>2, <4>1 DEF Rungs
      <4>3. QED
        BY <1>5, <1>10, <1>11, <1>12, <3>2, <4>1, <4>2
    <3>3. QED
      BY <3>1, <3>2
  <2>2. ASSUME NEW i \in DOMAIN positions', NEW j, Waits(j, i)'
        PROVE  /\ positions'[i].dca < MaxDca \/ positions'[i].dca = 0
               /\ \/ positions'[i].qty = 0
                  \/ DcaKey(i, positions'[i].dca + 2) \in DOMAIN actions'
    <3>1. Waits(j, i) /\ i = id /\ d = 0 /\ i \in DOMAIN positions
      BY <1>7, <1>9, <2>2
    <3>2. order.side = "BUY" /\ ~order.independent
      BY <1>5, <1>9, <2>2 DEF Waits
    <3>3. positions'[id].dca = positions[id].dca /\ positions'[id].qty = positions[id].qty
      BY <1>5, <1>7, <1>11, <3>1, <3>2 DEF Changes
    <3>4. QED
      BY <1>10, <1>13, <3>1, <3>3 DEF Rungs
  <2>3. QED
    BY <2>1, <2>2 DEF Rungs
<1>15. ASSUME NEW q \in Proc PROVE Aiming(pc[q], mem[q])'
  <2>1. CASE q = p
    BY <1>2, <2>1 DEF Aiming, Busy
  <2>2. CASE q # p
    <3>1. Aiming(pc[q], mem[q])
      BY DEF Ladder
    <3>2. pc'[q] = pc[q] /\ mem'[q] = mem[q]
      BY <1>2, <2>2
    <3>3. PICK k, u, i : k = pc[q] /\ u = mem[q] /\ i = u.job.key.pos
      OBVIOUS
    <3>4. (\A j : ~Waits(j, i)) => positions'[i].dca = positions[i].dca \/ i \notin DOMAIN positions
      BY <1>7, <1>12
    <3>5. (\A j : ~Waits(j, i)) => \A j : ~Waits(j, i)'
      BY <1>9
    <3>6. Aiming(k, u)'
      BY <1>7, <1>13, <3>1, <3>3, <3>4, <3>5 DEF Aiming
    <3>7. QED
      BY <3>2, <3>3, <3>6
  <2>3. QED
    BY <2>1, <2>2
<1>16. QED
  BY <1>14, <1>15 DEF Ladder

LEMMA NextLadder ==
    ASSUME SchedulersAlone, Followed, Claiming, Alone, BooksInv, Ladder, [Next]_vars
    PROVE  Ladder'
<1> SUFFICES ASSUME ~Retried' PROVE Ladder'
  BY DEF Ladder
<1>1. RowsOK /\ LocalsOK /\ Following /\ Claims /\ Acting
  BY DEF Followed, Linked, Claiming, BooksInv
<1>2. DOMAIN actions \subseteq DOMAIN actions' /\ ~Retried
  BY <1>1, ActionsStay DEF Retried
<1>3. ASSUME NEW p \in Proc, TickStep(p) \/ RetryStep(p) \/ RequestStep(p) \/ Crash(p)
                             \/ (ExecutionStep(p) /\ ~Commit(p)) \/ (SyncStep(p) /\ ~SyncApply(p))
      PROVE  Ladder'
  <2>1. Onward(p)
    BY <1>1, <1>3, TickOnward, ExecutionOnward, RetryOnward, OthersOnward
  <2>2. QED
    BY <1>1, <1>2, <2>1, OnwardLadder
<1>4. ASSUME NEW p \in Proc, Commit(p) \/ SyncApply(p) \/ StopStep(p) PROVE Ladder'
  BY <1>1, <1>2, <1>4, CommitLadder, ApplyLadder, StopBooks
<1>5. CASE SetStatus \/ UNCHANGED vars \/ \E o \in DOMAIN exchange : ExchangeFills(o) \/ ExchangeEnds(o)
  <2>1. UNCHANGED <<positions, orders, pc, mem, actions>>
    BY <1>5 DEF SetStatus, vars, ExchangeFills, ExchangeEnds, rows
  <2>2. \A o, id : Waits(o, id)' <=> Waits(o, id)
    BY <2>1 DEF Waits, UnresolvedOrders
  <2>3. Rungs'
    BY <1>2, <2>1, <2>2 DEF Ladder, Rungs
  <2>4. ASSUME NEW q \in Proc PROVE Aiming(pc[q], mem[q])'
    BY <1>2, <2>1, <2>2 DEF Ladder, Aiming
  <2>5. QED
    BY <2>3, <2>4 DEF Ladder
<1>6. QED
  BY <1>3, <1>4, <1>5 DEF Next

LEMMA LadderHolds ==
    ASSUME SchedulersAlone
    PROVE  Spec => []Ladder
<1>1. Init => Ladder
  <2>1. Init => Rungs
    BY DEF Init, Rungs
  <2>2. Init => \A p \in Proc : Aiming(pc[p], mem[p])
    BY DEF Init, Aiming, Busy
  <2>3. QED
    BY <2>1, <2>2 DEF Ladder
<1>2. Followed /\ Claiming /\ Alone /\ BooksInv /\ Ladder /\ [Next]_vars => Ladder'
  BY NextLadder
<1>3. QED
  BY <1>1, <1>2, BooksHold, PTL DEF Spec

\* As long as the locks keep the schedulers alone and no retry has got through, the
\* automatic ladder stays within its limit, if that is not 0: every decision
\* is about a level whose key has not been used, or its order is never placed.
THEOREM LadderBounded ==
    ASSUME SchedulersAlone, MaxDca > 0
    PROVE  Spec => [](~Retried => DcaWithinLimit)
<1>1. MaxDca \in Nat
  BY BoundsAssumption
<1>2. Followed /\ Ladder => (~Retried => DcaWithinLimit)
  <2> SUFFICES ASSUME Followed, Ladder, ~Retried, NEW id \in DOMAIN positions
               PROVE  positions[id].dca <= MaxDca
    BY DEF DcaWithinLimit
  <2>1. positions[id] \in Position
    BY DEF Followed, Linked, RowsOK
  <2>2. positions[id].dca \in Nat
    BY <2>1 DEF Position
  <2>3. positions[id].dca <= MaxDca \/ positions[id].dca <= 1
    BY DEF Ladder, Rungs
  <2>4. QED
    BY <1>1, <2>2, <2>3
<1>3. QED
  BY <1>2, BooksFollow, LadderHolds, PTL
=============================================================================
