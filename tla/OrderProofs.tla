---------------------------- MODULE OrderProofs -----------------------------
(***************************************************************************)
(* An action key is claimed by one execution, and buys at most one order;  *)
(* the rows of the action table stay consistent whatever works on them.    *)
(* The order rows follow the exchange: whatever snapshots and answers they *)
(* are written from, by whom and in what order, they never say more than   *)
(* the exchange did, and are final only for orders that have ended.        *)
(***************************************************************************)
EXTENDS TestnetTypingProofs, FiniteSetTheorems

-----------------------------------------------------------------------------
(* The rows of the action table *)

\* Where an execution holds a claim, and where the row read is about to be written.
Flight == {"place", "commit", "fail", "failWrite"}
Recoveries == {"recover", "recoverWrite"}
Writes == {"retryWrite", "cancelWrite"} \union Recoveries

\* The key an execution has claimed, and the action an activity is about to
\* retry, or has reopened to retry it.
Held(p) == {k \in {mem[p].job.key} \ {NoKey} : pc[p] \in Flight}
Orig(p) == {k \in {mem[p].orig} \ {NoKey} : pc[p] \notin Writes}
Taken(p) == {k \in Orig(p) : pc[p] # "claimRetry"}

\* What a manual retry looks for.
Failures == {"FAILED", "PERMANENTLY_FAILED"}

\* The columns of a row that agree at all times.
GoodRow(row) ==
    /\ row.retryable <=> row.status = "FAILED"
    /\ row.nextRetryAt <=> row.status = "FAILED"
    /\ row.status \in {"SUBMITTED", "COMPLETED"} => row.order # NoId
    /\ row.status = "FAILED" => row.order = NoId

\* Who holds which action: the rows held or taken up have no order yet and have
\* not failed, they are nobody else's, and a recovery is about an action that has
\* an order, which it fails for good.
Claims ==
    /\ \A k \in DOMAIN actions : GoodRow(actions[k])
    /\ \A p \in Proc : \A k \in Held(p) :
          k \in DOMAIN actions /\ actions[k].status \notin Failures /\ actions[k].order = NoId
    /\ \A p \in Proc : \A k \in Orig(p) :
          k \in DOMAIN actions /\ actions[k].order = NoId
    /\ \A p \in Proc : \A k \in Taken(p) : actions[k].status \notin Failures
    /\ \A p, q \in Proc : p # q => Held(p) \cap Held(q) = {}
    /\ \A p, q \in Proc : Orig(p) \cap Held(q) = {}
    /\ \A p, q \in Proc : p # q => Taken(p) \cap Taken(q) = {}
    /\ \A p \in Proc : pc[p] \in Recoveries =>
          mem[p].orig \in DOMAIN actions /\ actions[mem[p].orig].order # NoId
    /\ \A p \in Proc : pc[p] = "recoverWrite" => mem[p].permanent = TRUE

\* Orders on the exchange: their keys are in the table, once each, and not yet
\* there while the order is about to be placed.
Sent ==
    /\ \A i \in DOMAIN exchange : exchange[i].key # NoKey => exchange[i].key \in DOMAIN actions
    /\ \A p \in Proc : pc[p] = "place" => \A i \in DOMAIN exchange : exchange[i].key \notin Held(p)
    /\ OneOrderPerKey

-----------------------------------------------------------------------------
(* How a step of p affects the claims *)

\* The effects on a row keep its columns in agreement.
LEMMA EffectsGood ==
    ASSUME NEW row \in Row, GoodRow(row)
    PROVE  /\ GoodRow(Reopened(row)) /\ GoodRow(Cancelled(row)) /\ GoodRow(Failed(row, TRUE))
           /\ row.order # NoId => GoodRow(Completed(row))
           /\ \A permanent \in BOOLEAN : row.order = NoId => GoodRow(Failed(row, permanent))
           /\ Reopened(row).status \notin Failures /\ Cancelled(row).status \notin Failures
<1>1. GoodRow(Reopened(row)) /\ Reopened(row).status \notin Failures
  BY DEF Row, GoodRow, Reopened, Failures
<1>2. GoodRow(Cancelled(row)) /\ Cancelled(row).status \notin Failures
  BY DEF Row, GoodRow, Cancelled, Failures
<1>3. row.order # NoId => GoodRow(Completed(row))
  BY DEF Row, GoodRow, Completed
<1>4. GoodRow(Failed(row, TRUE))
  BY DEF Row, GoodRow, Failed
<1>5. ASSUME NEW permanent \in BOOLEAN, row.order = NoId PROVE GoodRow(Failed(row, permanent))
  BY <1>5 DEF Row, GoodRow, Failed
<1>6. QED
  BY <1>1, <1>2, <1>3, <1>4, <1>5

\* All that Claims asks of a step of p.
LEMMA ClaimStep ==
    ASSUME Claims, NEW p \in Proc,
           \A q \in Proc \ {p} : pc'[q] = pc[q] /\ mem'[q] = mem[q],
           \A k \in DOMAIN actions' : GoodRow(actions'[k]),
           \A k \in DOMAIN actions :
              /\ k \in DOMAIN actions'
              /\ \/ actions'[k].order = actions[k].order
                 \/ k \in Held(p) /\ actions'[k].order # NoId
              /\ actions'[k].status \in Failures =>
                    \/ actions[k].status \in Failures \/ actions[k].order # NoId
                    \/ k \in Held(p) \/ k \in Taken(p),
           \A k \in Held(p)' :
              /\ k \in Held(p) \/ k \notin DOMAIN actions
              /\ k \in DOMAIN actions' /\ actions'[k].status \notin Failures
              /\ actions'[k].order = NoId,
           \A k \in Orig(p)' :
              /\ k \in DOMAIN actions /\ actions'[k].order = NoId
              /\ k \in Orig(p) \/ \A q \in Proc : k \notin Held(q),
           \A k \in Taken(p)' :
              /\ actions'[k].status \notin Failures
              /\ k \in Taken(p) \/ actions[k].status \in Failures,
           pc'[p] \in Recoveries =>
              mem'[p].orig \in DOMAIN actions' /\ actions'[mem'[p].orig].order # NoId,
           pc'[p] = "recoverWrite" => mem'[p].permanent = TRUE
    PROVE  Claims'
<1>1. \A q \in Proc \ {p} :
         Held(q)' = Held(q) /\ Orig(q)' = Orig(q) /\ Taken(q)' = Taken(q)
  BY DEF Held, Orig, Taken
<1>2. \A q \in Proc : Taken(q) \subseteq Orig(q)
  BY DEF Taken
<1>3. ASSUME NEW q \in Proc, NEW k \in Held(q)'
      PROVE  k \in DOMAIN actions' /\ actions'[k].status \notin Failures /\ actions'[k].order = NoId
  <2>1. CASE q # p
    <3>1. /\ k \in Held(q) /\ k \in DOMAIN actions /\ actions[k].status \notin Failures
          /\ actions[k].order = NoId /\ k \notin Held(p) /\ k \notin Taken(p)
      BY <1>2, <1>1, <1>3, <2>1 DEF Claims
    <3>2. QED
      BY <3>1
  <2>2. QED
    BY <1>3, <2>1
<1>4. ASSUME NEW q \in Proc, NEW k \in Orig(q)'
      PROVE  k \in DOMAIN actions' /\ actions'[k].order = NoId
  BY <1>1 DEF Claims
<1>5. ASSUME NEW q \in Proc, NEW k \in Taken(q)' PROVE actions'[k].status \notin Failures
  <2>1. CASE q # p
    <3>1. /\ k \in Taken(q) /\ k \in Orig(q) /\ k \in DOMAIN actions
          /\ actions[k].status \notin Failures /\ actions[k].order = NoId
          /\ k \notin Held(p) /\ k \notin Taken(p)
      BY <1>2, <1>1, <1>5, <2>1 DEF Claims
    <3>2. QED
      BY <3>1
  <2>2. QED
    BY <1>5, <2>1
<1>6. ASSUME NEW q \in Proc, NEW r \in Proc, q # r PROVE Held(q)' \cap Held(r)' = {}
  BY <1>1, <1>6 DEF Claims
<1>7. ASSUME NEW q \in Proc, NEW r \in Proc PROVE Orig(q)' \cap Held(r)' = {}
  <2>1. CASE q = p
    BY <1>1, <2>1 DEF Claims
  <2>2. CASE q # p
    BY <1>1, <2>2 DEF Claims
  <2>3. QED
    BY <2>1, <2>2
<1>8. ASSUME NEW q \in Proc, NEW r \in Proc, q # r PROVE Taken(q)' \cap Taken(r)' = {}
  BY <1>1, <1>8 DEF Claims
<1>9. ASSUME NEW q \in Proc, pc'[q] \in Recoveries
      PROVE  mem'[q].orig \in DOMAIN actions' /\ actions'[mem'[q].orig].order # NoId
  BY <1>9 DEF Claims
<1>10. ASSUME NEW q \in Proc, pc'[q] = "recoverWrite" PROVE mem'[q].permanent = TRUE
  BY <1>10 DEF Claims
<1>11. QED
  BY <1>3, <1>4, <1>5, <1>6, <1>7, <1>8, <1>9, <1>10 DEF Claims

\* All that Sent asks of a step of p.
LEMMA SentStep ==
    ASSUME Sent, NEW p \in Proc,
           \A q \in Proc \ {p} : pc'[q] = pc[q] /\ mem'[q] = mem[q],
           DOMAIN actions \subseteq DOMAIN actions',
           DOMAIN exchange' = DOMAIN exchange,
           \A i \in DOMAIN exchange : exchange'[i].key = exchange[i].key,
           pc'[p] = "place" => \A k \in Held(p)' : k \notin DOMAIN actions
    PROVE  Sent'
<1>1. \A q \in Proc \ {p} : Held(q)' = Held(q)
  BY DEF Held
<1>2. \A k \in Held(p)' : k # NoKey
  BY DEF Held
<1>3. ASSUME NEW q \in Proc, pc'[q] = "place", NEW i \in DOMAIN exchange'
      PROVE  exchange'[i].key \notin Held(q)'
  BY <1>1, <1>2, <1>3 DEF Sent
<1>4. QED
  BY <1>3 DEF Sent, OneOrderPerKey

-----------------------------------------------------------------------------
(* Steps that leave the actions alone *)

\* A step of p to l, with locals v.
Moves(p, l, v) == pc' = [pc EXCEPT ![p] = l] /\ mem' = [mem EXCEPT ![p] = v]

\* A step to l with locals v claims nothing and takes up no action.
Calm(p, l, v) ==
    /\ l \notin Recoveries
    /\ l \in Flight => \/ v.job.key = NoKey
                       \/ pc[p] \in Flight /\ l # "place" /\ v.job.key = mem[p].job.key
    /\ l \notin Writes => \/ v.orig = NoKey
                          \/ pc[p] \notin Writes \union {"claimRetry"} /\ v.orig = mem[p].orig

\* No order is added on the exchange, and none changes its key.
SameKeys == /\ DOMAIN exchange' = DOMAIN exchange
            /\ \A i \in DOMAIN exchange : exchange'[i].key = exchange[i].key

\* A step of p leaves the other activities where they are.
LEMMA Moved ==
    ASSUME LocalsOK, NEW p \in Proc, NEW l, NEW v,
           Moves(p, l, v)
    PROVE  /\ pc'[p] = l /\ mem'[p] = v
           /\ \A q \in Proc \ {p} : pc'[q] = pc[q] /\ mem'[q] = mem[q]
BY DEF LocalsOK, Moves

\* A calm step that leaves the action rows alone keeps the invariant ...
LEMMA QuietStep ==
    ASSUME LocalsOK, Claims, Sent, NEW p \in Proc, NEW l, NEW v,
           Moves(p, l, v), Calm(p, l, v), UNCHANGED actions, SameKeys
    PROVE  Claims' /\ Sent'
<1>1. /\ pc'[p] = l /\ mem'[p] = v
      /\ \A q \in Proc \ {p} : pc'[q] = pc[q] /\ mem'[q] = mem[q]
  BY Moved
<1>2. Held(p)' \subseteq Held(p) /\ (l = "place" => Held(p)' = {})
  BY <1>1 DEF Held, Calm
<1>3. Orig(p)' \subseteq Orig(p) /\ Taken(p)' \subseteq Taken(p) /\ l \notin Recoveries
  BY <1>1 DEF Orig, Taken, Calm
<1>4. Claims'
  <2>1. /\ \A k \in DOMAIN actions : GoodRow(actions[k])
        /\ \A k \in Held(p) :
              k \in DOMAIN actions /\ actions[k].status \notin Failures /\ actions[k].order = NoId
        /\ \A k \in Orig(p) : k \in DOMAIN actions /\ actions[k].order = NoId
        /\ \A k \in Taken(p) : actions[k].status \notin Failures
    BY DEF Claims
  <2>2. QED
    BY <1>1, <1>2, <1>3, <2>1, ClaimStep DEF Recoveries
<1>5. Sent'
  BY <1>1, <1>2, SentStep DEF SameKeys
<1>6. QED
  BY <1>4, <1>5

\* ... as does coming to rest, or dying ...
LEMMA ReturnQuiet ==
    ASSUME LocalsOK, Claims, Sent, NEW p \in Proc, Return(p), UNCHANGED actions, SameKeys
    PROVE  Claims' /\ Sent'
<1>1. Calm(p, "idle", Blank)
  BY DEF Calm, Flight, Recoveries, Blank
<1>2. Moves(p, "idle", Blank)
  BY DEF Moves, Return, Goto
<1>3. QED
  BY <1>1, <1>2, QuietStep

\* ... and an error before anything is claimed.
LEMMA ThrowQuiet ==
    ASSUME LocalsOK, Claims, Sent, NEW p \in Proc, NEW retry \in BOOLEAN, Throw(p, retry),
           pc[p] \notin Writes \union {"claimRetry"}, UNCHANGED actions, SameKeys
    PROVE  Claims' /\ Sent'
<1>1. CASE p \notin Retriers
  BY <1>1, ReturnQuiet DEF Throw
<1>2. CASE p \in Retriers
  <2>1. PICK v : v = [Blank EXCEPT !.orig = mem[p].orig, !.retry = retry]
    OBVIOUS
  <2>2. v.orig = mem[p].orig
    BY <2>1 DEF Blank
  <2>3. Calm(p, "giveUp", v)
    BY <2>2 DEF Calm, Flight, Recoveries
  <2>4. Moves(p, "giveUp", v)
    BY <1>2, <2>1 DEF Moves, Throw, Goto
  <2>5. QED
    BY <2>3, <2>4, QuietStep
<1>3. QED
  BY <1>1, <1>2

\* The runner decides without claiming anything.
LEMMA TickClaims ==
    ASSUME LocalsOK, Claims, Sent, NEW p \in Proc, TickStep(p)
    PROVE  Claims' /\ Sent'
<1>1. CASE TickDecide(p)
  <2>1. PICK job : mem' = [mem EXCEPT ![p].job = job]
    BY <1>1 DEF TickDecide
  <2>2. PICK v : v = [mem[p] EXCEPT !.job = job]
    OBVIOUS
  <2>3. v.orig = mem[p].orig
    BY <2>2 DEF LocalsOK, Memory
  <2>4. Calm(p, "tick", v)
    BY <1>1, <2>3 DEF TickDecide, Calm, Flight, Writes, Recoveries
  <2>5. Moves(p, "tick", v)
    BY <1>1, <2>1, <2>2 DEF TickDecide, Moves, Goto
  <2>6. QED
    BY <1>1, <2>4, <2>5, QuietStep DEF TickDecide, rows, SameKeys
<1>2. CASE TickSkip(p)
  BY <1>2, ReturnQuiet DEF TickSkip, rows, SameKeys
<1>3. CASE TickExecute(p)
  <2>1. Moves(p, "start", mem[p])
    BY <1>3 DEF TickExecute, LocalsOK, Moves, Goto
  <2>2. Calm(p, "start", mem[p])
    BY <1>3 DEF TickExecute, Calm, Flight, Writes, Recoveries
  <2>3. QED
    BY <1>3, <2>1, <2>2, QuietStep DEF TickExecute, rows, SameKeys
<1>4. QED
  BY <1>1, <1>2, <1>3 DEF TickStep

\* A manual order goes to the exchange without a key.
LEMMA AdmitClaims ==
    ASSUME LocalsOK, Claims, Sent, NEW p \in Proc, Admit(p)
    PROVE  Claims' /\ Sent'
<1>1. PICK id : mem' = [mem EXCEPT ![p].pos = id, ![p].row = RowOf(id),
                                   ![p].sub = SubOf(id, mem[p].job.level)]
  BY DEF Admit
<1>2. PICK row, sub : row = RowOf(id) /\ sub = SubOf(id, mem[p].job.level)
  OBVIOUS
<1>3. PICK v : v = [mem[p] EXCEPT !.pos = id, !.row = row, !.sub = sub]
  OBVIOUS
<1>4. v.orig = mem[p].orig /\ v.job = mem[p].job 
  BY <1>3 DEF LocalsOK, Memory
<1>5. PICK l : l = IF mem[p].job.type = "NONE" THEN "place" ELSE "claim"
  OBVIOUS
<1>6. Moves(p, l, v)
  BY <1>1, <1>2, <1>3, <1>5 DEF Admit, Moves, Goto
<1>7. Calm(p, l, v)
  BY <1>4, <1>5 DEF Admit, Calm, Writes, Recoveries, Flight, LocalsOK, LocalOK
<1>8. QED
  BY <1>6, <1>7, QuietStep DEF Admit, rows, SameKeys

\* The exchange takes the order of p: its key was on no order before.
LEMMA AcceptSent ==
    ASSUME RowsOK, LocalsOK, Claims, Sent, NEW p \in Proc, Accept(p), NEW v,
           NEW l \in {"commit", "fail"},
           Moves(p, l, v), v.job = mem[p].job
    PROVE  Sent'
<1>1. PICK o \in NewOrders(mem[p].job) : exchange' = Append(exchange, o)
  BY DEF Accept
<1>2. o.key = mem[p].job.key
  BY <1>1 DEF NewOrders
<1>3. PICK n \in Nat : n = Len(exchange)
  BY DEF RowsOK
<1>4. /\ DOMAIN exchange' = DOMAIN exchange \union {n + 1}
      /\ exchange'[n + 1] = o
      /\ \A i \in DOMAIN exchange : exchange'[i] = exchange[i] /\ i # n + 1
  BY <1>1, <1>3 DEF RowsOK
<1>5. pc'[p] = l /\ \A q \in Proc \ {p} : pc'[q] = pc[q] /\ mem'[q] = mem[q]
  BY Moved
<1>6. UNCHANGED actions /\ pc[p] = "place" /\ l # "place"
  BY DEF Accept, rows
<1>7. o.key # NoKey => o.key \in Held(p)
  BY <1>2, <1>6 DEF Held, Flight
<1>8. ASSUME NEW i \in DOMAIN exchange', exchange'[i].key # NoKey
      PROVE  exchange'[i].key \in DOMAIN actions'
  BY <1>4, <1>6, <1>7, <1>8 DEF Sent, Claims
<1>9. ASSUME NEW q \in Proc, pc'[q] = "place", NEW i \in DOMAIN exchange'
      PROVE  exchange'[i].key \notin Held(q)'
  <2>1. q # p /\ Held(q)' = Held(q) /\ pc[q] = "place"
    BY <1>5, <1>6, <1>9 DEF Held
  <2>2. o.key \notin Held(q)
    <3>1. NoKey \notin Held(q)
      BY DEF Held
    <3>2. QED
      BY <1>7, <2>1, <3>1 DEF Claims
  <2>3. QED
    BY <1>4, <2>1, <2>2 DEF Sent
<1>10. OneOrderPerKey'
  <2>1. ASSUME NEW i \in DOMAIN exchange PROVE exchange[i].key # o.key \/ o.key = NoKey
    BY <1>6, <1>7 DEF Sent
  <2>2. QED
    BY <1>4, <2>1 DEF Sent, OneOrderPerKey
<1>11. QED
  BY <1>8, <1>9, <1>10 DEF Sent

\* The error paths and the answer of an order keep the claim.
LEMMA FlightClaims ==
    ASSUME LocalsOK, Claims, NEW p \in Proc, NEW v, NEW l \in {"commit", "fail"},
           Moves(p, l, v),
           pc[p] \in Flight, v.job = mem[p].job, v.orig = mem[p].orig, UNCHANGED actions
    PROVE  Claims'
<1>1. /\ pc'[p] = l /\ mem'[p] = v
      /\ \A q \in Proc \ {p} : pc'[q] = pc[q] /\ mem'[q] = mem[q]
  BY Moved
<1>2. /\ Held(p)' = Held(p) /\ Orig(p)' = Orig(p) /\ Taken(p)' = Taken(p)
      /\ l \notin Recoveries
  BY <1>1 DEF Held, Orig, Taken, Flight, Writes, Recoveries
<1>3. /\ \A k \in DOMAIN actions : GoodRow(actions[k])
      /\ \A k \in Held(p) :
            k \in DOMAIN actions /\ actions[k].status \notin Failures /\ actions[k].order = NoId
      /\ \A k \in Orig(p) : k \in DOMAIN actions /\ actions[k].order = NoId
      /\ \A k \in Taken(p) : actions[k].status \notin Failures
  BY DEF Claims
<1>4. QED
  BY <1>1, <1>2, <1>3, ClaimStep DEF Recoveries

\* Placing, whatever becomes of it, keeps the claim and uses the key up.
LEMMA PlaceClaims ==
    ASSUME RowsOK, LocalsOK, Claims, Sent, NEW p \in Proc,
           Place(p) \/ PlaceLost(p) \/ PlaceRefused(p) \/ CommitFails(p)
    PROVE  Claims' /\ Sent'
<1>1. PICK v : /\ Moves(p, "commit", v) \/ Moves(p, "fail", v)
               /\ v.job = mem[p].job /\ v.orig = mem[p].orig
  <2>1. CASE Place(p)
    <3>1. PICK v : v = [mem[p] EXCEPT !.oid = Len(exchange'), !.ack = exchange'[Len(exchange')]]
      OBVIOUS
    <3>2. v.job = mem[p].job /\ v.orig = mem[p].orig
      BY <3>1 DEF LocalsOK, Memory
    <3>3. Moves(p, "commit", v)
      BY <2>1, <3>1 DEF Place, Goto, Moves
    <3>4. QED
      BY <3>2, <3>3
  <2>2. CASE PlaceLost(p) \/ PlaceRefused(p) \/ CommitFails(p)
    <3>1. PICK retry \in BOOLEAN : mem' = [mem EXCEPT ![p].retry = retry]
      BY <2>2 DEF PlaceLost, PlaceRefused, CommitFails
    <3>2. PICK v : v = [mem[p] EXCEPT !.retry = retry]
      OBVIOUS
    <3>3. v.job = mem[p].job /\ v.orig = mem[p].orig
      BY <3>2 DEF LocalsOK, Memory
    <3>4. Moves(p, "fail", v)
      BY <2>2, <3>1, <3>2 DEF PlaceLost, PlaceRefused, CommitFails, Goto, Moves
    <3>5. QED
      BY <3>3, <3>4
  <2>3. QED
    BY <2>1, <2>2
<1>2. PICK l \in {"commit", "fail"} : Moves(p, l, v)
  BY <1>1
<1>3. pc[p] \in Flight /\ UNCHANGED actions
  BY DEF Place, PlaceLost, PlaceRefused, CommitFails, Accept, Flight, rows
<1>4. Claims'
  BY <1>1, <1>2, <1>3, FlightClaims
<1>5. CASE Place(p) \/ PlaceLost(p)
  BY <1>1, <1>2, <1>4, <1>5, AcceptSent DEF Place, PlaceLost
<1>6. CASE PlaceRefused(p) \/ CommitFails(p)
  <2>1. UNCHANGED exchange
    BY <1>6 DEF PlaceRefused, CommitFails
  <2>2. pc'[p] # "place" /\ \A q \in Proc \ {p} : pc'[q] = pc[q] /\ mem'[q] = mem[q]
    BY <1>2, Moved
  <2>3. QED
    BY <1>3, <1>4, <2>1, <2>2, SentStep
<1>7. QED
  BY <1>5, <1>6

-----------------------------------------------------------------------------
(* Steps that write actions *)

\* The key is new, so nobody holds it and no order carries it.
LEMMA CreateClaims ==
    ASSUME RowsOK, LocalsOK, Claims, Sent, NEW p \in Proc, CreateAction(p)
    PROVE  Claims' /\ Sent'
<1>1. PICK v, k : v = mem[p] /\ k = mem[p].job.key
  OBVIOUS
<1>2. k \notin DOMAIN actions /\ k \in DOMAIN actions'
  BY <1>1 DEF CreateAction, Exists, Create, Put
<1>3. Moves(p, "place", v)
  BY <1>1 DEF CreateAction, Moves, Goto, LocalsOK
<1>4. /\ pc'[p] = "place" /\ mem'[p] = v
      /\ \A q \in Proc \ {p} : pc'[q] = pc[q] /\ mem'[q] = mem[q]
  BY <1>3, Moved
<1>5. PICK row : /\ actions' = Put(actions, k, row)
                 /\ row.status = "PENDING" /\ row.order = NoId
                 /\ ~row.retryable /\ ~row.nextRetryAt
  BY <1>1 DEF CreateAction, Create, Pending
<1>6. /\ \A x \in DOMAIN actions' : x # k => x \in DOMAIN actions /\ actions'[x] = actions[x]
      /\ DOMAIN actions \subseteq DOMAIN actions' /\ actions'[k] = row
  BY <1>2, <1>5 DEF Put
<1>7. GoodRow(row)
  BY <1>5 DEF GoodRow
<1>8. Held(p)' \subseteq {k} /\ Orig(p)' \subseteq Orig(p) /\ Taken(p)' \subseteq Taken(p)
  BY <1>1, <1>4 DEF Held, Orig, Taken, CreateAction, Writes, Recoveries
<1>9. Claims'
  <2>1. \A x \in DOMAIN actions' : GoodRow(actions'[x])
    BY <1>6, <1>7 DEF Claims
  <2>2. \A x \in DOMAIN actions : x # k /\ x \in DOMAIN actions' /\ actions'[x] = actions[x]
    BY <1>2, <1>6
  <2>3. \A x \in Orig(p)' : x \in DOMAIN actions /\ actions'[x].order = NoId /\ x \in Orig(p)
    BY <1>8, <2>2 DEF Claims
  <2>4. \A x \in Held(p)' : /\ x \notin DOMAIN actions /\ x \in DOMAIN actions'
                            /\ actions'[x].status \notin Failures /\ actions'[x].order = NoId
    BY <1>2, <1>5, <1>6, <1>8 DEF Failures
  <2>5. \A x \in Taken(p)' : actions'[x].status \notin Failures /\ x \in Taken(p)
    BY <1>8, <2>2 DEF Claims, Taken
  <2>6. QED
    BY <1>4, <2>1, <2>2, <2>3, <2>4, <2>5, ClaimStep DEF Recoveries
<1>10. Sent'
  <2>1. UNCHANGED exchange
    BY DEF CreateAction
  <2>2. QED
    BY <1>2, <1>4, <1>6, <1>8, <2>1, SentStep
<1>11. QED
  BY <1>9, <1>10

\* A step that writes one row, keeping its order, and gives up what p held. The
\* row fails only if p held it, had taken it and gives it up, or recovers it; what
\* p retries from then on was failed before, or was taken already.
LEMMA WriteStep ==
    ASSUME LocalsOK, Claims, Sent, NEW p \in Proc, NEW l, NEW v, NEW k, NEW row,
           Moves(p, l, v), UNCHANGED exchange,
           actions' = [actions EXCEPT ![k] = row],
           k \in DOMAIN actions =>
              /\ GoodRow(row) /\ row.order = actions[k].order
              /\ row.status \in Failures => \/ actions[k].order # NoId \/ k \in Held(p)
                                            \/ k \in Taken(p) /\ v.orig = NoKey,
           l \notin Flight, l \notin Recoveries,
           v.orig # NoKey =>
              /\ pc[p] \notin Writes /\ v.orig = mem[p].orig
              /\ pc[p] = "claimRetry" =>
                    v.orig = k /\ row.status \notin Failures /\ actions[k].status \in Failures
    PROVE  Claims' /\ Sent'
<1>1. /\ pc'[p] = l /\ mem'[p] = v
      /\ \A q \in Proc \ {p} : pc'[q] = pc[q] /\ mem'[q] = mem[q]
  BY Moved
<1>2. Held(p)' = {} /\ Orig(p)' \subseteq Orig(p) /\ Taken(p)' \subseteq Orig(p)
      /\ \A x \in Orig(p)' : x = v.orig /\ v.orig # NoKey
  BY <1>1 DEF Held, Orig, Taken
<1>3. DOMAIN actions' = DOMAIN actions
  OBVIOUS
<1>4. ASSUME NEW x \in DOMAIN actions
      PROVE  /\ GoodRow(actions'[x]) /\ actions'[x].order = actions[x].order
             /\ actions'[x].status \in Failures =>
                   \/ actions[x].status \in Failures \/ actions[x].order # NoId
                   \/ x \in Held(p) \/ x \in Taken(p)
  <2>1. CASE x = k
    BY <2>1
  <2>2. CASE x # k
    BY <2>2 DEF Claims
  <2>3. QED
    BY <2>1, <2>2
<1>5. \A x \in Orig(p)' : x \in DOMAIN actions /\ actions'[x].order = NoId /\ x \in Orig(p)
  BY <1>2, <1>4 DEF Claims
<1>6. ASSUME NEW x \in Taken(p)'
      PROVE  /\ actions'[x].status \notin Failures
             /\ x \in Taken(p) \/ actions[x].status \in Failures
  <2>1. x \in Orig(p) /\ x \in DOMAIN actions /\ x = v.orig /\ v.orig # NoKey
    BY <1>2, <1>5, <1>6 DEF Taken
  <2>2. CASE pc[p] = "claimRetry"
    BY <2>1, <2>2
  <2>3. CASE pc[p] # "claimRetry"
    <3>1. x \in Taken(p) /\ actions[x].status \notin Failures /\ actions[x].order = NoId
          /\ x \notin Held(p)
      BY <2>1, <2>3 DEF Taken, Claims
    <3>2. QED
      BY <2>1, <3>1
  <2>4. QED
    BY <2>2, <2>3
<1>7. Claims'
  BY <1>1, <1>2, <1>3, <1>4, <1>5, <1>6, ClaimStep DEF Recoveries
<1>8. Sent'
  BY <1>1, <1>2, <1>3, SentStep DEF Flight
<1>9. QED
  BY <1>7, <1>8

\* The catch block reads the claimed action and keeps the claim, or rethrows.
LEMMA FailReadClaims ==
    ASSUME RowsOK, LocalsOK, Claims, Sent, NEW p \in Proc, FailRead(p)
    PROVE  Claims' /\ Sent'
<1>1. mem[p].retry \in BOOLEAN /\ pc[p] = "fail" /\ UNCHANGED actions /\ SameKeys
  BY DEF FailRead, LocalsOK, Memory, rows, SameKeys
<1>2. CASE mem[p].job.type = "NONE"
  BY <1>1, <1>2, ThrowQuiet DEF FailRead, Writes, Recoveries
<1>3. CASE mem[p].job.type # "NONE"
  <2>1. PICK v : v = [mem[p] EXCEPT !.permanent = Permanent(actions[mem[p].job.key], mem[p].retry)]
    OBVIOUS
  <2>2. Moves(p, "failWrite", v) /\ v.job = mem[p].job /\ v.orig = mem[p].orig
    BY <1>3, <2>1 DEF FailRead, Moves, Goto, LocalsOK, Memory
  <2>3. Calm(p, "failWrite", v)
    BY <1>1, <2>2 DEF Calm, Flight, Writes, Recoveries
  <2>4. QED
    BY <1>1, <2>2, <2>3, QuietStep
<1>4. QED
  BY <1>2, <1>3

\* A failed execution marks the action it held, and gives it up.
LEMMA FailClaims ==
    ASSUME RowsOK, LocalsOK, Claims, Sent, NEW p \in Proc, FailClaim(p)
    PROVE  Claims' /\ Sent'
<1>1. mem[p].permanent \in BOOLEAN /\ pc[p] = "failWrite" /\ UNCHANGED exchange
  BY DEF FailClaim, LocalsOK, Memory
<1>2. PICK l, v : /\ Moves(p, l, v) /\ l \notin Flight /\ l \notin Recoveries
                  /\ v.orig = NoKey \/ v.orig = mem[p].orig
  <2>1. CASE p \notin Retriers
    BY <2>1 DEF FailClaim, Throw, Return, Goto, Moves, Flight, Recoveries, Blank
  <2>2. CASE p \in Retriers
    <3>1. PICK v : v = [Blank EXCEPT !.orig = mem[p].orig, !.retry = mem[p].retry]
      OBVIOUS
    <3>2. Moves(p, "giveUp", v) /\ v.orig = mem[p].orig
      BY <2>2, <3>1 DEF FailClaim, Throw, Goto, Moves, Blank
    <3>3. QED
      BY <3>2 DEF Flight, Recoveries
  <2>3. QED
    BY <2>1, <2>2
<1>3. PICK k, row : k = mem[p].job.key /\ row = Failed(actions[k], mem[p].permanent)
  OBVIOUS
<1>4. k \in Held(p)
  BY <1>1, <1>3 DEF LocalsOK, LocalOK, Held, Flight
<1>5. actions' = [actions EXCEPT ![k] = row]
  BY <1>3 DEF FailClaim, MarkFailed
<1>6. actions[k] \in Row /\ GoodRow(actions[k]) /\ actions[k].order = NoId
  BY <1>4 DEF Claims, RowsOK, ActionsTypeOK
<1>7. GoodRow(row) /\ row.order = actions[k].order
  BY <1>1, <1>3, <1>6, EffectsGood, EffectsOK
<1>8. pc[p] \notin Writes \union {"claimRetry"}
  BY <1>1 DEF Writes, Recoveries
<1>9. QED
  BY <1>1, <1>2, <1>4, <1>5, <1>7, <1>8, WriteStep

\* A committed execution binds the action it held to its order.
LEMMA CommitClaims ==
    ASSUME RowsOK, LocalsOK, Claims, Sent, NEW p \in Proc, Commit(p)
    PROVE  Claims' /\ Sent'
<1>1. /\ pc'[p] = "idle" /\ mem'[p] = Blank
      /\ \A q \in Proc \ {p} : pc'[q] = pc[q] /\ mem'[q] = mem[q]
  BY Moved DEF Commit, Return, Goto, Moves
<1>2. /\ Held(p)' = {} /\ Orig(p)' = {} /\ Taken(p)' = {}
      /\ pc[p] = "commit" /\ UNCHANGED exchange
  BY <1>1 DEF Held, Orig, Taken, Flight, Blank, Commit
<1>3. PICK k, o : k = mem[p].job.key /\ o = mem[p].oid
  OBVIOUS
<1>4. o # NoId
  BY <1>2, <1>3 DEF LocalsOK, LocalOK, RowsOK, NoId
<1>5. mem[p].job.type = "NONE" <=> k = NoKey
  BY <1>3 DEF LocalsOK, LocalOK
<1>6. CASE k = NoKey
  <2>1. UNCHANGED actions
    BY <1>3, <1>5, <1>6 DEF Commit
  <2>2. \A x \in DOMAIN actions : GoodRow(actions[x])
    BY DEF Claims
  <2>3. QED
    BY <1>1, <1>2, <2>1, <2>2, ClaimStep, SentStep DEF Recoveries
<1>7. CASE k # NoKey
  <2>1. k \in Held(p)
    BY <1>2, <1>3, <1>7 DEF Held, Flight
  <2>2. /\ k \in DOMAIN actions /\ actions[k] \in Row /\ GoodRow(actions[k])
        /\ actions[k].status \notin Failures
    BY <2>1 DEF Claims, RowsOK, ActionsTypeOK
  <2>3. PICK filled \in BOOLEAN : \E pos : Bind(k, o, pos, filled)
    <3>1. PICK filled \in BOOLEAN : filled <=> mem[p].ack.status = "FILLED"
      OBVIOUS
    <3>2. PICK pos : Bind(k, o, pos, mem[p].ack.status = "FILLED")
      BY <1>3, <1>5, <1>7 DEF Commit
    <3>3. Bind(k, o, pos, filled)
      BY <3>1, <3>2 DEF Bind, Bound
    <3>4. QED
      BY <3>3
  <2>4. PICK pos : Bind(k, o, pos, filled)
    BY <2>3
  <2>5. PICK row : row = Bound(actions[k], o, pos, filled)
    OBVIOUS
  <2>6. GoodRow(row) /\ row.order # NoId /\ row.status \notin Failures
    BY <1>4, <2>2, <2>5 DEF Bound, GoodRow, Row, Failures
  <2>7. actions' = [actions EXCEPT ![k] = row] /\ DOMAIN actions' = DOMAIN actions
    BY <2>4, <2>5 DEF Bind
  <2>8. ASSUME NEW x \in DOMAIN actions
        PROVE  /\ GoodRow(actions'[x])
               /\ actions'[x].order = actions[x].order
                  \/ (x \in Held(p) /\ actions'[x].order # NoId)
               /\ actions'[x].status \in Failures => actions[x].status \in Failures
    BY <2>1, <2>6, <2>7 DEF Claims
  <2>9. QED
    BY <1>1, <1>2, <2>7, <2>8, ClaimStep, SentStep DEF Recoveries
<1>8. QED
  BY <1>6, <1>7

\* Every step of executeMarketOrder keeps the invariant.
LEMMA ExecutionClaims ==
    ASSUME RowsOK, LocalsOK, Claims, Sent, NEW p \in Proc, ExecutionStep(p)
    PROVE  Claims' /\ Sent'
<1>1. CASE Refuse(p)
  BY <1>1, ThrowQuiet DEF Refuse, rows, SameKeys, Writes, Recoveries
<1>2. CASE Admit(p)
  BY <1>2, AdmitClaims
<1>3. CASE Duplicate(p)
  BY <1>3, ReturnQuiet DEF Duplicate, rows, SameKeys
<1>4. CASE RefuseClaim(p)
  BY <1>4, ThrowQuiet DEF RefuseClaim, rows, SameKeys, Writes, Recoveries
<1>5. CASE PassClaim(p)
  <2>1. Moves(p, "create", mem[p])
    BY <1>5 DEF PassClaim, LocalsOK, Moves, Goto
  <2>2. Calm(p, "create", mem[p])
    BY <1>5 DEF PassClaim, Calm, Flight, Writes, Recoveries
  <2>3. QED
    BY <1>5, <2>1, <2>2, QuietStep DEF PassClaim, rows, SameKeys
<1>6. CASE CreateAction(p)
  BY <1>6, CreateClaims
<1>7. CASE Place(p) \/ PlaceLost(p) \/ PlaceRefused(p) \/ CommitFails(p)
  BY <1>7, PlaceClaims
<1>8. CASE Commit(p)
  BY <1>8, CommitClaims
<1>9. CASE FailRead(p)
  BY <1>9, FailReadClaims
<1>10. CASE FailClaim(p)
  BY <1>10, FailClaims
<1>11. QED
  BY <1>1, <1>2, <1>3, <1>4, <1>5, <1>6, <1>7, <1>8, <1>9, <1>10 DEF ExecutionStep

-----------------------------------------------------------------------------
(* Retries *)

\* A due action was given up by whoever held it, and has no order.
LEMMA PickClaims ==
    ASSUME RowsOK, LocalsOK, Claims, Sent, NEW p \in Proc, RetryPick(p)
    PROVE  Claims' /\ Sent'
<1>1. PICK k \in DOMAIN actions :
         /\ RetryDue(k)
         /\ mem' = [mem EXCEPT
               ![p].orig = k,
               ![p].order = OrderOf(k),
               ![p].job = [type |-> actions[k].type, qty |-> actions[k].qty,
                           level |-> actions[k].level,
                           side |-> IF actions[k].type \in Entries THEN "BUY" ELSE "SELL",
                           auto |-> TRUE, key |-> RetryKey(k, actions[k].attempts + 1)]]
  BY DEF RetryPick
<1>2. PICK order, job : mem' = [mem EXCEPT ![p].orig = k, ![p].order = order, ![p].job = job]
  <2>1. PICK order : order = OrderOf(k)
    OBVIOUS
  <2>2. PICK job : job = [type |-> actions[k].type, qty |-> actions[k].qty,
                          level |-> actions[k].level,
                          side |-> IF actions[k].type \in Entries THEN "BUY" ELSE "SELL",
                          auto |-> TRUE, key |-> RetryKey(k, actions[k].attempts + 1)]
    OBVIOUS
  <2>3. QED
    BY <1>1, <2>1, <2>2
<1>3. PICK v : v = [mem[p] EXCEPT !.orig = k, !.order = order, !.job = job]
  OBVIOUS
<1>4. v.orig = k
  BY <1>3 DEF LocalsOK, Memory
<1>5. Moves(p, "claimRetry", v)
  BY <1>2, <1>3 DEF RetryPick, Moves, Goto
<1>6. /\ pc'[p] = "claimRetry" /\ mem'[p] = v
      /\ \A q \in Proc \ {p} : pc'[q] = pc[q] /\ mem'[q] = mem[q]
  BY <1>5, Moved
<1>7. /\ Held(p)' = {} /\ Orig(p)' \subseteq {k} /\ Taken(p)' = {}
      /\ UNCHANGED <<actions, exchange>>
  BY <1>4, <1>6 DEF Held, Orig, Taken, Flight, RetryPick, rows
<1>8. actions[k].order = NoId /\ \A q \in Proc : k \notin Held(q)
  BY <1>1 DEF RetryDue, Claims, GoodRow, Failures
<1>9. \A x \in DOMAIN actions : GoodRow(actions[x])
  BY DEF Claims
<1>10. QED
  BY <1>6, <1>7, <1>8, <1>9, ClaimStep, SentStep DEF Recoveries

\* Every step of the retry scheduler keeps the invariant.
LEMMA RetryClaims ==
    ASSUME RowsOK, LocalsOK, Claims, Sent, NEW p \in Proc, RetryStep(p)
    PROVE  Claims' /\ Sent'
<1>1. CASE RetryPick(p)
  BY <1>1, PickClaims
<1>2. CASE RetryClaim(p)
  <2>1. PICK k, row, l, v : /\ k = mem[p].orig /\ row = Reopened(actions[k]) /\ v = mem[p]
                            /\ l = IF mem[p].order.status \in LiveOrder THEN "giveUp" ELSE "start"
    OBVIOUS
  <2>2. /\ Moves(p, l, v) /\ l \notin Flight /\ l \notin Recoveries
        /\ pc[p] = "claimRetry" /\ pc[p] \notin Writes
    BY <1>2, <2>1 DEF RetryClaim, Moves, Goto, LocalsOK, Flight, Writes, Recoveries
  <2>3. actions' = [actions EXCEPT ![k] = row] /\ UNCHANGED exchange
    BY <1>2, <2>1 DEF RetryClaim, Reopen
  <2>4. /\ actions[k] \in Row /\ GoodRow(actions[k]) /\ actions[k].status \in Failures
    BY <1>2, <2>1 DEF RetryClaim, RetryDue, Exists, RowsOK, ActionsTypeOK, Claims, Failures
  <2>5. GoodRow(row) /\ row.order = actions[k].order /\ row.status \notin Failures
    BY <2>1, <2>4, EffectsGood, EffectsOK
  <2>6. QED
    BY <2>1, <2>2, <2>3, <2>4, <2>5, WriteStep
<1>3. CASE RetryGone(p)
  BY <1>3, ReturnQuiet DEF RetryGone, rows, SameKeys
<1>4. CASE GiveUpRead(p)
  <2>1. PICK v : v = [mem[p] EXCEPT !.permanent = Permanent(actions[mem[p].orig], mem[p].retry)]
    OBVIOUS
  <2>2. Moves(p, "giveUpWrite", v) /\ v.orig = mem[p].orig
    BY <1>4, <2>1 DEF GiveUpRead, Moves, Goto, LocalsOK, Memory
  <2>3. Calm(p, "giveUpWrite", v)
    BY <1>4, <2>2 DEF GiveUpRead, Calm, Flight, Writes, Recoveries
  <2>4. QED
    BY <1>4, <2>2, <2>3, QuietStep DEF GiveUpRead, rows, SameKeys
<1>5. CASE GiveUp(p)
  <2>1. PICK k, row : k = mem[p].orig /\ row = Failed(actions[k], mem[p].permanent)
    OBVIOUS
  <2>2. /\ Moves(p, "idle", Blank) /\ "idle" \notin Flight /\ "idle" \notin Recoveries
        /\ Blank.orig = NoKey
    BY <1>5 DEF GiveUp, Return, Goto, Moves, Flight, Recoveries, Blank
  <2>3. actions' = [actions EXCEPT ![k] = row] /\ UNCHANGED exchange
    BY <1>5, <2>1 DEF GiveUp, MarkFailed
  <2>4. k \in DOMAIN actions => /\ actions[k] \in Row /\ GoodRow(actions[k]) /\ k \in Taken(p)
                                /\ actions[k].order = NoId
    BY <1>5, <2>1, NoKeyAssumption
    DEF RowsOK, ActionsTypeOK, Claims, GiveUp, Orig, Taken, Writes, Recoveries
  <2>5. mem[p].permanent \in BOOLEAN
    BY DEF LocalsOK, Memory
  <2>6. k \in DOMAIN actions => GoodRow(row) /\ row.order = actions[k].order
    BY <2>1, <2>4, <2>5, EffectsGood, EffectsOK
  <2>7. QED
    BY <2>2, <2>3, <2>4, <2>6, WriteStep
<1>6. QED
  BY <1>1, <1>2, <1>3, <1>4, <1>5 DEF RetryStep

-----------------------------------------------------------------------------
(* Synchronization *)

\* Synchronizing an order writes only actions bound to that order already.
LEMMA SyncApplyClaims ==
    ASSUME RowsOK, LocalsOK, Claims, Sent, NEW p \in Proc, SyncApply(p)
    PROVE  Claims' /\ Sent'
<1>1. /\ pc'[p] = "idle" /\ mem'[p] = Blank
      /\ \A q \in Proc \ {p} : pc'[q] = pc[q] /\ mem'[q] = mem[q]
  BY Moved DEF SyncApply, Return, Goto, Moves
<1>2. Held(p)' = {} /\ Orig(p)' = {} /\ Taken(p)' = {} /\ UNCHANGED exchange
  BY <1>1 DEF Held, Orig, Taken, Flight, Blank, SyncApply
<1>3. PICK o : o = mem[p].oid
  OBVIOUS
<1>4. o # NoId
  BY <1>3 DEF SyncApply, LocalsOK, LocalOK, RowsOK, NoId
<1>5. PICK pos, ack : /\ DOMAIN actions' = DOMAIN actions
                      /\ \A k \in DOMAIN actions : actions'[k] =
                            IF actions[k].order = o THEN Bound(actions[k], o, pos, ack = "FILLED")
                            ELSE actions[k]
  BY <1>3 DEF SyncApply
<1>6. ASSUME NEW k \in DOMAIN actions
      PROVE  /\ GoodRow(actions'[k])
             /\ actions'[k].order = actions[k].order
             /\ actions'[k].status \in Failures => actions[k].status \in Failures
  <2>1. actions[k] \in Row /\ GoodRow(actions[k])
    BY DEF RowsOK, ActionsTypeOK, Claims
  <2>2. CASE actions[k].order = o
    <3>1. actions'[k] = Bound(actions[k], o, pos, ack = "FILLED")
      BY <1>5, <2>2
    <3>2. QED
      BY <1>4, <2>1, <2>2, <3>1 DEF Bound, GoodRow, Row, Failures
  <2>3. CASE actions[k].order # o
    BY <1>5, <2>1, <2>3
  <2>4. QED
    BY <2>2, <2>3
<1>7. QED
  BY <1>1, <1>2, <1>5, <1>6, ClaimStep, SentStep DEF Recoveries

\* A recovery reads an action that has an order, and will fail it for good.
LEMMA RecoverReadClaims ==
    ASSUME RowsOK, LocalsOK, Claims, Sent, NEW p \in Proc, RecoverEnded(p)
    PROVE  Claims' /\ Sent'
<1>1. PICK v : v = [mem[p] EXCEPT !.permanent = Permanent(actions[mem[p].orig], FALSE)]
  OBVIOUS
<1>2. v.orig = mem[p].orig /\ v.permanent = TRUE
  BY <1>1 DEF LocalsOK, Memory, Permanent
<1>3. Moves(p, "recoverWrite", v)
  BY <1>1 DEF RecoverEnded, Moves, Goto
<1>4. /\ pc'[p] = "recoverWrite" /\ mem'[p] = v
      /\ \A q \in Proc \ {p} : pc'[q] = pc[q] /\ mem'[q] = mem[q]
  BY <1>3, Moved
<1>5. Held(p)' = {} /\ Orig(p)' = {} /\ Taken(p)' = {} /\ UNCHANGED <<actions, exchange>>
  BY <1>4 DEF Held, Orig, Taken, Flight, Writes, Recoveries, RecoverEnded, rows
<1>6. /\ \A x \in DOMAIN actions : GoodRow(actions[x])
      /\ mem[p].orig \in DOMAIN actions /\ actions[mem[p].orig].order # NoId
  BY DEF Claims, RecoverEnded, Recoveries
<1>7. QED
  BY <1>2, <1>4, <1>5, <1>6, ClaimStep, SentStep

\* ... and writes it: it is completed, or has failed for good.
LEMMA RecoverWriteClaims ==
    ASSUME RowsOK, LocalsOK, Claims, Sent, NEW p \in Proc, RecoverFilled(p) \/ RecoverFail(p)
    PROVE  Claims' /\ Sent'
<1>1. PICK k : k = mem[p].orig
  OBVIOUS
<1>2. PICK row : /\ actions' = [actions EXCEPT ![k] = row]
                 /\ row = Completed(actions[k]) \/ row = Failed(actions[k], TRUE)
  <2>1. CASE RecoverFilled(p)
    BY <1>1, <2>1 DEF RecoverFilled, MarkCompleted
  <2>2. CASE RecoverFail(p)
    BY <1>1, <2>2 DEF RecoverFail, MarkFailed, Claims
  <2>3. QED
    BY <2>1, <2>2
<1>3. /\ Moves(p, "idle", Blank) /\ "idle" \notin Flight /\ "idle" \notin Recoveries
      /\ Blank.orig = NoKey /\ UNCHANGED exchange
  BY DEF RecoverFilled, RecoverFail, Return, Goto, Moves, Flight, Recoveries, Blank
<1>4. actions[k] \in Row /\ GoodRow(actions[k]) /\ actions[k].order # NoId
  BY <1>1 DEF RowsOK, ActionsTypeOK, Claims, RecoverFilled, RecoverFail, Recoveries
<1>5. GoodRow(row) /\ row.order = actions[k].order
  BY <1>2, <1>4, EffectsGood, EffectsOK
<1>6. QED
  BY <1>2, <1>3, <1>4, <1>5, WriteStep

\* Every step of the sync scheduler keeps the invariant.
LEMMA SyncClaims ==
    ASSUME RowsOK, LocalsOK, Claims, Sent, NEW p \in Proc, SyncStep(p)
    PROVE  Claims' /\ Sent'
<1>1. ASSUME NEW o \in DOMAIN orders, SyncRead(p, o) PROVE Claims' /\ Sent'
  <2>1. PICK v : v = [mem[p] EXCEPT !.oid = o, !.order = orders[o],
                                    !.row = positions[orders[o].pos],
                                    !.sub = IF orders[o].linked
                                            THEN SubOf(orders[o].pos, orders[o].level) ELSE NoSub]
    OBVIOUS
  <2>2. Moves(p, "fetch", v) /\ v.orig = mem[p].orig
    BY <1>1, <2>1 DEF SyncRead, Moves, Goto, LocalsOK, Memory
  <2>3. Calm(p, "fetch", v)
    BY <1>1, <2>2 DEF SyncRead, Asks, Calm, Flight, Writes, Recoveries
  <2>4. QED
    BY <1>1, <2>2, <2>3, QuietStep DEF SyncRead, rows, SameKeys
<1>2. CASE SyncFetch(p)
  <2>1. PICK v : v = [mem[p] EXCEPT !.ack = exchange[mem[p].oid]]
    OBVIOUS
  <2>2. Moves(p, "apply", v) /\ v.orig = mem[p].orig
    BY <1>2, <2>1 DEF SyncFetch, Moves, Goto, LocalsOK, Memory
  <2>3. Calm(p, "apply", v)
    BY <1>2, <2>2 DEF SyncFetch, Calm, Flight, Writes, Recoveries
  <2>4. QED
    BY <1>2, <2>2, <2>3, QuietStep DEF SyncFetch, rows, SameKeys
<1>3. CASE SyncFails(p)
  BY <1>3, ReturnQuiet DEF SyncFails, rows, SameKeys
<1>4. CASE SyncApply(p)
  BY <1>4, SyncApplyClaims
<1>5. ASSUME NEW k \in DOMAIN actions, RecoverRead(p, k) PROVE Claims' /\ Sent'
  <2>1. PICK v : v = [mem[p] EXCEPT !.orig = k, !.order = OrderOf(k)]
    OBVIOUS
  <2>2. Moves(p, "recover", v) /\ v.orig = k
    BY <1>5, <2>1 DEF RecoverRead, Moves, Goto, LocalsOK, Memory
  <2>3. /\ pc'[p] = "recover" /\ mem'[p] = v
        /\ \A q \in Proc \ {p} : pc'[q] = pc[q] /\ mem'[q] = mem[q]
    BY <2>2, Moved
  <2>4. /\ Held(p)' = {} /\ Orig(p)' = {} /\ Taken(p)' = {}
        /\ UNCHANGED <<actions, exchange>> /\ actions[k].order # NoId
    BY <1>5, <2>3 DEF Held, Orig, Taken, Flight, Writes, Recoveries, RecoverRead, rows
  <2>5. \A x \in DOMAIN actions : GoodRow(actions[x])
    BY DEF Claims
  <2>6. QED
    BY <2>2, <2>3, <2>4, <2>5, ClaimStep, SentStep DEF Recoveries
<1>6. CASE RecoverFilled(p) \/ RecoverFail(p)
  BY <1>6, RecoverWriteClaims
<1>7. CASE RecoverEnded(p)
  BY <1>7, RecoverReadClaims
<1>8. QED
  BY <1>1, <1>2, <1>3, <1>4, <1>5, <1>6, <1>7 DEF SyncStep, Recover

-----------------------------------------------------------------------------
(* The owner's requests *)

\* An order request starts an execution, which has claimed nothing yet.
LEMMA JobClaims ==
    ASSUME LocalsOK, Claims, Sent, NEW p \in Proc, NEW job, Request(p, job), pc[p] = "idle"
    PROVE  Claims' /\ Sent'
<1>1. PICK v : v = [mem[p] EXCEPT !.job = job]
  OBVIOUS
<1>2. Moves(p, "start", v) /\ v.orig = mem[p].orig
  BY <1>1 DEF Request, Moves, Goto, LocalsOK, Memory
<1>3. Calm(p, "start", v)
  BY <1>2 DEF Calm, Flight, Writes, Recoveries
<1>4. QED
  BY <1>2, <1>3, QuietStep DEF Request, rows, SameKeys

\* A manual retry or cancellation remembers the action it has checked.
LEMMA OrigClaims ==
    ASSUME LocalsOK, Claims, Sent, NEW p \in Proc, NEW l \in {"retryWrite", "cancelWrite"}, NEW k,
           Goto(p, l), mem' = [mem EXCEPT ![p].orig = k], UNCHANGED <<rows, exchange>>
    PROVE  Claims' /\ Sent'
<1>1. PICK v : v = [mem[p] EXCEPT !.orig = k]
  OBVIOUS
<1>2. Moves(p, l, v)
  BY <1>1 DEF Moves, Goto
<1>3. Calm(p, l, v)
  BY DEF Calm, Flight, Writes, Recoveries
<1>4. QED
  BY <1>2, <1>3, QuietStep DEF rows, SameKeys

\* ... and writes it, whatever it has become since.
LEMMA ManualClaims ==
    ASSUME RowsOK, LocalsOK, Claims, Sent, NEW p \in Proc, Return(p), UNCHANGED exchange,
           Reopen(mem[p].orig) \/ CancelRetry(mem[p].orig)
    PROVE  Claims' /\ Sent'
<1>1. PICK k : k = mem[p].orig
  OBVIOUS
<1>2. PICK row : /\ row = Reopened(actions[k]) \/ row = Cancelled(actions[k])
                 /\ actions' = [actions EXCEPT ![k] = row]
  BY <1>1 DEF Reopen, CancelRetry
<1>3. /\ Moves(p, "idle", Blank) /\ "idle" \notin Flight /\ "idle" \notin Recoveries
      /\ Blank.orig = NoKey
  BY DEF Return, Goto, Moves, Flight, Recoveries, Blank
<1>4. k \in DOMAIN actions => actions[k] \in Row /\ GoodRow(actions[k])
  BY DEF RowsOK, ActionsTypeOK, Claims
<1>5. k \in DOMAIN actions => /\ GoodRow(row) /\ row.order = actions[k].order
                              /\ row.status \notin Failures
  BY <1>2, <1>4, EffectsGood, EffectsOK
<1>6. QED
  BY <1>2, <1>3, <1>5, WriteStep

\* Every request of the owner keeps the invariant.
LEMMA RequestClaims ==
    ASSUME RowsOK, LocalsOK, Claims, Sent, NEW p \in Proc, RequestStep(p)
    PROVE  Claims' /\ Sent'
<1>1. CASE RequestOrder(p)
  BY <1>1, JobClaims DEF RequestOrder, Asks
<1>2. CASE RequestClose(p)
  <2>1. pc[p] = "idle" /\ \E job : Request(p, job)
    BY <1>2 DEF RequestClose, Asks
  <2>2. QED
    BY <2>1, JobClaims
<1>3. CASE RequestRetry(p)
  <2>1. PICK k : mem' = [mem EXCEPT ![p].orig = k]
    BY <1>3 DEF RequestRetry
  <2>2. QED
    BY <1>3, <2>1, OrigClaims DEF RequestRetry
<1>4. CASE ManualRetry(p)
  BY <1>4, ManualClaims DEF ManualRetry
<1>5. CASE RequestCancel(p)
  <2>1. PICK k : mem' = [mem EXCEPT ![p].orig = k]
    BY <1>5 DEF RequestCancel
  <2>2. QED
    BY <1>5, <2>1, OrigClaims DEF RequestCancel
<1>6. CASE ManualCancel(p)
  BY <1>6, ManualClaims DEF ManualCancel
<1>7. QED
  BY <1>1, <1>2, <1>3, <1>4, <1>5, <1>6 DEF RequestStep

-----------------------------------------------------------------------------
(* The emergency stop *)

\* All open actions are cancelled at once; the stop itself holds none.
LEMMA StopRowsClaims ==
    ASSUME RowsOK, LocalsOK, Claims, Sent, NEW p \in Proc, StopRows(p)
    PROVE  Claims' /\ Sent'
<1>1. Moves(p, "stopList", mem[p])
  BY DEF StopRows, LocalsOK, Moves, Goto
<1>2. /\ pc'[p] = "stopList" /\ mem'[p] = mem[p]
      /\ \A q \in Proc \ {p} : pc'[q] = pc[q] /\ mem'[q] = mem[q]
  BY <1>1, Moved
<1>3. /\ Held(p)' = {} /\ Orig(p)' \subseteq Orig(p) /\ Taken(p)' \subseteq Taken(p)
      /\ UNCHANGED exchange
  BY <1>2 DEF Held, Orig, Taken, Flight, Writes, Recoveries, StopRows, Asks
<1>4. DOMAIN actions' = DOMAIN actions
  BY DEF StopRows, CancelAll
<1>5. ASSUME NEW k \in DOMAIN actions
      PROVE  /\ GoodRow(actions'[k]) /\ actions'[k].order = actions[k].order
             /\ actions'[k].status \in Failures => actions[k].status \in Failures
  <2>1. actions[k] \in Row /\ GoodRow(actions[k])
    BY DEF RowsOK, ActionsTypeOK, Claims
  <2>2. actions'[k] = actions[k] \/ actions'[k] = Cancelled(actions[k])
    BY DEF StopRows, CancelAll
  <2>3. QED
    BY <2>1, <2>2, EffectsGood, EffectsOK
<1>6. \A k \in Orig(p)' : k \in DOMAIN actions /\ actions'[k].order = NoId /\ k \in Orig(p)
  BY <1>3, <1>5 DEF Claims
<1>7. \A k \in Taken(p)' : actions'[k].status \notin Failures /\ k \in Taken(p)
  BY <1>3, <1>5 DEF Claims, Taken
<1>8. QED
  BY <1>2, <1>3, <1>4, <1>5, <1>6, <1>7, ClaimStep, SentStep DEF Recoveries

\* The stop's lists of orders change, and the statuses of orders.
LEMMA ListsClaims ==
    ASSUME LocalsOK, Claims, Sent, NEW p \in Proc, NEW v,
           pc[p] \in {"stopList", "stopping"}, Moves(p, "stopping", v), v.orig = mem[p].orig,
           UNCHANGED actions, SameKeys
    PROVE  Claims' /\ Sent'
<1>1. Calm(p, "stopping", v)
  BY DEF Calm, Flight, Writes, Recoveries
<1>2. QED
  BY <1>1, QuietStep

\* Every step of the emergency stop keeps the invariant.
LEMMA StopClaims ==
    ASSUME RowsOK, LocalsOK, Claims, Sent, NEW p \in Proc, StopStep(p)
    PROVE  Claims' /\ Sent'
<1>1. CASE StopRows(p)
  BY <1>1, StopRowsClaims
<1>2. CASE StopList(p)
  <2>1. PICK v : v = [mem[p] EXCEPT !.todo = UnresolvedOrders]
    OBVIOUS
  <2>2. Moves(p, "stopping", v) /\ v.orig = mem[p].orig
    BY <1>2, <2>1 DEF StopList, Moves, Goto, LocalsOK, Memory
  <2>3. pc[p] = "stopList" /\ UNCHANGED actions /\ SameKeys
    BY <1>2 DEF StopList, rows, SameKeys
  <2>4. QED
    BY <2>2, <2>3, ListsClaims
<1>3. CASE StopCancel(p)
  <2>1. PICK o \in mem[p].todo, answered \in BOOLEAN :
           /\ exchange' = [exchange EXCEPT ![o].status = "CANCELED"] \/ UNCHANGED exchange
           /\ mem' = [mem EXCEPT ![p].todo = @ \ {o},
                                 ![p].acks = IF answered THEN @ \union {o} ELSE @]
    BY <1>3 DEF StopCancel
  <2>2. PICK todo, acks : /\ todo = mem[p].todo \ {o}
                          /\ acks = IF answered THEN mem[p].acks \union {o} ELSE mem[p].acks
    OBVIOUS
  <2>3. PICK v : v = [mem[p] EXCEPT !.todo = todo, !.acks = acks]
    OBVIOUS
  <2>4. SameKeys
    <3>1. \A i \in DOMAIN exchange : exchange[i] \in ExchangeOrder
      BY DEF RowsOK
    <3>2. QED
      BY <2>1, <3>1 DEF SameKeys, ExchangeOrder
  <2>5. Moves(p, "stopping", v) /\ v.orig = mem[p].orig
    <3>1. pc' = [pc EXCEPT ![p] = "stopping"]
      BY <1>3 DEF StopCancel, LocalsOK
    <3>2. mem' = [mem EXCEPT ![p] = v]
      BY <2>1, <2>2, <2>3
    <3>3. QED
      BY <2>3, <3>1, <3>2 DEF Moves, LocalsOK, Memory
  <2>6. pc[p] = "stopping" /\ UNCHANGED actions
    BY <1>3 DEF StopCancel, rows
  <2>7. QED
    BY <2>4, <2>5, <2>6, ListsClaims
<1>4. CASE StopWrite(p)
  <2>1. PICK o \in mem[p].acks : mem' = [mem EXCEPT ![p].acks = @ \ {o}]
    BY <1>4 DEF StopWrite
  <2>2. PICK v : v = [mem[p] EXCEPT !.acks = @ \ {o}]
    OBVIOUS
  <2>3. Moves(p, "stopping", v) /\ v.orig = mem[p].orig
    BY <1>4, <2>1, <2>2 DEF StopWrite, Moves, LocalsOK, Memory
  <2>4. pc[p] = "stopping" /\ UNCHANGED actions /\ SameKeys
    BY <1>4 DEF StopWrite, SameKeys
  <2>5. QED
    BY <2>3, <2>4, ListsClaims
<1>5. CASE StopDone(p)
  BY <1>5, ReturnQuiet DEF StopDone, rows, SameKeys
<1>6. QED
  BY <1>1, <1>2, <1>3, <1>4, <1>5 DEF StopStep

-----------------------------------------------------------------------------
(* The environment *)

\* Activities stand still; orders keep their keys.
LEMMA StillClaims ==
    ASSUME Claims, Sent, UNCHANGED <<pc, mem, actions>>, SameKeys
    PROVE  Claims' /\ Sent'
<1>1. \A q \in Proc : Held(q)' = Held(q) /\ Orig(q)' = Orig(q) /\ Taken(q)' = Taken(q)
  BY DEF Held, Orig, Taken
<1>2. Claims'
  BY <1>1 DEF Claims
<1>3. OneOrderPerKey'
  BY DEF Sent, SameKeys, OneOrderPerKey
<1>4. QED
  BY <1>1, <1>2, <1>3 DEF Sent, SameKeys

\* A fill or the end of an order leaves its key alone.
LEMMA ExchangeKeys ==
    ASSUME RowsOK, NEW o \in DOMAIN exchange, ExchangeFills(o) \/ ExchangeEnds(o)
    PROVE  SameKeys
<1>1. \A i \in DOMAIN exchange : exchange[i] \in ExchangeOrder
  BY DEF RowsOK
<1>2. CASE ExchangeFills(o)
  <2>1. PICK e : exchange' = [exchange EXCEPT
                    ![o].executed = e,
                    ![o].status = IF e = exchange[o].qty THEN "FILLED" ELSE "PARTIALLY_FILLED"]
    BY <1>2 DEF ExchangeFills
  <2>2. QED
    BY <1>1, <2>1 DEF SameKeys, ExchangeOrder
<1>3. CASE ExchangeEnds(o)
  <2>1. PICK s : exchange' = [exchange EXCEPT ![o].status = s]
    BY <1>3 DEF ExchangeEnds
  <2>2. QED
    BY <1>1, <2>1 DEF SameKeys, ExchangeOrder
<1>4. QED
  BY <1>2, <1>3

-----------------------------------------------------------------------------
(* The invariant *)

\* The inductive invariant.
Claiming == Linked /\ Claims /\ Sent

\* It holds at first ...
LEMMA InitClaims == Init => Claiming
<1> SUFFICES ASSUME Init PROVE Claiming
  OBVIOUS
<1>1. Linked
  BY InitOK DEF Linked
<1>2. \A p \in Proc : Held(p) = {} /\ Orig(p) = {} /\ Taken(p) = {} /\ pc[p] = "idle"
  BY DEF Init, Held, Orig, Taken, Flight, Blank
<1>3. Claims
  BY <1>2 DEF Init, Claims, Recoveries
<1>4. Sent
  BY <1>2 DEF Init, Sent, OneOrderPerKey
<1>5. QED
  BY <1>1, <1>3, <1>4 DEF Claiming

\* ... and every step keeps it.
LEMMA NextClaims == Claiming /\ [Next]_vars => Claiming'
<1> SUFFICES ASSUME RowsOK, LocalsOK, Claims, Sent, [Next]_vars PROVE Claims' /\ Sent'
  BY NextOK DEF Claiming, Linked
<1>1. ASSUME NEW p \in Proc, TickStep(p) PROVE Claims' /\ Sent'
  BY <1>1, TickClaims
<1>2. ASSUME NEW p \in Proc, ExecutionStep(p) PROVE Claims' /\ Sent'
  BY <1>2, ExecutionClaims
<1>3. ASSUME NEW p \in Proc, RetryStep(p) PROVE Claims' /\ Sent'
  BY <1>3, RetryClaims
<1>4. ASSUME NEW p \in Proc, SyncStep(p) PROVE Claims' /\ Sent'
  BY <1>4, SyncClaims
<1>5. ASSUME NEW p \in Proc, RequestStep(p) PROVE Claims' /\ Sent'
  BY <1>5, RequestClaims
<1>6. ASSUME NEW p \in Proc, StopStep(p) PROVE Claims' /\ Sent'
  BY <1>6, StopClaims
<1>7. ASSUME NEW p \in Proc, Crash(p) PROVE Claims' /\ Sent'
  BY <1>7, ReturnQuiet DEF Crash, rows, SameKeys
<1>8. CASE SetStatus
  BY <1>8, StillClaims DEF SetStatus, SameKeys
<1>9. CASE \E o \in DOMAIN exchange : ExchangeFills(o) \/ ExchangeEnds(o)
  <2>1. PICK o \in DOMAIN exchange : ExchangeFills(o) \/ ExchangeEnds(o)
    BY <1>9
  <2>2. UNCHANGED <<pc, mem, actions>> /\ SameKeys
    BY <2>1, ExchangeKeys DEF ExchangeFills, ExchangeEnds, rows
  <2>3. QED
    BY <2>2, StillClaims
<1>10. CASE UNCHANGED vars
  BY <1>10, StillClaims DEF vars, SameKeys
<1>11. QED
  BY <1>1, <1>2, <1>3, <1>4, <1>5, <1>6, <1>7, <1>8, <1>9, <1>10 DEF Next

\* A key is held by one execution at a time, from its creation to the outcome
\* of its order; no retry takes it up meanwhile, and its action has no order.
THEOREM ClaimsHold == Spec => []Claiming
BY InitClaims, NextClaims, PTL DEF Spec

\* An action key buys at most one order, whatever crashes, is lost, retried,
\* cancelled or presented again between.
THEOREM ExactlyOnce == Spec => []OneOrderPerKey
<1>1. Claiming => OneOrderPerKey
  BY DEF Claiming, Sent
<1>2. QED
  BY <1>1, ClaimsHold, PTL

\* The retry columns agree with the status, with every writer of them at work.
THEOREM RetryColumns == Spec => []RetryColumnsAgree
<1>1. Claiming => RetryColumnsAgree
  BY DEF Claiming, Claims, GoodRow, RetryColumnsAgree
<1>2. QED
  BY <1>1, ClaimsHold, PTL

\* An action whose order is on record is never scheduled for a retry.
THEOREM OrderedStay == Spec => []OrderedNotRetried
<1>1. Claiming => OrderedNotRetried
  BY DEF Claiming, Claims, GoodRow, OrderedNotRetried
<1>2. QED
  BY <1>1, ClaimsHold, PTL

\* An action that reports an order names it.
THEOREM Reported == Spec => []ReportedActionsHaveOrders
<1>1. Claiming => ReportedActionsHaveOrders
  BY DEF Claiming, Claims, GoodRow, ReportedActionsHaveOrders
<1>2. QED
  BY <1>1, ClaimsHold, PTL

-----------------------------------------------------------------------------
(* The attempts *)

\* The requests that are going to add an attempt to action k, and the actions
\* that p is going to schedule another retry of.
Waiting(k) == {u \in Users : pc[u] = "retryWrite" /\ mem[u].orig = k}
Scheduling(p) ==
    {k \in Held(p) \union Taken(p) :
        /\ mem[p].permanent = FALSE
        /\ \/ pc[p] = "failWrite" /\ k = mem[p].job.key
           \/ pc[p] = "giveUpWrite" /\ k = mem[p].orig}
Limit == MaxAttempts + Cardinality(Users)

\* What is scheduled is within the limit, whoever writes first: while an action is
\* held or taken it has not failed, so that no further request comes to wait.
Counted ==
    /\ \A p \in Proc : pc[p] = "retryWrite" => p \in Users
    /\ \A k \in DOMAIN actions : actions[k].retryable => actions[k].attempts < Limit
    /\ \A p \in Proc : \A k \in Scheduling(p) :
          actions[k].attempts + Cardinality(Waiting(k)) < Limit

\* Numbers of requests.
LEMMA WaitingOK ==
    ASSUME IsFiniteSet(Users), NEW k
    PROVE  /\ IsFiniteSet(Waiting(k)) /\ Cardinality(Waiting(k)) \in Nat
           /\ Cardinality(Waiting(k)) <= Cardinality(Users) /\ Cardinality(Users) \in Nat
<1>1. Waiting(k) \in SUBSET Users
  BY DEF Waiting
<1>2. QED
  BY <1>1, FS_Subset, FS_CardinalityType

\* All that Counted asks of a step of p.
LEMMA CountStep ==
    ASSUME IsFiniteSet(Users), RowsOK, RowsOK', Claims, Counted, NEW p \in Proc,
           \A q \in Proc \ {p} : pc'[q] = pc[q] /\ mem'[q] = mem[q],
           DOMAIN actions \subseteq DOMAIN actions',
           pc'[p] = "retryWrite" => p \in Users /\ actions[mem'[p].orig].status \in Failures,
           \A k \in DOMAIN actions :
              \/ actions'[k].attempts = actions[k].attempts
              \/ actions[k].status \in Failures
              \/ /\ actions'[k].attempts = actions[k].attempts + 1
                 /\ p \in Waiting(k) /\ pc'[p] # "retryWrite",
           \A k \in DOMAIN actions' : actions'[k].retryable =>
              /\ k \in DOMAIN actions /\ actions'[k].attempts = actions[k].attempts
              /\ actions[k].retryable \/ k \in Scheduling(p),
           \A k \in Scheduling(p)' : k \in DOMAIN actions' /\ actions'[k].attempts < MaxAttempts
    PROVE  Counted'
<1>1. MaxAttempts \in Nat /\ \A k \in DOMAIN actions : actions[k].attempts \in Nat
  BY AttemptsAssumption DEF RowsOK, ActionsTypeOK, Row
<1>2. \A k \in DOMAIN actions' : actions'[k].attempts \in Nat
  BY DEF RowsOK, ActionsTypeOK, Row
<1>3. ASSUME NEW k \in DOMAIN actions', actions'[k].retryable
      PROVE  actions'[k].attempts < Limit
  <2>1. CASE actions[k].retryable
    BY <1>3, <2>1 DEF Counted
  <2>2. CASE k \in Scheduling(p)
    <3>1. Cardinality(Waiting(k)) \in Nat /\ Cardinality(Users) \in Nat
      BY WaitingOK
    <3>2. actions[k].attempts + Cardinality(Waiting(k)) < Limit
      BY <2>2 DEF Counted
    <3>3. QED
      BY <1>1, <1>3, <3>1, <3>2 DEF Limit
  <2>3. QED
    BY <1>3, <2>1, <2>2
<1>4. ASSUME NEW q \in Proc, NEW k \in Scheduling(q)', q = p
      PROVE  actions'[k].attempts + Cardinality(Waiting(k)') < Limit
  <2>1. Waiting(k)' \in SUBSET Users
    BY DEF Waiting
  <2>2. /\ Cardinality(Waiting(k)') \in Nat /\ Cardinality(Users) \in Nat
        /\ Cardinality(Waiting(k)') <= Cardinality(Users)
    BY <2>1, FS_Subset, FS_CardinalityType
  <2>3. QED
    BY <1>1, <1>2, <1>4, <2>2 DEF Limit
<1>5. ASSUME NEW q \in Proc, NEW k \in Scheduling(q)', q # p
      PROVE  actions'[k].attempts + Cardinality(Waiting(k)') < Limit
  <2>1. k \in Scheduling(q)
    BY <1>5 DEF Scheduling, Held, Taken, Orig
  <2>2. k \in DOMAIN actions /\ actions[k].status \notin Failures
    BY <2>1 DEF Scheduling, Claims, Taken
  <2>3. Waiting(k)' = Waiting(k) \ {p}
    <3>1. \A u \in Users : u \in Proc
      BY DEF Proc
    <3>2. ~(pc'[p] = "retryWrite" /\ mem'[p].orig = k)
      BY <2>2
    <3>3. QED
      BY <3>1, <3>2 DEF Waiting
  <2>4. /\ Cardinality(Waiting(k)) \in Nat /\ Cardinality(Users) \in Nat
        /\ Cardinality(Waiting(k)') =
              IF p \in Waiting(k) THEN Cardinality(Waiting(k)) - 1 ELSE Cardinality(Waiting(k))
    BY <2>3, WaitingOK, FS_RemoveElement
  <2>5. actions[k].attempts + Cardinality(Waiting(k)) < Limit
    BY <2>1 DEF Counted
  <2>6. \/ actions'[k].attempts = actions[k].attempts
        \/ actions'[k].attempts = actions[k].attempts + 1 /\ p \in Waiting(k)
    BY <2>2
  <2>7. QED
    BY <1>1, <2>2, <2>4, <2>5, <2>6 DEF Limit
<1>6. \A q \in Proc : pc'[q] = "retryWrite" => q \in Users
  BY DEF Counted
<1>7. QED
  BY <1>3, <1>4, <1>5, <1>6 DEF Counted, Limit

\* A step of p that requests and decides nothing, and adds no attempt.
Plain(p) ==
    /\ \A q \in Proc \ {p} : pc'[q] = pc[q] /\ mem'[q] = mem[q]
    /\ pc'[p] \notin {"retryWrite", "failWrite", "giveUpWrite"}
    /\ \A k \in DOMAIN actions :
          k \in DOMAIN actions' /\ actions'[k].attempts = actions[k].attempts
    /\ \A k \in DOMAIN actions' :
          actions'[k].retryable => k \in DOMAIN actions /\ actions[k].retryable

LEMMA PlainCount ==
    ASSUME IsFiniteSet(Users), RowsOK, RowsOK', Claims, Counted, NEW p \in Proc, Plain(p)
    PROVE  Counted'
<1>1. Scheduling(p)' = {}
  BY DEF Plain, Scheduling
<1>2. QED
  BY <1>1, CountStep DEF Plain

\* p moves on, or comes to rest, and the actions stay as they are.
LEMMA GotoPlain ==
    ASSUME LocalsOK, NEW p \in Proc, NEW l,
           l \notin {"retryWrite", "failWrite", "giveUpWrite"}, Goto(p, l),
           \A q \in Proc \ {p} : mem'[q] = mem[q],
           UNCHANGED actions
    PROVE  Plain(p)
BY DEF LocalsOK, Goto, Plain

LEMMA ReturnPlain ==
    ASSUME LocalsOK, NEW p \in Proc, Return(p), UNCHANGED actions
    PROVE  Plain(p)
BY DEF LocalsOK, Return, Goto, Plain

LEMMA ThrowPlain ==
    ASSUME LocalsOK, NEW p \in Proc, NEW retry, Throw(p, retry), UNCHANGED actions
    PROVE  Plain(p)
BY DEF LocalsOK, Throw, Return, Goto, Plain

\* A row is written that is not scheduled for a retry, with the attempts it had.
LEMMA WritePlain ==
    ASSUME LocalsOK, NEW p \in Proc, Return(p), NEW k, NEW row,
           actions' = [actions EXCEPT ![k] = row],
           k \in DOMAIN actions => row.attempts = actions[k].attempts /\ ~row.retryable
    PROVE  Plain(p)
<1>1. pc'[p] = "idle" /\ \A q \in Proc \ {p} : pc'[q] = pc[q] /\ mem'[q] = mem[q]
  BY DEF LocalsOK, Return, Goto
<1>2. QED
  BY <1>1 DEF Plain

\* The steps of an execution that add no attempt and decide nothing.
LEMMA ExecutionPlain ==
    ASSUME RowsOK, LocalsOK, NEW p \in Proc, ExecutionStep(p)
    PROVE  \/ Plain(p) \/ FailClaim(p)
           \/ FailRead(p) /\ mem[p].job.type # "NONE"
<1>1. CASE Refuse(p) \/ RefuseClaim(p)
  BY <1>1, ThrowPlain DEF Refuse, RefuseClaim, rows
<1>2. CASE Admit(p)
  <2>1. \A q \in Proc \ {p} : mem'[q] = mem[q]
    BY <1>2 DEF Admit, LocalsOK
  <2>2. PICK l : l = IF mem[p].job.type = "NONE" THEN "place" ELSE "claim"
    OBVIOUS
  <2>3. QED
    BY <1>2, <2>1, <2>2, GotoPlain DEF Admit, rows
<1>3. CASE Duplicate(p)
  BY <1>3, ReturnPlain DEF Duplicate, rows
<1>4. CASE PassClaim(p)
  BY <1>4, GotoPlain DEF PassClaim, rows
<1>5. CASE CreateAction(p)
  <2>1. PICK k, row : /\ k \notin DOMAIN actions /\ actions' = Put(actions, k, row)
                      /\ ~row.retryable
    BY <1>5 DEF CreateAction, Exists, Create, Pending
  <2>2. pc'[p] = "place" /\ \A q \in Proc \ {p} : pc'[q] = pc[q] /\ mem'[q] = mem[q]
    BY <1>5 DEF CreateAction, Goto, LocalsOK
  <2>3. QED
    BY <2>1, <2>2 DEF Plain, Put
<1>6. CASE Place(p) \/ PlaceLost(p) \/ PlaceRefused(p) \/ CommitFails(p)
  <2>1. \A q \in Proc \ {p} : mem'[q] = mem[q]
    BY <1>6 DEF Place, PlaceLost, PlaceRefused, CommitFails, LocalsOK
  <2>2. UNCHANGED actions /\ (Goto(p, "commit") \/ Goto(p, "fail"))
    BY <1>6 DEF Place, PlaceLost, PlaceRefused, CommitFails, Accept, rows
  <2>3. QED
    BY <2>1, <2>2, GotoPlain
<1>7. CASE Commit(p)
  <2>1. PICK k, row : /\ actions' = [actions EXCEPT ![k] = row]
                      /\ k \in DOMAIN actions =>
                            /\ row.attempts = actions[k].attempts
                            /\ row.retryable = actions[k].retryable
    <3>1. CASE UNCHANGED actions
      <4>1. PICK k : k = mem[p].job.key
        OBVIOUS
      <4>2. actions' = [actions EXCEPT ![k] = actions[k]]
        BY <3>1 DEF RowsOK, ActionsTypeOK
      <4>3. QED
        BY <4>2
    <3>2. CASE \E pos : Bind(mem[p].job.key, mem[p].oid, pos, mem[p].ack.status = "FILLED")
      <4>1. PICK k, o : k = mem[p].job.key /\ o = mem[p].oid
        OBVIOUS
      <4>2. PICK filled \in BOOLEAN : filled <=> mem[p].ack.status = "FILLED"
        OBVIOUS
      <4>3. PICK pos : Bind(k, o, pos, mem[p].ack.status = "FILLED")
        BY <3>2, <4>1
      <4>4. Bind(k, o, pos, filled)
        BY <4>2, <4>3 DEF Bind, Bound
      <4>5. PICK row : row = Bound(actions[k], o, pos, filled)
        OBVIOUS
      <4>6. actions' = [actions EXCEPT ![k] = row]
        BY <4>4, <4>5 DEF Bind
      <4>7. k \in DOMAIN actions => actions[k] \in Row
        BY DEF RowsOK, ActionsTypeOK
      <4>8. k \in DOMAIN actions => /\ row.attempts = actions[k].attempts
                                    /\ row.retryable = actions[k].retryable
        BY <4>5, <4>7 DEF Bound, Row
      <4>9. QED
        BY <4>6, <4>8
    <3>3. QED
      BY <1>7, <3>1, <3>2 DEF Commit
  <2>2. pc'[p] = "idle" /\ \A q \in Proc \ {p} : pc'[q] = pc[q] /\ mem'[q] = mem[q]
    BY <1>7 DEF Commit, Return, Goto, LocalsOK
  <2>3. QED
    BY <2>1, <2>2 DEF Plain
<1>8. CASE FailRead(p)
  <2>1. CASE mem[p].job.type = "NONE"
    BY <1>8, <2>1, ThrowPlain DEF FailRead, rows
  <2>2. QED
    BY <1>8, <2>1
<1>9. QED
  BY <1>1, <1>2, <1>3, <1>4, <1>5, <1>6, <1>7, <1>8 DEF ExecutionStep

\* The steps of the runner and of the emergency stop.
LEMMA TickPlain ==
    ASSUME LocalsOK, NEW p \in Proc, TickStep(p)
    PROVE  Plain(p)
<1>1. CASE TickDecide(p)
  <2>1. \A q \in Proc \ {p} : mem'[q] = mem[q]
    BY <1>1 DEF TickDecide, LocalsOK
  <2>2. QED
    BY <1>1, <2>1, GotoPlain DEF TickDecide, rows
<1>2. CASE TickSkip(p)
  BY <1>2, ReturnPlain DEF TickSkip, rows
<1>3. CASE TickExecute(p)
  BY <1>3, GotoPlain DEF TickExecute, rows
<1>4. QED
  BY <1>1, <1>2, <1>3 DEF TickStep

LEMMA StopPlain ==
    ASSUME RowsOK, LocalsOK, NEW p \in Proc, StopStep(p)
    PROVE  Plain(p)
<1>1. CASE StopRows(p)
  <2>1. \A k \in DOMAIN actions :
           /\ k \in DOMAIN actions' /\ actions'[k].attempts = actions[k].attempts
           /\ actions'[k].retryable => actions[k].retryable
    <3>1. ASSUME NEW k \in DOMAIN actions
          PROVE  /\ k \in DOMAIN actions' /\ actions'[k].attempts = actions[k].attempts
                 /\ actions'[k].retryable => actions[k].retryable
      <4>1. actions[k] \in Row
        BY DEF RowsOK, ActionsTypeOK
      <4>2. k \in DOMAIN actions'
            /\ (actions'[k] = actions[k] \/ actions'[k] = Cancelled(actions[k]))
        BY <1>1 DEF StopRows, CancelAll
      <4>3. QED
        BY <4>1, <4>2 DEF Cancelled, Row
    <3>2. QED
      BY <3>1
  <2>2. DOMAIN actions' = DOMAIN actions
    BY <1>1 DEF StopRows, CancelAll
  <2>3. pc'[p] = "stopList" /\ \A q \in Proc \ {p} : pc'[q] = pc[q] /\ mem'[q] = mem[q]
    BY <1>1 DEF StopRows, Goto, LocalsOK
  <2>4. QED
    BY <2>1, <2>2, <2>3 DEF Plain
<1>2. CASE StopList(p)
  <2>1. \A q \in Proc \ {p} : mem'[q] = mem[q]
    BY <1>2 DEF StopList, LocalsOK
  <2>2. QED
    BY <1>2, <2>1, GotoPlain DEF StopList, rows
<1>3. CASE StopCancel(p) \/ StopWrite(p)
  <2>1. \A q \in Proc \ {p} : pc'[q] = pc[q] /\ mem'[q] = mem[q]
    BY <1>3 DEF StopCancel, StopWrite, LocalsOK
  <2>2. pc'[p] = "stopping" /\ UNCHANGED actions
    BY <1>3 DEF StopCancel, StopWrite, rows
  <2>3. QED
    BY <2>1, <2>2 DEF Plain
<1>4. CASE StopDone(p)
  BY <1>4, ReturnPlain DEF StopDone, rows
<1>5. QED
  BY <1>1, <1>2, <1>3, <1>4 DEF StopStep

\* The steps of the sync scheduler: what they fail, they fail for good.
LEMMA SyncPlain ==
    ASSUME RowsOK, LocalsOK, Claims, NEW p \in Proc, SyncStep(p)
    PROVE  Plain(p)
<1>1. ASSUME NEW o, SyncRead(p, o) PROVE Plain(p)
  <2>1. \A q \in Proc \ {p} : mem'[q] = mem[q]
    BY <1>1 DEF SyncRead, LocalsOK
  <2>2. QED
    BY <1>1, <2>1, GotoPlain DEF SyncRead, rows
<1>2. ASSUME NEW k, RecoverRead(p, k) PROVE Plain(p)
  <2>1. \A q \in Proc \ {p} : mem'[q] = mem[q]
    BY <1>2 DEF RecoverRead, LocalsOK
  <2>2. QED
    BY <1>2, <2>1, GotoPlain DEF RecoverRead, rows
<1>3. CASE SyncFetch(p) \/ RecoverEnded(p)
  <2>1. \A q \in Proc \ {p} : mem'[q] = mem[q]
    BY <1>3 DEF SyncFetch, RecoverEnded, LocalsOK
  <2>2. UNCHANGED actions /\ (Goto(p, "apply") \/ Goto(p, "recoverWrite"))
    BY <1>3 DEF SyncFetch, RecoverEnded, rows
  <2>3. QED
    BY <2>1, <2>2, GotoPlain
<1>4. CASE SyncFails(p)
  BY <1>4, ReturnPlain DEF SyncFails, rows
<1>5. CASE SyncApply(p)
  <2>1. \A k \in DOMAIN actions :
           /\ actions'[k].attempts = actions[k].attempts
           /\ actions'[k].retryable => actions[k].retryable
    <3>1. PICK o, pos, ack : \A k \in DOMAIN actions : actions'[k] =
             IF actions[k].order = o THEN Bound(actions[k], o, pos, ack = "FILLED")
             ELSE actions[k]
      BY <1>5 DEF SyncApply
    <3>2. ASSUME NEW k \in DOMAIN actions
          PROVE  /\ actions'[k].attempts = actions[k].attempts
                 /\ actions'[k].retryable => actions[k].retryable
      <4>1. actions[k] \in Row
        BY DEF RowsOK, ActionsTypeOK
      <4>2. CASE actions[k].order = o
        <5>1. actions'[k] = Bound(actions[k], o, pos, ack = "FILLED")
          BY <3>1, <4>2
        <5>2. QED
          BY <4>1, <5>1 DEF Bound, Row
      <4>3. QED
        BY <3>1, <4>2
    <3>3. QED
      BY <3>2
  <2>2. DOMAIN actions' = DOMAIN actions
    BY <1>5 DEF SyncApply
  <2>3. pc'[p] = "idle" /\ \A q \in Proc \ {p} : pc'[q] = pc[q] /\ mem'[q] = mem[q]
    BY <1>5 DEF SyncApply, Return, Goto, LocalsOK
  <2>4. QED
    BY <2>1, <2>2, <2>3 DEF Plain
<1>6. CASE RecoverFilled(p) \/ RecoverFail(p)
  <2>1. PICK k : k = mem[p].orig
    OBVIOUS
  <2>2. k \in DOMAIN actions => actions[k] \in Row
    BY DEF RowsOK, ActionsTypeOK
  <2>3. PICK row : /\ actions' = [actions EXCEPT ![k] = row]
                   /\ row = Completed(actions[k]) \/ row = Failed(actions[k], TRUE)
    <3>1. CASE RecoverFilled(p)
      BY <2>1, <3>1 DEF RecoverFilled, MarkCompleted
    <3>2. CASE RecoverFail(p)
      BY <2>1, <3>2 DEF RecoverFail, MarkFailed, Claims
    <3>3. QED
      BY <1>6, <3>1, <3>2
  <2>4. k \in DOMAIN actions => row.attempts = actions[k].attempts /\ ~row.retryable
    BY <2>2, <2>3 DEF Completed, Failed, Row
  <2>5. QED
    BY <1>6, <2>3, <2>4, WritePlain DEF RecoverFilled, RecoverFail
<1>7. QED
  BY <1>1, <1>3, <1>4, <1>5, <1>6, <1>2 DEF SyncStep, Recover

\* A verdict is read: the attempts are within MaxAttempts if a retry is to come.
LEMMA VerdictCount ==
    ASSUME IsFiniteSet(Users), RowsOK, RowsOK', LocalsOK, Claims, Claims', Counted, NEW p \in Proc,
           NEW k, NEW retry \in BOOLEAN, NEW l,
           \/ l = "failWrite" /\ k = mem[p].job.key
           \/ l = "giveUpWrite" /\ k = mem[p].orig,
           Goto(p, l), mem' = [mem EXCEPT ![p].permanent = Permanent(actions[k], retry)],
           UNCHANGED actions
    PROVE  Counted'
<1>1. PICK permanent \in BOOLEAN : permanent = Permanent(actions[k], retry)
  BY DEF Permanent
<1>2. PICK v : v = [mem[p] EXCEPT !.permanent = permanent]
  OBVIOUS
<1>3. v.orig = mem[p].orig /\ v.job = mem[p].job /\ v.permanent = permanent
  BY <1>2 DEF LocalsOK, Memory
<1>4. Moves(p, l, v)
  BY <1>1, <1>2 DEF Goto, Moves
<1>5. /\ pc'[p] = l /\ mem'[p] = v
      /\ \A q \in Proc \ {p} : pc'[q] = pc[q] /\ mem'[q] = mem[q]
  BY <1>4, Moved
<1>6. ASSUME NEW x \in Scheduling(p)'
      PROVE  x \in DOMAIN actions' /\ actions'[x].attempts < MaxAttempts
  <2>1. x = k /\ permanent = FALSE
    BY <1>3, <1>5, <1>6 DEF Scheduling
  <2>2. x \in DOMAIN actions'
    BY <1>6 DEF Scheduling, Claims, Taken
  <2>3. actions[x].attempts \in Nat /\ MaxAttempts \in Nat
    BY <2>2, AttemptsAssumption DEF RowsOK, ActionsTypeOK, Row
  <2>4. ~Permanent(actions[x], retry)
    BY <1>1, <2>1
  <2>5. QED
    BY <2>2, <2>3, <2>4 DEF Permanent
<1>7. QED
  BY <1>5, <1>6, CountStep

\* A verdict is written: the retries it schedules are those that were within the limit.
LEMMA FailedCount ==
    ASSUME IsFiniteSet(Users), RowsOK, RowsOK', LocalsOK, Claims, Counted, NEW p \in Proc,
           NEW k \in Held(p) \union Taken(p), NEW l, NEW v,
           \/ pc[p] = "failWrite" /\ k = mem[p].job.key
           \/ pc[p] = "giveUpWrite" /\ k = mem[p].orig,
           MarkFailed(k, mem[p].permanent), Moves(p, l, v),
           l \notin {"retryWrite", "failWrite", "giveUpWrite"}
    PROVE  Counted'
<1>1. /\ pc'[p] = l /\ mem'[p] = v
      /\ \A q \in Proc \ {p} : pc'[q] = pc[q] /\ mem'[q] = mem[q]
  BY Moved
<1>2. Scheduling(p)' = {}
  BY <1>1 DEF Scheduling
<1>3. mem[p].permanent \in BOOLEAN
  BY DEF LocalsOK, Memory
<1>4. PICK row : row = Failed(actions[k], mem[p].permanent)
  OBVIOUS
<1>5. k \in DOMAIN actions /\ actions[k] \in Row
  BY DEF Claims, Taken, RowsOK, ActionsTypeOK
<1>6. row.attempts = actions[k].attempts /\ (row.retryable => mem[p].permanent = FALSE)
  BY <1>3, <1>4, <1>5 DEF Failed, Row
<1>7. row.retryable => k \in Scheduling(p)
  BY <1>6 DEF Scheduling
<1>8. actions' = [actions EXCEPT ![k] = row]
  BY <1>4 DEF MarkFailed
<1>9. QED
  BY <1>1, <1>2, <1>5, <1>6, <1>7, <1>8, CountStep

\* Every step of an execution keeps the count.
LEMMA ExecutionCount ==
    ASSUME IsFiniteSet(Users), RowsOK, RowsOK', LocalsOK, Claims, Claims', Counted, NEW p \in Proc,
           ExecutionStep(p)
    PROVE  Counted'
<1>1. CASE Plain(p)
  BY <1>1, PlainCount
<1>2. CASE FailRead(p) /\ mem[p].job.type # "NONE"
  <2>1. mem[p].retry \in BOOLEAN /\ UNCHANGED actions
    BY <1>2 DEF LocalsOK, Memory, FailRead, rows
  <2>2. QED
    BY <1>2, <2>1, VerdictCount DEF FailRead
<1>3. CASE FailClaim(p)
  <2>1. PICK l, v : Moves(p, l, v) /\ l \notin {"retryWrite", "failWrite", "giveUpWrite"}
    <3>1. CASE p \notin Retriers
      BY <1>3, <3>1 DEF FailClaim, Throw, Return, Goto, Moves
    <3>2. CASE p \in Retriers
      BY <1>3, <3>2 DEF FailClaim, Throw, Goto, Moves
    <3>3. QED
      BY <3>1, <3>2
  <2>2. PICK k : k = mem[p].job.key
    OBVIOUS
  <2>3. pc[p] = "failWrite" /\ k \in Held(p) /\ MarkFailed(k, mem[p].permanent)
    BY <1>3, <2>2 DEF FailClaim, LocalsOK, LocalOK, Held, Flight
  <2>4. QED
    BY <2>1, <2>2, <2>3, FailedCount
<1>4. QED
  BY <1>1, <1>2, <1>3, ExecutionPlain

\* One more attempt at an action.
LEMMA ReopenCount ==
    ASSUME IsFiniteSet(Users), RowsOK, RowsOK', LocalsOK, Claims, Counted, NEW p \in Proc,
           NEW k, NEW l, NEW v, Reopen(k), Moves(p, l, v),
           l \notin {"retryWrite", "failWrite", "giveUpWrite"},
           k \in DOMAIN actions => actions[k].status \in Failures \/ p \in Waiting(k)
    PROVE  Counted'
<1>1. /\ pc'[p] = l /\ mem'[p] = v
      /\ \A q \in Proc \ {p} : pc'[q] = pc[q] /\ mem'[q] = mem[q]
  BY Moved
<1>2. Scheduling(p)' = {}
  BY <1>1 DEF Scheduling
<1>3. PICK row : row = Reopened(actions[k])
  OBVIOUS
<1>4. k \in DOMAIN actions => row.attempts = actions[k].attempts + 1 /\ ~row.retryable
  BY <1>3 DEF Reopened, RowsOK, ActionsTypeOK, Row
<1>5. actions' = [actions EXCEPT ![k] = row]
  BY <1>3 DEF Reopen
<1>6. QED
  BY <1>1, <1>2, <1>4, <1>5, CountStep

\* Every step of the retry scheduler keeps the count.
LEMMA RetryCount ==
    ASSUME IsFiniteSet(Users), RowsOK, RowsOK', LocalsOK, Claims, Claims', Counted, NEW p \in Proc,
           RetryStep(p)
    PROVE  Counted'
<1>1. CASE RetryPick(p)
  <2>1. \A q \in Proc \ {p} : mem'[q] = mem[q]
    BY <1>1 DEF RetryPick, LocalsOK
  <2>2. QED
    BY <1>1, <2>1, GotoPlain, PlainCount DEF RetryPick, rows
<1>2. CASE RetryClaim(p)
  <2>1. PICK k, l, v : /\ k = mem[p].orig /\ v = mem[p]
                       /\ l = IF mem[p].order.status \in LiveOrder THEN "giveUp" ELSE "start"
    OBVIOUS
  <2>2. Moves(p, l, v) /\ Reopen(k) /\ actions[k].status \in Failures
    BY <1>2, <2>1 DEF RetryClaim, RetryDue, Moves, Goto, LocalsOK, Failures
  <2>3. l \notin {"retryWrite", "failWrite", "giveUpWrite"}
    BY <2>1
  <2>4. QED
    BY <2>2, <2>3, ReopenCount
<1>3. CASE RetryGone(p)
  BY <1>3, ReturnPlain, PlainCount DEF RetryGone, rows
<1>4. CASE GiveUpRead(p)
  <2>1. mem[p].retry \in BOOLEAN /\ UNCHANGED actions
    BY <1>4 DEF LocalsOK, Memory, GiveUpRead, rows
  <2>2. QED
    BY <1>4, <2>1, VerdictCount DEF GiveUpRead
<1>5. CASE GiveUp(p)
  <2>1. PICK k : k = mem[p].orig
    OBVIOUS
  <2>2. Moves(p, "idle", Blank) /\ MarkFailed(k, mem[p].permanent) /\ pc[p] = "giveUpWrite"
    BY <1>5, <2>1 DEF GiveUp, Return, Goto, Moves
  <2>3. CASE k = NoKey
    <3>1. UNCHANGED actions
      BY <2>2, <2>3, NoKeyAssumption DEF MarkFailed, RowsOK, ActionsTypeOK
    <3>2. QED
      BY <1>5, <3>1, ReturnPlain, PlainCount DEF GiveUp
  <2>4. CASE k # NoKey
    <3>1. k \in Taken(p)
      BY <2>1, <2>2, <2>4 DEF Taken, Orig, Writes, Recoveries
    <3>2. QED
      BY <2>1, <2>2, <3>1, FailedCount
  <2>5. QED
    BY <2>3, <2>4
<1>6. QED
  BY <1>1, <1>2, <1>3, <1>4, <1>5 DEF RetryStep

\* Every request of the owner keeps the count: a manual retry is only asked for
\* when nobody is about to schedule one.
LEMMA RequestCount ==
    ASSUME IsFiniteSet(Users), RowsOK, RowsOK', LocalsOK, Claims, Counted, NEW p \in Proc,
           RequestStep(p)
    PROVE  Counted'
<1>1. ASSUME NEW job, Request(p, job) PROVE Counted'
  <2>1. \A q \in Proc \ {p} : mem'[q] = mem[q]
    BY <1>1 DEF Request, LocalsOK
  <2>2. QED
    BY <1>1, <2>1, GotoPlain, PlainCount DEF Request, rows
<1>2. CASE RequestOrder(p) \/ RequestClose(p)
  <2>1. pc[p] = "idle" /\ \E job : Request(p, job)
    <3>1. CASE RequestOrder(p)
      BY <3>1 DEF RequestOrder, Asks
    <3>2. CASE RequestClose(p)
      BY <3>2 DEF RequestClose, Asks
    <3>3. QED
      BY <1>2, <3>1, <3>2
  <2>2. QED
    BY <1>1, <2>1
<1>3. CASE RequestRetry(p)
  <2>1. PICK k \in DOMAIN actions :
           actions[k].status \in Failures /\ mem' = [mem EXCEPT ![p].orig = k]
    BY <1>3 DEF RequestRetry, Failures
  <2>2. PICK v : v = [mem[p] EXCEPT !.orig = k]
    OBVIOUS
  <2>3. Moves(p, "retryWrite", v) /\ v.orig = k
    BY <1>3, <2>1, <2>2 DEF RequestRetry, Goto, Moves, LocalsOK, Memory
  <2>4. /\ pc'[p] = "retryWrite" /\ mem'[p] = v
        /\ \A q \in Proc \ {p} : pc'[q] = pc[q] /\ mem'[q] = mem[q]
    BY <2>3, Moved
  <2>5. Scheduling(p)' = {} /\ p \in Users /\ UNCHANGED actions
    BY <1>3, <2>4 DEF Scheduling, RequestRetry, Asks, rows
  <2>6. QED
    BY <2>1, <2>3, <2>4, <2>5, CountStep
<1>4. CASE ManualRetry(p)
  <2>1. PICK k : k = mem[p].orig
    OBVIOUS
  <2>2. Moves(p, "idle", Blank) /\ Reopen(k)
    BY <1>4, <2>1 DEF ManualRetry, Return, Goto, Moves
  <2>3. p \in Waiting(k)
    BY <1>4, <2>1 DEF ManualRetry, Waiting, Counted
  <2>4. QED
    BY <2>2, <2>3, ReopenCount
<1>5. CASE RequestCancel(p)
  <2>1. \A q \in Proc \ {p} : mem'[q] = mem[q]
    BY <1>5 DEF RequestCancel, LocalsOK
  <2>2. QED
    BY <1>5, <2>1, GotoPlain, PlainCount DEF RequestCancel, rows
<1>6. CASE ManualCancel(p)
  <2>1. PICK k, row : k = mem[p].orig /\ row = Cancelled(actions[k])
    OBVIOUS
  <2>2. k \in DOMAIN actions => row.attempts = actions[k].attempts /\ ~row.retryable
    BY <2>1 DEF Cancelled, RowsOK, ActionsTypeOK, Row
  <2>3. actions' = [actions EXCEPT ![k] = row]
    BY <1>6, <2>1 DEF ManualCancel, CancelRetry
  <2>4. QED
    BY <1>6, <2>2, <2>3, WritePlain, PlainCount DEF ManualCancel
<1>7. QED
  BY <1>2, <1>3, <1>4, <1>5, <1>6 DEF RequestStep

\* Every step keeps the count.
LEMMA NextCount ==
    ASSUME IsFiniteSet(Users), Claiming, Claiming', Counted, [Next]_vars
    PROVE  Counted'
<1>1. RowsOK /\ LocalsOK /\ Claims /\ RowsOK' /\ Claims'
  BY DEF Claiming, Linked
<1>2. ASSUME NEW p \in Proc, TickStep(p) \/ SyncStep(p) \/ StopStep(p) PROVE Counted'
  BY <1>1, <1>2, TickPlain, SyncPlain, StopPlain, PlainCount
<1>3. ASSUME NEW p \in Proc, ExecutionStep(p) PROVE Counted'
  BY <1>1, <1>3, ExecutionCount
<1>4. ASSUME NEW p \in Proc, RetryStep(p) PROVE Counted'
  BY <1>1, <1>4, RetryCount
<1>5. ASSUME NEW p \in Proc, RequestStep(p) PROVE Counted'
  BY <1>1, <1>5, RequestCount
<1>6. ASSUME NEW p \in Proc, Crash(p) PROVE Counted'
  BY <1>1, <1>6, ReturnPlain, PlainCount DEF Crash, rows
<1>7. CASE UNCHANGED <<actions, pc, mem>>
  BY <1>7 DEF Counted, Scheduling, Held, Taken, Orig, Waiting
<1>8. CASE SetStatus \/ UNCHANGED vars
  BY <1>7, <1>8 DEF SetStatus, vars
<1>9. ASSUME NEW o, ExchangeFills(o) \/ ExchangeEnds(o) PROVE Counted'
  BY <1>7, <1>9 DEF ExchangeFills, ExchangeEnds, rows
<1>10. QED
  BY <1>2, <1>3, <1>4, <1>5, <1>6, <1>8, <1>9 DEF Next

\* A retry is scheduled beyond MaxAttempts only as far as manual retries were under
\* way that markFailed did not see: at most one for each concurrent request.
THEOREM RetryBound ==
    ASSUME IsFiniteSet(Users)
    PROVE  Spec => []RetryWithinAttempts
<1>1. Init => Counted
  BY DEF Init, Counted, Scheduling
<1>2. Claiming /\ Claiming' /\ Counted /\ [Next]_vars => Counted'
  BY NextCount
<1>3. Counted => RetryWithinAttempts
  BY DEF Counted, Limit, RetryWithinAttempts
<1>4. QED
  BY <1>1, <1>2, <1>3, ClaimsHold, PTL DEF Spec

-----------------------------------------------------------------------------
(* The rows of the order table *)

\* What was known of an order as x may by now have become y: an order executes
\* forwards, and one that has ended stays as it is.
Behind(x, y) ==
    /\ x.executed <= y.executed
    /\ x.status \notin Working => y.status \notin Working /\ y.executed = x.executed

\* What an order row may say of the order on the exchange.  Only the emergency
\* stop makes a row final without its fills.
Booked(order, x) ==
    /\ order.accounted <= x.executed
    /\ order.status \notin LiveOrder => x.status \notin Working
    /\ order.status \notin LiveOrder /\ "stop" \notin Requests => order.accounted = x.executed

\* What an activity at l with locals v knows of the exchange may be old, never wrong.
Informed(l, v) ==
    /\ l = "commit" => Behind(v.ack, exchange[v.oid])
    /\ l \in {"fetch", "apply"} => v.order.accounted <= exchange[v.oid].executed
    /\ l = "apply" => Behind(v.ack, exchange[v.oid])
    /\ l \in {"stopList", "stopping"} => "stop" \in Requests
    /\ l \in {"idle", "stopList"} => v.acks = {}
    /\ l = "stopping" => /\ v.todo \subseteq DOMAIN orders
                         /\ v.acks \subseteq {o \in DOMAIN orders : exchange[o].status \notin Working}

Following ==
    /\ \A o \in DOMAIN orders : Booked(orders[o], exchange[o])
    /\ \A q \in Proc : Informed(pc[q], mem[q])


-----------------------------------------------------------------------------
(* The exchange goes forwards *)

\* Every order stays on the exchange, and is what it was or further.
Forward == \A o \in DOMAIN exchange : o \in DOMAIN exchange' /\ Behind(exchange[o], exchange'[o])

\* An order is not behind itself.
LEMMA BehindSelf == \A x \in ExchangeOrder : Behind(x, x)
BY DEF Behind, ExchangeOrder

\* What was behind still is when the exchange has gone on.
LEMMA BehindOn ==
    ASSUME NEW x \in ExchangeOrder, NEW y \in ExchangeOrder, NEW z \in ExchangeOrder,
           Behind(x, y), Behind(y, z)
    PROVE  Behind(x, z)
BY DEF Behind, ExchangeOrder

\* A working order is behind whatever becomes of it.
LEMMA WorkingOn ==
    ASSUME RowsOK, NEW o \in DOMAIN exchange, exchange[o].status \in Working, NEW r,
           exchange' = [exchange EXCEPT ![o] = r], exchange[o].executed <= r.executed
    PROVE  Forward
<1>1. \A i \in DOMAIN exchange : Behind(exchange[i], exchange[i])
  BY BehindSelf DEF RowsOK
<1>2. Behind(exchange[o], r)
  BY DEF Behind
<1>3. exchange \in Seq(ExchangeOrder)
  BY DEF RowsOK
<1>4. DOMAIN exchange' = DOMAIN exchange
      /\ \A i \in DOMAIN exchange : exchange'[i] = IF i = o THEN r ELSE exchange[i]
  BY <1>3
<1>5. QED
  BY <1>1, <1>2, <1>4 DEF Forward

\* Nothing happens on the exchange.
LEMMA ForwardStill == RowsOK /\ UNCHANGED exchange => Forward
BY BehindSelf DEF RowsOK, Forward

\* It takes an order.
LEMMA ForwardAccept ==
    ASSUME RowsOK, NEW p \in Proc, Accept(p)
    PROVE  Forward
<1>1. PICK o : exchange' = Append(exchange, o)
  BY DEF Accept
<1>2. DOMAIN exchange \subseteq DOMAIN exchange'
      /\ \A i \in DOMAIN exchange : exchange'[i] = exchange[i]
  BY <1>1 DEF RowsOK
<1>3. \A i \in DOMAIN exchange : exchange[i] \in ExchangeOrder
  BY DEF RowsOK
<1>4. QED
  BY <1>2, <1>3, BehindSelf DEF Forward

\* It executes an order, ends it, or cancels it when asked to.
LEMMA ForwardWorking ==
    ASSUME RowsOK,
           \/ \E o \in DOMAIN exchange : ExchangeFills(o) \/ ExchangeEnds(o)
           \/ \E o \in DOMAIN exchange :
                 /\ exchange[o].status \in Working
                 /\ exchange' = [exchange EXCEPT ![o].status = "CANCELED"]
    PROVE  Forward
<1>1. PICK o \in DOMAIN exchange :
         \/ ExchangeFills(o) \/ ExchangeEnds(o)
         \/ exchange[o].status \in Working /\ exchange' = [exchange EXCEPT ![o].status = "CANCELED"]
  OBVIOUS
<1>2. exchange[o] \in ExchangeOrder /\ exchange[o].executed \in Nat /\ exchange[o].qty \in Nat
  <2>1. exchange[o] \in ExchangeOrder
    BY DEF RowsOK
  <2>2. QED
    BY <2>1 DEF ExchangeOrder
<1>3. CASE ExchangeFills(o)
  <2>1. PICK e \in exchange[o].executed + 1 .. exchange[o].qty :
           exchange' = [exchange EXCEPT
              ![o].executed = e,
              ![o].status = IF e = exchange[o].qty THEN "FILLED" ELSE "PARTIALLY_FILLED"]
    BY <1>3 DEF ExchangeFills
  <2> DEFINE r == [exchange[o] EXCEPT
              !.executed = e, !.status = IF e = exchange[o].qty THEN "FILLED" ELSE "PARTIALLY_FILLED"]
  <2>2. exchange' = [exchange EXCEPT ![o] = r] /\ r.executed = e
    BY <1>2, <2>1 DEF ExchangeOrder
  <2> HIDE DEF r
  <2>3. exchange[o].executed <= r.executed
    BY <1>2, <2>1, <2>2
  <2>4. QED
    BY <1>3, <2>2, <2>3, WorkingOn DEF ExchangeFills
<1>4. ASSUME NEW s, exchange[o].status \in Working, exchange' = [exchange EXCEPT ![o].status = s]
      PROVE  Forward
  <2> DEFINE r == [exchange[o] EXCEPT !.status = s]
  <2>1. exchange' = [exchange EXCEPT ![o] = r] /\ r.executed = exchange[o].executed
    BY <1>2, <1>4 DEF ExchangeOrder
  <2> HIDE DEF r
  <2>2. exchange[o].executed <= r.executed
    BY <1>2, <2>1
  <2>3. QED
    BY <1>4, <2>1, <2>2, WorkingOn
<1>5. QED
  BY <1>1, <1>3, <1>4 DEF ExchangeEnds

-----------------------------------------------------------------------------
(* Steps of the activities *)

\* Places where an activity knows something of the exchange.
Informants == {"commit", "fetch", "apply", "stopList", "stopping"}

\* p goes to l with locals v.
Goes(p, l, v) == pc' = [pc EXCEPT ![p] = l] /\ mem' = [mem EXCEPT ![p] = v]

\* A step of p to a place where it knows nothing, which leaves the order rows alone.
Aside(p) == /\ \E l, v : l \notin Informants /\ (l = "idle" => v = Blank) /\ Goes(p, l, v)
            /\ UNCHANGED orders

\* Coming to rest, dying and throwing are such steps.
LEMMA ReturnAside == ASSUME NEW p, Return(p), UNCHANGED orders PROVE Aside(p)
BY DEF Return, Goto, Goes, Aside, Informants

LEMMA ThrowAside ==
    ASSUME NEW p, NEW retry, Throw(p, retry), UNCHANGED orders
    PROVE  Aside(p)
<1>1. CASE p \notin Retriers
  BY <1>1, ReturnAside DEF Throw
<1>2. CASE p \in Retriers
  BY <1>2 DEF Throw, Goto, Goes, Aside, Informants
<1>3. QED
  BY <1>1, <1>2

\* p keeps its locals ...
LEMMA KeepAside ==
    ASSUME LocalsOK, NEW p \in Proc, NEW l, l \notin Informants \union {"idle"}, Goto(p, l),
           UNCHANGED <<orders, mem>>
    PROVE  Aside(p)
<1>1. Goes(p, l, mem[p])
  BY DEF Goto, Goes, LocalsOK
<1>2. QED
  BY <1>1 DEF Aside

\* ... or changes them.
LEMMA GoAside ==
    ASSUME NEW p \in Proc, NEW l, NEW v, l \notin Informants \union {"idle"}, Goto(p, l),
           mem' = [mem EXCEPT ![p] = v], UNCHANGED orders
    PROVE  Aside(p)
BY DEF Goto, Goes, Aside

\* The steps of a tick and of a retry.
LEMMA TickAside ==
    ASSUME LocalsOK, NEW p \in Proc, TickStep(p)
    PROVE  Aside(p) /\ UNCHANGED exchange
<1>1. CASE TickDecide(p)
  <2>1. PICK job : mem' = [mem EXCEPT ![p].job = job]
    BY <1>1 DEF TickDecide
  <2>2. PICK v : v = [mem[p] EXCEPT !.job = job]
    OBVIOUS
  <2>3. QED
    BY <1>1, <2>1, <2>2, GoAside DEF TickDecide, rows, Informants
<1>2. CASE TickSkip(p)
  BY <1>2, ReturnAside DEF TickSkip, rows
<1>3. CASE TickExecute(p)
  BY <1>3, KeepAside DEF TickExecute, rows, Informants
<1>4. QED
  BY <1>1, <1>2, <1>3 DEF TickStep

LEMMA RetryAside ==
    ASSUME LocalsOK, NEW p \in Proc, RetryStep(p)
    PROVE  Aside(p) /\ UNCHANGED exchange
<1>1. CASE RetryPick(p)
  <2>1. PICK k : \E job : mem' = [mem EXCEPT ![p].orig = k, ![p].order = OrderOf(k), ![p].job = job]
    BY <1>1, Zenon DEF RetryPick
  <2>2. PICK job : mem' = [mem EXCEPT ![p].orig = k, ![p].order = OrderOf(k), ![p].job = job]
    BY <2>1
  <2>3. PICK v : v = [mem[p] EXCEPT !.orig = k, !.order = OrderOf(k), !.job = job]
    OBVIOUS
  <2>4. mem' = [mem EXCEPT ![p] = v]
    BY <2>2, <2>3
  <2>5. Goto(p, "claimRetry") /\ UNCHANGED <<orders, exchange>>
    BY <1>1 DEF RetryPick, rows
  <2>6. QED
    BY <2>4, <2>5, GoAside DEF Informants
<1>2. CASE RetryClaim(p)
  <2>1. PICK l : l = IF mem[p].order.status \in LiveOrder THEN "giveUp" ELSE "start"
    OBVIOUS
  <2>2. QED
    BY <1>2, <2>1, KeepAside DEF RetryClaim, Informants
<1>3. CASE RetryGone(p)
  BY <1>3, ReturnAside DEF RetryGone, rows
<1>4. CASE GiveUpRead(p)
  <2>1. PICK v : v = [mem[p] EXCEPT !.permanent = Permanent(actions[mem[p].orig], mem[p].retry)]
    OBVIOUS
  <2>2. QED
    BY <1>4, <2>1, GoAside DEF GiveUpRead, rows, Informants
<1>5. CASE GiveUp(p)
  BY <1>5, ReturnAside DEF GiveUp
<1>6. QED
  BY <1>1, <1>2, <1>3, <1>4, <1>5 DEF RetryStep

\* The steps of an execution other than those with an answer of the exchange in hand.
LEMMA ExecutionAside ==
    ASSUME LocalsOK, NEW p \in Proc, ExecutionStep(p)
    PROVE  \/ Aside(p) /\ (UNCHANGED exchange \/ PlaceLost(p))
           \/ Place(p) \/ Commit(p)
<1>1. CASE Refuse(p) \/ RefuseClaim(p)
  BY <1>1, ThrowAside DEF Refuse, RefuseClaim, rows
<1>2. CASE Admit(p)
  <2>1. PICK id : mem' = [mem EXCEPT ![p].pos = id, ![p].row = RowOf(id),
                                     ![p].sub = SubOf(id, mem[p].job.level)]
    BY <1>2 DEF Admit
  <2>2. PICK v, l : /\ v = [mem[p] EXCEPT !.pos = id, !.row = RowOf(id),
                                          !.sub = SubOf(id, mem[p].job.level)]
                    /\ l = IF mem[p].job.type = "NONE" THEN "place" ELSE "claim"
    OBVIOUS
  <2>3. mem' = [mem EXCEPT ![p] = v]
    BY <2>1, <2>2
  <2>4. Goto(p, l) /\ UNCHANGED <<orders, exchange>>
    BY <1>2, <2>2 DEF Admit, rows
  <2>5. l \notin Informants \union {"idle"}
    BY <2>2 DEF Informants
  <2>6. QED
    BY <2>3, <2>4, <2>5, GoAside
<1>3. CASE Duplicate(p)
  BY <1>3, ReturnAside DEF Duplicate, rows
<1>4. CASE PassClaim(p) \/ CreateAction(p)
  BY <1>4, KeepAside DEF PassClaim, CreateAction, rows, Informants
<1>5. CASE PlaceLost(p) \/ PlaceRefused(p) \/ CommitFails(p)
  <2>1. PICK retry : mem' = [mem EXCEPT ![p].retry = retry]
    BY <1>5 DEF PlaceLost, PlaceRefused, CommitFails
  <2>2. PICK v : v = [mem[p] EXCEPT !.retry = retry]
    OBVIOUS
  <2>3. QED
    BY <1>5, <2>1, <2>2, GoAside DEF PlaceLost, PlaceRefused, CommitFails, Accept, rows, Informants
<1>6. CASE FailRead(p)
  <2>1. CASE mem[p].job.type = "NONE"
    BY <1>6, <2>1, ThrowAside DEF FailRead, rows
  <2>2. CASE mem[p].job.type # "NONE"
    <3>1. PICK v : v = [mem[p] EXCEPT !.permanent =
                           Permanent(actions[mem[p].job.key], mem[p].retry)]
      OBVIOUS
    <3>2. QED
      BY <1>6, <2>2, <3>1, GoAside DEF FailRead, rows, Informants
  <2>3. QED
    BY <2>1, <2>2
<1>7. CASE FailClaim(p)
  BY <1>7, ThrowAside DEF FailClaim
<1>8. QED
  BY <1>1, <1>2, <1>3, <1>4, <1>5, <1>6, <1>7 DEF ExecutionStep

\* The owner's requests.
LEMMA RequestAside ==
    ASSUME LocalsOK, NEW p \in Proc, RequestStep(p)
    PROVE  Aside(p) /\ UNCHANGED exchange
<1>1. ASSUME NEW job, Request(p, job) PROVE Aside(p) /\ UNCHANGED exchange
  <2>1. PICK v : v = [mem[p] EXCEPT !.job = job]
    OBVIOUS
  <2>2. QED
    BY <1>1, <2>1, GoAside DEF Request, rows, Informants
<1>2. CASE RequestOrder(p)
  BY <1>1, <1>2 DEF RequestOrder
<1>3. CASE RequestClose(p)
  BY <1>1, <1>3 DEF RequestClose
<1>4. CASE RequestRetry(p) \/ RequestCancel(p)
  <2>1. PICK k : mem' = [mem EXCEPT ![p].orig = k]
    BY <1>4 DEF RequestRetry, RequestCancel
  <2>2. PICK v : v = [mem[p] EXCEPT !.orig = k]
    OBVIOUS
  <2>3. QED
    BY <1>4, <2>1, <2>2, GoAside DEF RequestRetry, RequestCancel, rows, Informants
<1>5. CASE ManualRetry(p) \/ ManualCancel(p)
  BY <1>5, ReturnAside DEF ManualRetry, ManualCancel
<1>6. QED
  BY <1>2, <1>3, <1>4, <1>5 DEF RequestStep

\* The sync scheduler.
LEMMA SyncAside ==
    ASSUME LocalsOK, NEW p \in Proc, SyncStep(p)
    PROVE  \/ Aside(p) /\ UNCHANGED exchange
           \/ \E o \in DOMAIN orders : SyncRead(p, o)
           \/ SyncFetch(p) \/ SyncApply(p)
<1>1. CASE SyncFails(p)
  BY <1>1, ReturnAside DEF SyncFails, rows
<1>2. ASSUME NEW k \in DOMAIN actions, RecoverRead(p, k) PROVE Aside(p) /\ UNCHANGED exchange
  <2>1. PICK v : v = [mem[p] EXCEPT !.orig = k, !.order = OrderOf(k)]
    OBVIOUS
  <2>2. QED
    BY <1>2, <2>1, GoAside DEF RecoverRead, rows, Informants
<1>3. CASE RecoverFilled(p) \/ RecoverFail(p)
  BY <1>3, ReturnAside DEF RecoverFilled, RecoverFail
<1>4. CASE RecoverEnded(p)
  <2>1. PICK v : v = [mem[p] EXCEPT !.permanent = Permanent(actions[mem[p].orig], FALSE)]
    OBVIOUS
  <2>2. QED
    BY <1>4, <2>1, GoAside DEF RecoverEnded, rows, Informants
<1>5. QED
  BY <1>1, <1>2, <1>3, <1>4 DEF SyncStep, Recover

\* What a step may be, as far as the order rows and the exchange are concerned.
LEMMA Steps ==
    ASSUME LocalsOK, [Next]_vars
    PROVE  \/ \E p \in Proc :
                 \/ Aside(p) /\ (UNCHANGED exchange \/ PlaceLost(p))
                 \/ Place(p) \/ Commit(p)
                 \/ \E o \in DOMAIN orders : SyncRead(p, o)
                 \/ SyncFetch(p) \/ SyncApply(p)
                 \/ StopRows(p) \/ StopList(p) \/ StopCancel(p) \/ StopWrite(p)
           \/ UNCHANGED <<orders, pc, mem, exchange>>
           \/ /\ UNCHANGED <<orders, pc, mem>>
              /\ \E o \in DOMAIN exchange : ExchangeFills(o) \/ ExchangeEnds(o)
<1>1. ASSUME NEW p \in Proc, Crash(p) \/ StopDone(p) PROVE Aside(p) /\ UNCHANGED exchange
  BY <1>1, ReturnAside DEF Crash, StopDone, rows
<1>2. CASE SetStatus \/ UNCHANGED vars
  BY <1>2 DEF SetStatus, vars
<1>3. CASE \E o \in DOMAIN exchange : ExchangeFills(o) \/ ExchangeEnds(o)
  BY <1>3 DEF ExchangeFills, ExchangeEnds, rows
<1>4. CASE \E p \in Proc : TickStep(p) \/ RetryStep(p) \/ RequestStep(p)
  BY <1>4, TickAside, RetryAside, RequestAside
<1>5. CASE \E p \in Proc : ExecutionStep(p)
  BY <1>5, ExecutionAside
<1>6. CASE \E p \in Proc : SyncStep(p)
  BY <1>6, SyncAside
<1>7. CASE \E p \in Proc : StopStep(p) \/ Crash(p)
  BY <1>1, <1>7 DEF StopStep
<1>8. QED
  BY <1>2, <1>3, <1>4, <1>5, <1>6, <1>7 DEF Next

\* Whatever happens, the exchange goes forwards.
LEMMA AlwaysForward ==
    ASSUME RowsOK, LocalsOK, Following, [Next]_vars
    PROVE  Forward
<1>1. ASSUME NEW p \in Proc, Place(p) \/ PlaceLost(p) PROVE Forward
  BY <1>1, ForwardAccept DEF Place, PlaceLost
<1>2. ASSUME NEW p \in Proc, StopCancel(p) PROVE Forward
  <2>1. PICK o \in mem[p].todo :
           \/ exchange[o].status \in Working /\ exchange' = [exchange EXCEPT ![o].status = "CANCELED"]
           \/ UNCHANGED exchange
    BY <1>2 DEF StopCancel
  <2>2. o \in DOMAIN exchange
    BY <1>2 DEF StopCancel, Following, Informed, RowsOK
  <2>3. QED
    BY <2>1, <2>2, ForwardWorking, ForwardStill
<1>3. ASSUME NEW p \in Proc,
             \/ Commit(p) \/ SyncFetch(p) \/ SyncApply(p) \/ StopRows(p) \/ StopList(p) \/ StopWrite(p)
             \/ \E o \in DOMAIN orders : SyncRead(p, o)
      PROVE  Forward
  BY <1>3, ForwardStill DEF Commit, SyncFetch, SyncApply, StopRows, StopList, StopWrite, SyncRead
<1>4. QED
  BY <1>1, <1>2, <1>3, Steps, ForwardStill, ForwardWorking

-----------------------------------------------------------------------------
(* The books follow *)

\* What a row may say of an order it may still say when the order has gone on.
LEMMA BookedOn ==
    ASSUME NEW r \in Order, NEW x \in ExchangeOrder, NEW y \in ExchangeOrder,
           Booked(r, x), Behind(x, y)
    PROVE  Booked(r, y)
BY DEF Booked, Behind, Order, ExchangeOrder

\* A row that is left alone still says nothing wrong.
LEMMA RowsFollow ==
    ASSUME RowsOK, RowsOK', Following, Forward, NEW o \in DOMAIN orders, o \in DOMAIN orders',
           orders'[o] = orders[o]
    PROVE  Booked(orders'[o], exchange'[o])
<1>1. /\ o \in DOMAIN exchange /\ orders[o] \in Order
      /\ exchange[o] \in ExchangeOrder /\ exchange'[o] \in ExchangeOrder
  BY DEF RowsOK
<1>2. Booked(orders[o], exchange[o]) /\ Behind(exchange[o], exchange'[o])
  BY <1>1 DEF Following, Forward
<1>3. QED
  BY <1>1, <1>2, BookedOn

\* An activity at l with locals v that stands still knows what it knew.
LEMMA InformedOn ==
    ASSUME RowsOK, RowsOK', Forward, DOMAIN orders \subseteq DOMAIN orders',
           NEW l, NEW v, LocalOK(l, v), Informed(l, v)
    PROVE  Informed(l, v)'
<1>1. ASSUME NEW o \in DOMAIN exchange
      PROVE  /\ exchange[o] \in ExchangeOrder /\ exchange'[o] \in ExchangeOrder
             /\ Behind(exchange[o], exchange'[o])
  BY DEF RowsOK, Forward
<1>2. v.ack \in ExchangeOrder /\ v.order \in Order
  BY DEF LocalOK, Memory
<1>3. ASSUME l \in {"commit", "apply"} PROVE Behind(v.ack, exchange[v.oid])'
  <2>1. v.oid \in DOMAIN exchange /\ Behind(v.ack, exchange[v.oid])
    BY <1>3 DEF LocalOK, Informed, RowsOK
  <2>2. QED
    BY <1>1, <1>2, <2>1, BehindOn
<1>4. ASSUME l \in {"fetch", "apply"} PROVE v.order.accounted <= exchange'[v.oid].executed
  <2>1. v.oid \in DOMAIN exchange /\ v.order.accounted <= exchange[v.oid].executed
    BY <1>4 DEF LocalOK, Informed, RowsOK
  <2>2. exchange[v.oid].executed <= exchange'[v.oid].executed
    BY <1>1, <2>1 DEF Behind
  <2>3. v.order.accounted \in Nat /\ exchange[v.oid].executed \in Nat
        /\ exchange'[v.oid].executed \in Nat
    BY <1>1, <1>2, <2>1 DEF ExchangeOrder, Order
  <2>4. QED
    BY <2>1, <2>2, <2>3
<1>5. ASSUME l = "stopping"
      PROVE  /\ v.todo \subseteq DOMAIN orders'
             /\ v.acks \subseteq {o \in DOMAIN orders' : exchange'[o].status \notin Working}
  BY <1>1, <1>5 DEF Informed, Behind, RowsOK
<1>6. QED
  BY <1>3, <1>4, <1>5 DEF Informed

\* A step of p to l with locals v.
LEMMA FollowStep ==
    ASSUME RowsOK, LocalsOK, Following, RowsOK', Forward,
           DOMAIN orders \subseteq DOMAIN orders',
           NEW p \in Proc, NEW l, NEW v, Goes(p, l, v), Informed(l, v)',
           \A o \in DOMAIN orders' :
              (o \in DOMAIN orders /\ orders'[o] = orders[o]) \/ Booked(orders'[o], exchange'[o])
    PROVE  Following'
<1>1. ASSUME NEW q \in Proc PROVE Informed(pc[q], mem[q])'
  <2>1. CASE q = p
    BY <2>1 DEF Goes, LocalsOK
  <2>2. CASE q # p
    <3>1. PICK k, u : k = pc[q] /\ u = mem[q]
      OBVIOUS
    <3>2. LocalOK(k, u) /\ Informed(k, u)
      BY <3>1 DEF LocalsOK, Following
    <3>3. pc'[q] = k /\ mem'[q] = u
      BY <2>2, <3>1 DEF Goes, LocalsOK
    <3>4. QED
      BY <3>2, <3>3, InformedOn
  <2>3. QED
    BY <2>1, <2>2
<1>2. ASSUME NEW o \in DOMAIN orders' PROVE Booked(orders[o], exchange[o])'
  BY RowsFollow
<1>3. QED
  BY <1>1, <1>2 DEF Following

\* A step aside.
LEMMA AsideFollows ==
    ASSUME RowsOK, LocalsOK, Following, RowsOK', Forward, NEW p \in Proc, Aside(p)
    PROVE  Following'
<1>1. PICK l, v : l \notin Informants /\ (l = "idle" => v = Blank) /\ Goes(p, l, v)
  BY DEF Aside
<1>2. Informed(l, v)'
  BY <1>1 DEF Informed, Informants, Blank
<1>3. QED
  BY <1>1, <1>2, FollowStep DEF Aside

\* No activity moves, and no row changes.
LEMMA StillFollows ==
    ASSUME RowsOK, LocalsOK, Following, RowsOK', Forward, UNCHANGED <<orders, pc, mem>>
    PROVE  Following'
<1>1. ASSUME NEW q \in Proc PROVE Informed(pc[q], mem[q])'
  <2>1. PICK k, u : k = pc[q] /\ u = mem[q]
    OBVIOUS
  <2>2. LocalOK(k, u) /\ Informed(k, u)
    BY <2>1 DEF LocalsOK, Following
  <2>3. pc'[q] = k /\ mem'[q] = u
    BY <2>1
  <2>4. QED
    BY <2>2, <2>3, InformedOn
<1>2. ASSUME NEW o \in DOMAIN orders' PROVE Booked(orders[o], exchange[o])'
  BY RowsFollow
<1>3. QED
  BY <1>1, <1>2 DEF Following

\* The answer to a new order tells what has become of it.
LEMMA PlaceFollows ==
    ASSUME RowsOK, LocalsOK, Following, RowsOK', Forward, NEW p \in Proc, Place(p)
    PROVE  Following'
<1>1. PICK n, ack : n = Len(exchange') /\ ack = exchange'[n]
  OBVIOUS
<1>2. ack \in ExchangeOrder /\ UNCHANGED orders
  BY <1>1, AcceptOK DEF Place, rows
<1>3. PICK v : v = [mem[p] EXCEPT !.oid = n, !.ack = ack]
  OBVIOUS
<1>4. v.oid = n /\ v.ack = ack /\ Goes(p, "commit", v)
  BY <1>1, <1>3 DEF Place, Goto, Goes, LocalsOK, Memory
<1>5. Informed("commit", v)'
  BY <1>1, <1>2, <1>4, BehindSelf DEF Informed
<1>6. QED
  BY <1>2, <1>4, <1>5, FollowStep

\* An order row is written from an answer, however old.
LEMMA WriteFollows ==
    ASSUME NEW ack \in ExchangeOrder, NEW x \in ExchangeOrder, Behind(ack, x), NEW n \in Nat,
           n <= x.executed, NEW r,
           r.status = MapStatus(ack.status), r.accounted = n + Less(ack.executed, n)
    PROVE  Booked(r, x)
<1>1. r.status \in LiveOrder <=> ack.status \in Working
  BY DEF MapStatus, LiveOrder, ExchangeOrder, Working
<1>2. /\ r.accounted <= x.executed
      /\ x.executed = ack.executed => r.accounted = x.executed
  BY DEF Less, Behind, ExchangeOrder
<1>3. QED
  BY <1>1, <1>2 DEF Booked, Behind

\* The order row is created with the answer in hand.
LEMMA CommitFollows ==
    ASSUME RowsOK, LocalsOK, Following, RowsOK', Forward, NEW p \in Proc, Commit(p)
    PROVE  Following'
<1>1. PICK m : m = mem[p]
  OBVIOUS
<1>2. m.oid \in DOMAIN exchange /\ m.ack \in ExchangeOrder /\ UNCHANGED exchange
      /\ Behind(m.ack, exchange[m.oid]) /\ exchange[m.oid] \in ExchangeOrder
  <2>1. m.oid \in DOMAIN exchange /\ m.ack \in ExchangeOrder
    BY <1>1 DEF Commit, LocalsOK, LocalOK, Memory
  <2>2. exchange[m.oid] \in ExchangeOrder
    BY <2>1 DEF RowsOK
  <2>3. QED
    BY <1>1, <2>1, <2>2 DEF Commit, Following, Informed
<1>3. PICK r : /\ orders' = Put(orders, m.oid, r)
               /\ r.status = MapStatus(m.ack.status) /\ r.accounted = m.ack.executed
  BY <1>1 DEF Commit
<1>4. r.accounted = 0 + Less(m.ack.executed, 0)
  BY <1>2, <1>3 DEF Less, ExchangeOrder
<1>5. 0 <= exchange[m.oid].executed
  BY <1>2 DEF ExchangeOrder
<1>6. Booked(r, exchange[m.oid])
  BY <1>2, <1>3, <1>4, <1>5, WriteFollows
<1>7. /\ DOMAIN orders' = DOMAIN orders \union {m.oid}
      /\ \A o \in DOMAIN orders' : orders'[o] = IF o = m.oid THEN r ELSE orders[o]
  BY <1>3 DEF Put
<1>8. Goes(p, "idle", Blank)
  BY DEF Commit, Return, Goto, Goes
<1>9. Informed("idle", Blank)'
  BY DEF Informed, Blank
<1>10. \A o \in DOMAIN orders' :
          (o \in DOMAIN orders /\ orders'[o] = orders[o]) \/ Booked(orders'[o], exchange'[o])
  BY <1>2, <1>6, <1>7
<1>11. QED
  BY <1>7, <1>8, <1>9, <1>10, FollowStep

\* A row is read, the exchange asked, and its answer written.
LEMMA ReadFollows ==
    ASSUME RowsOK, LocalsOK, Following, RowsOK', Forward, NEW p \in Proc,
           NEW o \in DOMAIN orders, SyncRead(p, o)
    PROVE  Following'
<1>1. PICK v : v = [mem[p] EXCEPT !.oid = o, !.order = orders[o], !.row = positions[orders[o].pos],
                                  !.sub = IF orders[o].linked
                                          THEN SubOf(orders[o].pos, orders[o].level) ELSE NoSub]
  OBVIOUS
<1>2. Goes(p, "fetch", v) /\ v.oid = o /\ v.order = orders[o]
  BY <1>1 DEF SyncRead, Goto, Goes, LocalsOK, Memory
<1>3. UNCHANGED <<orders, exchange>> /\ Booked(orders[o], exchange[o])
  BY DEF SyncRead, rows, Following
<1>4. Informed("fetch", v)'
  BY <1>2, <1>3 DEF Informed, Booked
<1>5. QED
  BY <1>2, <1>3, <1>4, FollowStep

LEMMA FetchFollows ==
    ASSUME RowsOK, LocalsOK, Following, RowsOK', Forward, NEW p \in Proc, SyncFetch(p)
    PROVE  Following'
<1>1. PICK o, v : o = mem[p].oid /\ v = [mem[p] EXCEPT !.ack = exchange[o]]
  OBVIOUS
<1>2. Goes(p, "apply", v) /\ v.oid = o /\ v.order = mem[p].order /\ v.ack = exchange[o]
  BY <1>1 DEF SyncFetch, Goto, Goes, LocalsOK, Memory
<1>3. UNCHANGED <<orders, exchange>> /\ v.order.accounted <= exchange[o].executed
      /\ o \in DOMAIN exchange
  BY <1>1, <1>2 DEF SyncFetch, rows, Following, Informed, LocalsOK, LocalOK, RowsOK
<1>4. exchange[o] \in ExchangeOrder
  BY <1>3 DEF RowsOK
<1>5. Informed("apply", v)'
  BY <1>2, <1>3, <1>4, BehindSelf DEF Informed
<1>6. QED
  BY <1>2, <1>3, <1>5, FollowStep

LEMMA ApplyFollows ==
    ASSUME RowsOK, LocalsOK, Following, RowsOK', Forward, NEW p \in Proc, SyncApply(p)
    PROVE  Following'
<1>1. PICK m : m = mem[p]
  OBVIOUS
<1>2. /\ m.oid \in DOMAIN orders /\ m.ack \in ExchangeOrder /\ m.order \in Order
      /\ UNCHANGED exchange /\ Behind(m.ack, exchange[m.oid])
      /\ m.order.accounted <= exchange[m.oid].executed /\ m.order.accounted \in Nat
  <2>1. m.order \in Order /\ m.oid \in DOMAIN orders /\ m.ack \in ExchangeOrder
    BY <1>1 DEF SyncApply, LocalsOK, LocalOK, Memory
  <2>2. m.order.accounted \in Nat
    BY <2>1 DEF Order
  <2>3. QED
    BY <1>1, <2>1, <2>2 DEF SyncApply, Following, Informed
<1>3. exchange[m.oid] \in ExchangeOrder /\ orders[m.oid] \in Order
  BY <1>2 DEF RowsOK
<1>4. PICK r : /\ orders' = [orders EXCEPT ![m.oid] = r]
               /\ r.status = MapStatus(m.ack.status)
               /\ r.accounted = m.order.accounted + Less(m.ack.executed, m.order.accounted)
  <2> DEFINE r == [orders[m.oid] EXCEPT
                      !.status = MapStatus(m.ack.status),
                      !.linked = m.order.linked \/ (m.order.independent /\ Delta(m.order, m.ack) > 0),
                      !.accounted = m.order.accounted + Delta(m.order, m.ack)]
  <2>1. orders' = [orders EXCEPT ![m.oid] = r]
    BY <1>1 DEF SyncApply
  <2>2. /\ r.status = MapStatus(m.ack.status)
        /\ r.accounted = m.order.accounted + Less(m.ack.executed, m.order.accounted)
    BY <1>3 DEF Order, Delta
  <2> HIDE DEF r
  <2>3. QED
    BY <2>1, <2>2
<1>5. Booked(r, exchange[m.oid])
  BY <1>2, <1>3, <1>4, WriteFollows
<1>6. /\ DOMAIN orders' = DOMAIN orders
      /\ \A o \in DOMAIN orders' : orders'[o] = IF o = m.oid THEN r ELSE orders[o]
  BY <1>4 DEF RowsOK
<1>7. Goes(p, "idle", Blank)
  BY DEF SyncApply, Return, Goto, Goes
<1>8. Informed("idle", Blank)'
  BY DEF Informed, Blank
<1>9. \A o \in DOMAIN orders' :
          (o \in DOMAIN orders /\ orders'[o] = orders[o]) \/ Booked(orders'[o], exchange'[o])
  BY <1>2, <1>5, <1>6
<1>10. QED
  BY <1>6, <1>7, <1>8, <1>9, FollowStep

-----------------------------------------------------------------------------
(* The emergency stop *)

\* It lists orders that have rows, and writes the status of those that have ended.
LEMMA StopFollows ==
    ASSUME RowsOK, LocalsOK, Following, RowsOK', Forward, NEW p \in Proc,
           StopRows(p) \/ StopList(p) \/ StopCancel(p) \/ StopWrite(p)
    PROVE  Following'
<1>1. mem[p] \in Memory /\ Informed(pc[p], mem[p])
  BY DEF LocalsOK, Following
<1>2. CASE StopRows(p)
  <2>1. PICK v : v = mem[p]
    OBVIOUS
  <2>2. Goes(p, "stopList", v) /\ UNCHANGED orders
    BY <1>2, <2>1 DEF StopRows, Goto, Goes, LocalsOK
  <2>3. Informed("stopList", v)'
    BY <1>1, <1>2, <2>1 DEF StopRows, Asks, Informed
  <2>4. QED
    BY <2>2, <2>3, FollowStep
<1>3. CASE StopList(p)
  <2>1. PICK v : v = [mem[p] EXCEPT !.todo = UnresolvedOrders]
    OBVIOUS
  <2>2. Goes(p, "stopping", v) /\ v.todo = UnresolvedOrders /\ v.acks = mem[p].acks
    BY <1>1, <1>3, <2>1 DEF StopList, Goto, Goes, Memory
  <2>3. Informed("stopping", v)'
    BY <1>1, <1>3, <2>2 DEF StopList, Informed, UnresolvedOrders, rows
  <2>4. QED
    BY <1>3, <2>2, <2>3, FollowStep DEF StopList, rows
<1>4. CASE StopCancel(p)
  <2>1. PICK o \in mem[p].todo, answered \in BOOLEAN :
           /\ \/ /\ exchange[o].status \in Working
                 /\ exchange' = [exchange EXCEPT ![o].status = "CANCELED"]
              \/ /\ exchange[o].status \in Working => ~answered
                 /\ UNCHANGED exchange
           /\ mem' = [mem EXCEPT ![p].todo = @ \ {o},
                                 ![p].acks = IF answered THEN @ \union {o} ELSE @]
    BY <1>4 DEF StopCancel
  <2>2. PICK v : v = [mem[p] EXCEPT !.todo = @ \ {o},
                                    !.acks = IF answered THEN @ \union {o} ELSE @]
    OBVIOUS
  <2>3. /\ v.todo = mem[p].todo \ {o}
        /\ v.acks = IF answered THEN mem[p].acks \union {o} ELSE mem[p].acks
    BY <1>1, <2>2 DEF Memory
  <2>4. Goes(p, "stopping", v) /\ UNCHANGED orders
    BY <1>4, <2>1, <2>2 DEF StopCancel, Goes, rows, LocalsOK
  <2>5. /\ o \in DOMAIN orders /\ mem[p].todo \subseteq DOMAIN orders
        /\ mem[p].acks \subseteq {i \in DOMAIN orders : exchange[i].status \notin Working}
    BY <1>1, <1>4, <2>1 DEF StopCancel, Informed
  <2>6. answered => exchange'[o].status \notin Working
    <3>1. o \in DOMAIN exchange /\ exchange[o] \in ExchangeOrder
      BY <2>5 DEF RowsOK
    <3>2. CASE UNCHANGED exchange /\ (exchange[o].status \in Working => ~answered)
      BY <3>2
    <3>3. CASE exchange' = [exchange EXCEPT ![o].status = "CANCELED"]
      BY <3>1, <3>3 DEF RowsOK, ExchangeOrder, Working
    <3>4. QED
      BY <2>1, <3>2, <3>3
  <2>7. \A i \in mem[p].acks : exchange'[i].status \notin Working
    BY <2>5 DEF Forward, Behind, RowsOK
  <2>8. "stop" \in Requests
    BY <1>1, <1>4 DEF StopCancel, Informed
  <2>9. Informed("stopping", v)'
    BY <2>3, <2>4, <2>5, <2>6, <2>7, <2>8 DEF Informed
  <2>10. QED
    BY <2>4, <2>9, FollowStep
<1>5. CASE StopWrite(p)
  <2>1. PICK o \in mem[p].acks :
           /\ orders' = IF exchange[o].status \in {"CANCELED", "FILLED"}
                        THEN [orders EXCEPT ![o].status = MapStatus(exchange[o].status)]
                        ELSE orders
           /\ mem' = [mem EXCEPT ![p].acks = @ \ {o}]
    BY <1>5 DEF StopWrite
  <2>2. PICK v : v = [mem[p] EXCEPT !.acks = @ \ {o}]
    OBVIOUS
  <2>3. v.todo = mem[p].todo /\ v.acks = mem[p].acks \ {o}
    BY <1>1, <2>2 DEF Memory
  <2>4. Goes(p, "stopping", v) /\ UNCHANGED exchange
    BY <1>5, <2>1, <2>2 DEF StopWrite, Goes, LocalsOK
  <2>5. /\ o \in DOMAIN orders /\ exchange[o].status \notin Working
        /\ "stop" \in Requests /\ Informed("stopping", mem[p])
    BY <1>1, <1>5, <2>1 DEF StopWrite, Informed
  <2>6. /\ orders[o] \in Order /\ exchange[o] \in ExchangeOrder
        /\ Booked(orders[o], exchange[o])
    BY <2>5 DEF RowsOK, Following
  <2>7. DOMAIN orders' = DOMAIN orders
        /\ \A i \in DOMAIN orders : orders'[i] = orders[i] \/ Booked(orders'[i], exchange'[i])
    <3>1. CASE exchange[o].status \in {"CANCELED", "FILLED"}
      <4>1. PICK r : r = [orders[o] EXCEPT !.status = MapStatus(exchange[o].status)]
        OBVIOUS
      <4>2. orders' = [orders EXCEPT ![o] = r] /\ r.accounted = orders[o].accounted
        BY <2>1, <2>6, <3>1, <4>1 DEF Order
      <4>3. Booked(r, exchange[o])
        BY <2>5, <2>6, <4>2 DEF Booked
      <4>4. QED
        BY <2>4, <4>2, <4>3 DEF RowsOK
    <3>2. QED
      BY <2>1, <3>1
  <2>8. Informed("stopping", v)'
    BY <2>3, <2>4, <2>5, <2>7 DEF Informed
  <2>9. QED
    BY <2>4, <2>7, <2>8, FollowStep
<1>6. QED
  BY <1>2, <1>3, <1>4, <1>5

-----------------------------------------------------------------------------
(* The invariant *)

\* The inductive invariant.
Followed == Linked /\ Following

LEMMA InitFollows == Init => Followed
<1> SUFFICES ASSUME Init PROVE Followed
  OBVIOUS
<1>1. Linked
  BY InitOK DEF Linked
<1>2. Following
  BY DEF Init, Following, Informed, Blank
<1>3. QED
  BY <1>1, <1>2 DEF Followed

LEMMA NextFollows == Followed /\ [Next]_vars => Followed' /\ Forward
<1> SUFFICES ASSUME RowsOK, LocalsOK, Following, [Next]_vars
             PROVE  RowsOK' /\ LocalsOK' /\ Following' /\ Forward
  BY DEF Followed, Linked
<1>1. RowsOK' /\ LocalsOK' /\ Forward
  BY NextOK, AlwaysForward DEF Linked
<1>2. ASSUME NEW p \in Proc, Aside(p) PROVE Following'
  BY <1>1, <1>2, AsideFollows
<1>3. ASSUME NEW p \in Proc, Place(p) PROVE Following'
  BY <1>1, <1>3, PlaceFollows
<1>4. ASSUME NEW p \in Proc, Commit(p) PROVE Following'
  BY <1>1, <1>4, CommitFollows
<1>5. ASSUME NEW p \in Proc, NEW o \in DOMAIN orders, SyncRead(p, o) PROVE Following'
  BY <1>1, <1>5, ReadFollows
<1>6. ASSUME NEW p \in Proc, SyncFetch(p) PROVE Following'
  BY <1>1, <1>6, FetchFollows
<1>7. ASSUME NEW p \in Proc, SyncApply(p) PROVE Following'
  BY <1>1, <1>7, ApplyFollows
<1>8. ASSUME NEW p \in Proc, StopRows(p) \/ StopList(p) \/ StopCancel(p) \/ StopWrite(p)
      PROVE  Following'
  BY <1>1, <1>8, StopFollows
<1>9. CASE UNCHANGED <<orders, pc, mem>>
  BY <1>1, <1>9, StillFollows
<1>10. QED
  BY <1>1, <1>2, <1>3, <1>4, <1>5, <1>6, <1>7, <1>8, <1>9, Steps

\* Every order row says what its order on the exchange has done, or what it had done.
THEOREM BooksFollow == Spec => []Followed
BY InitFollows, NextFollows, PTL DEF Spec

\* No more fills are accounted than were executed, whoever synchronizes an order
\* at the same time, from whatever snapshots and answers.
THEOREM OverAccounting == Spec => []NeverOverAccounted
<1>1. Followed => NeverOverAccounted
  BY DEF Followed, Following, Booked, NeverOverAccounted
<1>2. QED
  BY <1>1, BooksFollow, PTL

\* A final row is one of an order that has ended, the emergency stop's included.
THEOREM FinalRows == Spec => []FinalOrdersEnded
<1>1. Followed => FinalOrdersEnded
  BY DEF Followed, Following, Booked, FinalOrdersEnded
<1>2. QED
  BY <1>1, BooksFollow, PTL

\* Without an emergency stop, a row becomes final with all fills of its order.
THEOREM SettledRows ==
    ASSUME "stop" \notin Requests
    PROVE  Spec => []SettledOrdersAccounted
<1>1. Followed => SettledOrdersAccounted
  BY DEF Followed, Following, Booked, SettledOrdersAccounted
<1>2. QED
  BY <1>1, BooksFollow, PTL

\* No order on the exchange executes backwards, changes once it has ended, or vanishes.
THEOREM ExchangeForward == Spec => [][Forward]_vars
<1>1. Followed /\ [Next]_vars => [Forward]_vars
  BY NextFollows
<1>2. QED
  BY <1>1, BooksFollow, PTL DEF Spec

-----------------------------------------------------------------------------
(* The ledger *)

\* Orders are synchronized by one activity at a time: the scheduler's lock.
OneSyncer == "sync" \notin Requests /\ \A p, q \in Syncers : p = q

\* What activity p at l with locals v is about to book: a new order, or one whose
\* accounted fills it has read and nobody else may change.
Booking(p, l, v) ==
    /\ l = "commit" => v.oid \notin DOMAIN orders
    /\ l \in {"fetch", "apply"} =>
          p \in Syncers /\ v.order.accounted = orders[v.oid].accounted

Alone ==
    /\ \A p \in Proc : Booking(p, pc[p], mem[p])
    /\ \A p, q \in Proc : pc[p] = "commit" /\ pc[q] = "commit" /\ p # q => mem[p].oid # mem[q].oid

\* A step of p, which books order o if any.
LEMMA AloneStep ==
    ASSUME OneSyncer, RowsOK, LocalsOK, Alone, NEW p \in Proc, NEW l, NEW v, Goes(p, l, v),
           DOMAIN orders \subseteq DOMAIN orders',
           \A o \in DOMAIN orders :
              orders'[o].accounted = orders[o].accounted \/ pc[p] = "apply",
           \A o \in DOMAIN orders' \ DOMAIN orders : pc[p] = "commit" /\ o = mem[p].oid,
           l = "commit" => v.oid \notin DOMAIN exchange /\ UNCHANGED orders,
           Booking(p, l, v)'
    PROVE  Alone'
<1>1. pc'[p] = l /\ mem'[p] = v /\ \A q \in Proc \ {p} : pc'[q] = pc[q] /\ mem'[q] = mem[q]
  BY DEF Goes, LocalsOK
<1>2. \A q \in Proc : /\ pc[q] = "commit" => mem[q].oid \in DOMAIN exchange
                      /\ pc[q] \in {"fetch", "apply"} => mem[q].oid \in DOMAIN orders
  BY DEF LocalsOK, LocalOK
<1>3. ASSUME NEW q \in Proc PROVE Booking(q, pc[q], mem[q])'
  <2>1. CASE q = p
    BY <1>1, <2>1
  <2>2. CASE q # p
    <3>1. Booking(q, pc[q], mem[q]) /\ pc'[q] = pc[q] /\ mem'[q] = mem[q]
      BY <1>1, <2>2 DEF Alone
    <3>2. ASSUME pc[q] = "commit" PROVE mem[q].oid \notin DOMAIN orders'
      BY <2>2, <3>1, <3>2 DEF Alone, Booking
    <3>3. ASSUME pc[q] \in {"fetch", "apply"}
          PROVE  q \in Syncers /\ mem[q].order.accounted = orders'[mem[q].oid].accounted
      <4>1. q \in Syncers /\ mem[q].order.accounted = orders[mem[q].oid].accounted
            /\ mem[q].oid \in DOMAIN orders
        <5>1. PICK k, u : k = pc[q] /\ u = mem[q]
          OBVIOUS
        <5>2. Booking(q, k, u) /\ k \in {"fetch", "apply"}
          BY <3>1, <3>3, <5>1
        <5>3. q \in Syncers /\ u.order.accounted = orders[u.oid].accounted
          BY <5>2 DEF Booking
        <5>4. QED
          BY <1>2, <3>3, <5>1, <5>3
      <4>2. pc[p] # "apply"
        BY <2>2, <4>1 DEF OneSyncer, Alone, Booking
      <4>3. QED
        BY <4>1, <4>2
    <3>4. QED
      BY <3>1, <3>2, <3>3 DEF Booking
  <2>3. QED
    BY <2>1, <2>2
<1>4. ASSUME NEW q \in Proc, NEW r \in Proc, pc'[q] = "commit", pc'[r] = "commit", q # r
      PROVE  mem'[q].oid # mem'[r].oid
  <2>1. CASE p \notin {q, r}
    BY <1>1, <1>4, <2>1 DEF Alone
  <2>2. ASSUME NEW x \in Proc \ {p}, pc'[x] = "commit" PROVE mem'[x].oid \in DOMAIN exchange
    <3>1. pc[x] = "commit" /\ mem'[x] = mem[x]
      BY <1>1, <2>2
    <3>2. mem[x].oid \in DOMAIN exchange
      BY <1>2, <3>1
    <3>3. QED
      BY <3>1, <3>2
  <2>3. pc'[p] = "commit" => mem'[p].oid \notin DOMAIN exchange
    BY <1>1
  <2>4. QED
    BY <1>4, <2>1, <2>2, <2>3
<1>5. QED
  BY <1>3, <1>4 DEF Alone

\* The ledger, as the rows and the exchange show it.
ExecutedLots == [o \in DOMAIN exchange |-> exchange[o].executed]
AccountedLots == [o \in DOMAIN orders |-> orders[o].accounted]

LedgerStep == [Ledger!LedgerNext]_<<ExecutedLots, AccountedLots>>

\* Nothing that the ledger shows changes.
LEMMA LedgerStill ==
    ASSUME DOMAIN exchange' = DOMAIN exchange, DOMAIN orders' = DOMAIN orders,
           \A o \in DOMAIN exchange : exchange'[o].executed = exchange[o].executed,
           \A o \in DOMAIN orders : orders'[o].accounted = orders[o].accounted
    PROVE  LedgerStep
<1>1. ExecutedLots' = ExecutedLots
  BY DEF ExecutedLots
<1>2. AccountedLots' = AccountedLots
  BY DEF AccountedLots
<1>3. QED
  BY <1>1, <1>2 DEF LedgerStep

\* An order is accepted.
LEMMA LedgerAccepts ==
    ASSUME RowsOK, LocalsOK, NEW p \in Proc, Accept(p)
    PROVE  LedgerStep
<1>1. PICK n, x : /\ n \in Nat /\ n = Len(exchange)
                  /\ exchange' = Append(exchange, x) /\ x \in NewOrders(mem[p].job)
  BY DEF Accept, RowsOK
<1>2. exchange'[n + 1] \in ExchangeOrder /\ UNCHANGED orders
  <2>1. Len(exchange') = n + 1
    BY <1>1 DEF RowsOK
  <2>2. QED
    BY <2>1, AcceptOK DEF rows
<1>3. /\ DOMAIN exchange' = DOMAIN exchange \union {n + 1}
      /\ n + 1 \notin DOMAIN exchange
      /\ \A o \in DOMAIN exchange : exchange'[o] = exchange[o]
  BY <1>1 DEF RowsOK
<1>4. exchange'[n + 1].executed \in Nat
  BY <1>2 DEF ExchangeOrder
<1>5. Ledger!Accept(n + 1)
  <2>1. DOMAIN ExecutedLots' = DOMAIN exchange' /\ DOMAIN ExecutedLots = DOMAIN exchange
    BY DEF ExecutedLots
  <2>2. /\ \A o \in DOMAIN exchange : ExecutedLots[o] = exchange[o].executed
        /\ \A o \in DOMAIN exchange' : ExecutedLots'[o] = exchange'[o].executed
    BY DEF ExecutedLots
  <2>3. UNCHANGED AccountedLots
    BY <1>2 DEF AccountedLots
  <2>4. QED
    BY <1>3, <1>4, <2>1, <2>2, <2>3 DEF Ledger!Accept, ExecutedLots, AccountedLots
<1>6. n + 1 \in DOMAIN ExecutedLots'
  BY <1>3 DEF ExecutedLots
<1>7. QED
  BY <1>5, <1>6 DEF LedgerStep, Ledger!LedgerNext, ExecutedLots

\* An order is executed further, or ends as it is.
LEMMA LedgerExecutes ==
    ASSUME RowsOK, NEW o \in DOMAIN exchange, ExchangeFills(o) \/ ExchangeEnds(o)
    PROVE  LedgerStep
<1>1. exchange[o] \in ExchangeOrder /\ exchange \in Seq(ExchangeOrder) /\ UNCHANGED orders
  <2>1. UNCHANGED orders
    BY DEF ExchangeFills, ExchangeEnds, rows
  <2>2. QED
    BY <2>1 DEF RowsOK
<1>2. CASE ExchangeEnds(o)
  <2>1. PICK s : exchange' = [exchange EXCEPT ![o].status = s]
    BY <1>2 DEF ExchangeEnds
  <2>2. DOMAIN exchange' = DOMAIN exchange
        /\ \A i \in DOMAIN exchange : exchange'[i].executed = exchange[i].executed
    BY <1>1, <2>1 DEF RowsOK, ExchangeOrder
  <2>3. QED
    BY <1>1, <2>2, LedgerStill
<1>3. CASE ExchangeFills(o)
  <2>1. PICK e \in exchange[o].executed + 1 .. exchange[o].qty :
           exchange' = [exchange EXCEPT
              ![o].executed = e,
              ![o].status = IF e = exchange[o].qty THEN "FILLED" ELSE "PARTIALLY_FILLED"]
    BY <1>3 DEF ExchangeFills
  <2>2. e \in Nat /\ e > exchange[o].executed
    BY <1>1 DEF ExchangeOrder
  <2>3. DOMAIN exchange' = DOMAIN exchange
        /\ \A i \in DOMAIN exchange :
              exchange'[i].executed = IF i = o THEN e ELSE exchange[i].executed
    BY <1>1, <2>1 DEF RowsOK, ExchangeOrder
  <2>4. ExecutedLots' = [ExecutedLots EXCEPT ![o] = e] /\ ExecutedLots'[o] = e
        /\ ExecutedLots[o] = exchange[o].executed /\ UNCHANGED AccountedLots
    BY <1>1, <2>3 DEF ExecutedLots, AccountedLots
  <2>5. Ledger!Execute(o)
    BY <2>2, <2>4 DEF Ledger!Execute, ExecutedLots, AccountedLots
  <2>6. o \in DOMAIN ExecutedLots
    BY DEF ExecutedLots
  <2>7. QED
    BY <2>5, <2>6 DEF LedgerStep, Ledger!LedgerNext, ExecutedLots
<1>4. QED
  BY <1>2, <1>3

\* Lots are booked for an order.
LEMMA LedgerBooks ==
    ASSUME RowsOK, RowsOK', Following', NEW o \in DOMAIN exchange, UNCHANGED exchange,
           DOMAIN orders' = DOMAIN orders \union {o},
           \A i \in DOMAIN orders \ {o} : orders'[i] = orders[i],
           o \in DOMAIN orders => orders'[o].accounted >= orders[o].accounted
    PROVE  LedgerStep
<1>1. PICK n : n = orders'[o].accounted
  OBVIOUS
<1>2. n \in 0..exchange[o].executed
  <2>1. orders'[o] \in Order /\ Booked(orders'[o], exchange[o]) /\ exchange[o] \in ExchangeOrder
    BY DEF RowsOK, Following
  <2>2. orders'[o].accounted \in Nat /\ exchange[o].executed \in Nat
        /\ orders'[o].accounted <= exchange[o].executed
    BY <2>1 DEF Order, ExchangeOrder, Booked
  <2>3. QED
    BY <1>1, <2>2
<1>3. /\ AccountedLots' = [x \in DOMAIN AccountedLots \union {o} |-> IF x = o THEN n ELSE AccountedLots[x]]
      /\ o \in DOMAIN AccountedLots => n >= AccountedLots[o]
      /\ UNCHANGED ExecutedLots /\ ExecutedLots[o] = exchange[o].executed
      /\ o \in DOMAIN ExecutedLots
  BY <1>1 DEF AccountedLots, ExecutedLots
<1>4. Ledger!Book(o)
  BY <1>2, <1>3 DEF Ledger!Book, AccountedLots, ExecutedLots
<1>5. QED
  BY <1>3, <1>4 DEF LedgerStep, Ledger!LedgerNext, ExecutedLots

\* Steps that book nothing.
LEMMA AsideAlone ==
    ASSUME OneSyncer, RowsOK, LocalsOK, Alone, NEW p \in Proc, Aside(p)
    PROVE  Alone'
<1>1. PICK l, v : l \notin Informants /\ Goes(p, l, v) /\ UNCHANGED orders
  BY DEF Aside
<1>2. Booking(p, l, v)'
  BY <1>1 DEF Booking, Informants
<1>3. QED
  BY <1>1, <1>2, AloneStep DEF Informants

LEMMA StillAlone ==
    ASSUME Alone, UNCHANGED <<orders, pc, mem>>
    PROVE  Alone'
BY DEF Alone, Booking

\* An order is placed: its number is new, to the rows and to every other activity.
LEMMA PlaceAlone ==
    ASSUME OneSyncer, RowsOK, LocalsOK, Alone, NEW p \in Proc, Place(p)
    PROVE  Alone'
<1>1. PICK v : v = [mem[p] EXCEPT !.oid = Len(exchange'), !.ack = exchange'[Len(exchange')]]
  OBVIOUS
<1>2. Goes(p, "commit", v) /\ v.oid = Len(exchange') /\ UNCHANGED orders
  BY <1>1 DEF Place, Accept, rows, Goto, Goes, LocalsOK, Memory
<1>3. Len(exchange') \notin DOMAIN exchange
  BY DEF Place, Accept, RowsOK
<1>4. Booking(p, "commit", v)'
  BY <1>2, <1>3 DEF Booking, RowsOK
<1>5. QED
  BY <1>2, <1>3, <1>4, AloneStep

\* Its row is written.
LEMMA CommitAlone ==
    ASSUME OneSyncer, RowsOK, LocalsOK, Alone, RowsOK', Following', NEW p \in Proc, Commit(p)
    PROVE  Alone' /\ LedgerStep
<1>1. PICK o, r : o = mem[p].oid /\ orders' = Put(orders, o, r)
  BY DEF Commit
<1>2. o \in DOMAIN exchange /\ o \notin DOMAIN orders /\ UNCHANGED exchange
  BY <1>1 DEF Commit, LocalsOK, LocalOK, Alone, Booking
<1>3. /\ DOMAIN orders' = DOMAIN orders \union {o}
      /\ \A i \in DOMAIN orders : orders'[i] = orders[i]
  BY <1>1, <1>2 DEF Put
<1>4. Goes(p, "idle", Blank) /\ Booking(p, "idle", Blank)' /\ pc[p] = "commit"
  BY DEF Commit, Return, Goto, Goes, Booking
<1>5. Alone'
  BY <1>1, <1>3, <1>4, AloneStep
<1>6. QED
  BY <1>2, <1>3, <1>5, LedgerBooks

\* An order is synchronized.
LEMMA SyncAlone ==
    ASSUME OneSyncer, RowsOK, LocalsOK, Alone, RowsOK', Following', NEW p \in Proc,
           (\E o \in DOMAIN orders : SyncRead(p, o)) \/ SyncFetch(p) \/ SyncApply(p)
    PROVE  Alone' /\ LedgerStep
<1>1. ASSUME NEW o \in DOMAIN orders, SyncRead(p, o) PROVE Alone' /\ LedgerStep
  <2>1. PICK v : v = [mem[p] EXCEPT !.oid = o, !.order = orders[o], !.row = positions[orders[o].pos],
                                    !.sub = IF orders[o].linked
                                            THEN SubOf(orders[o].pos, orders[o].level) ELSE NoSub]
    OBVIOUS
  <2>2. Goes(p, "fetch", v) /\ v.oid = o /\ v.order = orders[o]
    BY <1>1, <2>1 DEF SyncRead, Goto, Goes, LocalsOK, Memory
  <2>3. UNCHANGED <<orders, exchange>> /\ p \in Syncers
    BY <1>1 DEF SyncRead, Asks, rows, OneSyncer
  <2>4. Booking(p, "fetch", v)'
    BY <2>2, <2>3 DEF Booking
  <2>5. QED
    BY <2>2, <2>3, <2>4, AloneStep, LedgerStill
<1>2. CASE SyncFetch(p)
  <2>1. PICK v : v = [mem[p] EXCEPT !.ack = exchange[mem[p].oid]]
    OBVIOUS
  <2>2. Goes(p, "apply", v) /\ v.oid = mem[p].oid /\ v.order = mem[p].order
    BY <1>2, <2>1 DEF SyncFetch, Goto, Goes, LocalsOK, Memory
  <2>3. UNCHANGED <<orders, exchange>> /\ Booking(p, "fetch", mem[p])
    BY <1>2 DEF SyncFetch, rows, Alone
  <2>4. Booking(p, "apply", v)'
    BY <2>2, <2>3 DEF Booking
  <2>5. QED
    BY <2>2, <2>3, <2>4, AloneStep, LedgerStill
<1>3. CASE SyncApply(p)
  <2>1. PICK o, order, d : o = mem[p].oid /\ order = mem[p].order /\ d = Delta(order, mem[p].ack)
    OBVIOUS
  <2>2. o \in DOMAIN orders /\ order.accounted = orders[o].accounted /\ order \in Order
        /\ mem[p].ack \in ExchangeOrder /\ UNCHANGED exchange /\ pc[p] = "apply"
    BY <1>3, <2>1 DEF SyncApply, LocalsOK, LocalOK, Memory, Alone, Booking
  <2>3. order.accounted \in Nat /\ d \in Nat
    <3>1. order.accounted \in Nat /\ mem[p].ack.executed \in Nat
      BY <2>2 DEF Order, ExchangeOrder
    <3>2. QED
      BY <2>1, <3>1, LessOK DEF Delta
  <2>4. /\ DOMAIN orders' = DOMAIN orders
        /\ \A i \in DOMAIN orders \ {o} : orders'[i] = orders[i]
        /\ orders'[o].accounted = order.accounted + d
    <3>1. PICK status, linked : orders' = [orders EXCEPT ![o].status = status, ![o].linked = linked,
                                                         ![o].accounted = order.accounted + d]
      BY <1>3, <2>1 DEF SyncApply
    <3>2. orders[o] \in Order
      BY <2>2 DEF RowsOK
    <3>3. QED
      BY <2>2, <3>1, <3>2 DEF RowsOK, Order
  <2>5. Goes(p, "idle", Blank) /\ Booking(p, "idle", Blank)'
    BY <1>3 DEF SyncApply, Return, Goto, Goes, Booking
  <2>6. Alone'
    BY <2>2, <2>4, <2>5, AloneStep
  <2>7. o \in DOMAIN exchange /\ DOMAIN orders' = DOMAIN orders \union {o}
        /\ orders'[o].accounted >= orders[o].accounted
    <3>1. order.accounted + d >= order.accounted
      BY <2>3
    <3>2. QED
      BY <2>2, <2>4, <3>1 DEF RowsOK
  <2>8. QED
    BY <2>2, <2>4, <2>6, <2>7, LedgerBooks
<1>4. QED
  BY <1>1, <1>2, <1>3

\* The emergency stop books nothing.
LEMMA StopAlone ==
    ASSUME OneSyncer, RowsOK, LocalsOK, Following, Alone, NEW p \in Proc,
           StopRows(p) \/ StopList(p) \/ StopCancel(p) \/ StopWrite(p)
    PROVE  Alone' /\ LedgerStep
<1>1. /\ DOMAIN orders' = DOMAIN orders
      /\ \A o \in DOMAIN orders : orders'[o].accounted = orders[o].accounted
  <2>1. CASE StopWrite(p)
    <3>1. PICK o, s : orders' = [orders EXCEPT ![o].status = s] \/ UNCHANGED orders
      BY <2>1 DEF StopWrite
    <3>2. orders \in [DOMAIN orders -> Order]
      BY DEF RowsOK
    <3>3. QED
      BY <3>1, <3>2 DEF Order
  <2>2. QED
    BY <2>1 DEF StopRows, StopList, StopCancel, rows
<1>2. DOMAIN exchange' = DOMAIN exchange
      /\ \A o \in DOMAIN exchange : exchange'[o].executed = exchange[o].executed
  <2>1. CASE StopCancel(p)
    <3>1. PICK o : exchange' = [exchange EXCEPT ![o].status = "CANCELED"] \/ UNCHANGED exchange
      BY <2>1 DEF StopCancel
    <3>2. exchange \in Seq(ExchangeOrder)
      BY DEF RowsOK
    <3>3. CASE exchange' = [exchange EXCEPT ![o].status = "CANCELED"]
      BY <3>2, <3>3 DEF ExchangeOrder
    <3>4. QED
      BY <3>1, <3>3
  <2>2. QED
    BY <2>1 DEF StopRows, StopList, StopWrite
<1>3. PICK l, v : l \in {"stopList", "stopping"} /\ Goes(p, l, v)
  <2>1. CASE StopRows(p)
    <3>1. Goes(p, "stopList", mem[p])
      BY <2>1 DEF StopRows, Goto, Goes, LocalsOK
    <3>2. QED
      BY <3>1
  <2>2. CASE StopList(p)
    <3>1. PICK v : v = [mem[p] EXCEPT !.todo = UnresolvedOrders]
      OBVIOUS
    <3>2. Goes(p, "stopping", v)
      BY <2>2, <3>1 DEF StopList, Goto, Goes
    <3>3. QED
      BY <3>2
  <2>3. CASE StopCancel(p)
    <3>1. PICK o, acks : mem' = [mem EXCEPT ![p].todo = @ \ {o}, ![p].acks = acks]
      BY <2>3 DEF StopCancel
    <3>2. PICK v : v = [mem[p] EXCEPT !.todo = @ \ {o}, !.acks = acks]
      OBVIOUS
    <3>3. Goes(p, "stopping", v)
      BY <2>3, <3>1, <3>2 DEF StopCancel, Goes, LocalsOK
    <3>4. QED
      BY <3>3
  <2>4. CASE StopWrite(p)
    <3>1. PICK o : mem' = [mem EXCEPT ![p].acks = @ \ {o}]
      BY <2>4 DEF StopWrite
    <3>2. PICK v : v = [mem[p] EXCEPT !.acks = @ \ {o}]
      OBVIOUS
    <3>3. Goes(p, "stopping", v)
      BY <2>4, <3>1, <3>2 DEF StopWrite, Goes, LocalsOK
    <3>4. QED
      BY <3>3
  <2>5. QED
    BY <2>1, <2>2, <2>3, <2>4
<1>4. Booking(p, l, v)'
  BY <1>3 DEF Booking
<1>5. Alone'
  BY <1>1, <1>3, <1>4, AloneStep
<1>6. QED
  BY <1>1, <1>2, <1>5, LedgerStill

\* Every step keeps the bookings apart and is one of the ledger, or of none.
LEMMA LedgerFollows ==
    ASSUME OneSyncer, Followed, Alone, [Next]_vars
    PROVE  Alone' /\ LedgerStep
<1> USE DEF Followed, Linked
<1>1. RowsOK /\ LocalsOK /\ Following /\ RowsOK' /\ Following'
  BY NextFollows
<1>2. ASSUME NEW p \in Proc, Aside(p), UNCHANGED exchange \/ PlaceLost(p) PROVE Alone' /\ LedgerStep
  <2>1. CASE UNCHANGED exchange
    BY <1>1, <1>2, <2>1, AsideAlone, LedgerStill DEF Aside
  <2>2. CASE PlaceLost(p)
    BY <1>1, <1>2, <2>2, AsideAlone, LedgerAccepts DEF PlaceLost
  <2>3. QED
    BY <1>2, <2>1, <2>2
<1>3. ASSUME NEW p \in Proc, Place(p) PROVE Alone' /\ LedgerStep
  BY <1>1, <1>3, PlaceAlone, LedgerAccepts DEF Place
<1>4. ASSUME NEW p \in Proc, Commit(p) PROVE Alone' /\ LedgerStep
  BY <1>1, <1>4, CommitAlone
<1>5. ASSUME NEW p \in Proc,
             (\E o \in DOMAIN orders : SyncRead(p, o)) \/ SyncFetch(p) \/ SyncApply(p)
      PROVE  Alone' /\ LedgerStep
  BY <1>1, <1>5, SyncAlone
<1>6. ASSUME NEW p \in Proc, StopRows(p) \/ StopList(p) \/ StopCancel(p) \/ StopWrite(p)
      PROVE  Alone' /\ LedgerStep
  BY <1>1, <1>6, StopAlone
<1>7. CASE UNCHANGED <<orders, pc, mem, exchange>>
  BY <1>1, <1>7, StillAlone, LedgerStill
<1>8. CASE /\ UNCHANGED <<orders, pc, mem>>
           /\ \E o \in DOMAIN exchange : ExchangeFills(o) \/ ExchangeEnds(o)
  BY <1>1, <1>8, StillAlone, LedgerExecutes
<1>9. QED
  BY <1>1, <1>2, <1>3, <1>4, <1>5, <1>6, <1>7, <1>8, Steps

\* With one synchronizing activity, rows and exchange implement the ledger.
THEOREM LedgerKept ==
    ASSUME OneSyncer
    PROVE  Spec => LedgerSpec
<1>1. Init => Alone
  BY DEF Init, Alone, Booking
<1>2. Init => Ledger!LedgerInit
  <2>1. ASSUME Init PROVE ExecutedLots = <<>> /\ AccountedLots = <<>>
    BY <2>1 DEF Init, ExecutedLots, AccountedLots
  <2>2. QED
    BY <2>1 DEF Ledger!LedgerInit, ExecutedLots, AccountedLots
<1>3. Followed /\ Alone /\ [Next]_vars => Alone' /\ LedgerStep
  BY LedgerFollows
<1>4. Spec => Ledger!LedgerInit /\ [][Ledger!LedgerNext]_<<ExecutedLots, AccountedLots>>
  BY <1>1, <1>2, <1>3, BooksFollow, PTL DEF Spec, LedgerStep
<1>5. QED
  BY <1>4, PTL DEF LedgerSpec, Ledger!Spec, ExecutedLots, AccountedLots
=============================================================================
