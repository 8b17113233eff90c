--------------------------- MODULE BacktestProofs ---------------------------
(***************************************************************************)
(* Imports and backtest runs page through candles while the table and the  *)
(* market move on: no page leaves a hole, whatever the sizes of pages;     *)
(* whoever starts a run, one request works on it, and the trades it stores *)
(* explain the results it stores.                                          *)
(***************************************************************************)
EXTENDS BacktestRuns, SimulatorProofs

-----------------------------------------------------------------------------
(* The lowest members of a set of numbers *)

Below(S, t) == {u \in S : u < t}
Lowest(S, n) == {t \in S : Cardinality(Below(S, t)) < n}

LEMMA BelowFinite ==
    ASSUME NEW N \in Nat, NEW S \in SUBSET (0..N), NEW t
    PROVE  /\ IsFiniteSet(S) /\ Cardinality(S) \in Nat
           /\ IsFiniteSet(Below(S, t)) /\ Cardinality(Below(S, t)) \in Nat
<1>1. 0 \in Int /\ N \in Int
  OBVIOUS
<1>2. IsFiniteSet(0..N)
  BY <1>1, FS_Interval
<1>3. IsFiniteSet(S)
  BY <1>2, FS_Subset
<1>4. Below(S, t) \in SUBSET S
  BY DEF Below
<1>5. QED
  BY <1>3, <1>4, FS_Subset, FS_CardinalityType

\* More lie below a greater number.
LEMMA RankGrows ==
    ASSUME NEW N \in Nat, NEW S \in SUBSET (0..N), NEW t \in S, NEW u \in S, t < u
    PROVE  Cardinality(Below(S, t)) < Cardinality(Below(S, u))
<1>1. \A x \in S : x \in Nat
  OBVIOUS
<1>2. Below(S, t) \subseteq Below(S, u) /\ t \in Below(S, u) /\ t \notin Below(S, t)
  <2>1. \A v \in S : v < t => v < u
    BY <1>1
  <2>2. ~(t < t)
    BY <1>1
  <2>3. QED
    BY <2>1, <2>2 DEF Below
<1>3. Below(S, t) \in SUBSET Below(S, u) /\ Below(S, t) # Below(S, u)
  BY <1>2
<1>4. IsFiniteSet(Below(S, u)) /\ Cardinality(Below(S, u)) \in Nat /\ Cardinality(Below(S, t)) \in Nat
  BY BelowFinite
<1>5. Cardinality(Below(S, t)) <= Cardinality(Below(S, u))
      /\ (Cardinality(Below(S, t)) = Cardinality(Below(S, u)) => Below(S, t) = Below(S, u))
  BY <1>3, <1>4, FS_Subset
<1>6. QED
  BY <1>3, <1>4, <1>5

\* Every rank below the size of the set is somebody's.
LEMMA RankTaken ==
    ASSUME NEW N \in Nat, NEW S \in SUBSET (0..N), NEW k \in Nat, k < Cardinality(S)
    PROVE  \E t \in S : Cardinality(Below(S, t)) = k
<1> DEFINE r(t) == Cardinality(Below(S, t))
           T == {t \in S : r(t) >= k}
<1>1. \A x \in S : x \in Nat
  OBVIOUS
<1>2. \A t : r(t) \in Nat
  BY BelowFinite
<1>3. S # {}
  BY FS_EmptySet
<1>4. T # {}
  <2>1. PICK m \in S : \A u \in S : u <= m
    BY <1>3, GreatestExists
  <2>2. Below(S, m) = S \ {m}
    <3>1. \A v \in S : v < m <=> v # m
      BY <1>1, <2>1
    <3>2. QED
      BY <3>1 DEF Below
  <2>3. r(m) = Cardinality(S) - 1
    BY <2>1, <2>2, BelowFinite, FS_RemoveElement
  <2>4. Cardinality(S) \in Nat
    BY BelowFinite
  <2>5. r(m) >= k
    BY <2>3, <2>4
  <2>6. QED
    BY <2>5
<1>5. PICK t \in T : \A u \in T : t <= u
  <2>1. T \in SUBSET Nat
    BY <1>1
  <2>2. QED
    BY <1>4, <2>1, LeastExists
<1>6. CASE r(t) = k
  BY <1>5, <1>6
<1>7. CASE r(t) # k
  <2>1. r(t) > k
    BY <1>2, <1>5, <1>7
  <2>2. Below(S, t) # {}
    BY <2>1, FS_EmptySet
  <2>3. Below(S, t) \in SUBSET (0..N)
    BY DEF Below
  <2>4. PICK u \in Below(S, t) : \A v \in Below(S, t) : v <= u
    BY <2>2, <2>3, GreatestExists
  <2>5. Below(S, u) = Below(S, t) \ {u}
    <3>1. \A v \in S : v < u <=> v < t /\ v # u
      BY <1>1, <1>5, <2>4 DEF Below
    <3>2. QED
      BY <3>1 DEF Below
  <2>6. r(u) = r(t) - 1
    BY <2>4, <2>5, BelowFinite, FS_RemoveElement
  <2>7. u \in T
    BY <1>2, <2>1, <2>4, <2>6 DEF Below
  <2>8. QED
    BY <1>5, <2>4, <2>7 DEF Below
<1>8. QED
  BY <1>6, <1>7

\* The lowest come before the others; there are others only if they are as many as asked for.
LEMMA LowestFirst ==
    ASSUME NEW N \in Nat, NEW S \in SUBSET (0..N), NEW n \in Nat
    PROVE  /\ \A t \in Lowest(S, n), u \in S \ Lowest(S, n) : t < u
           /\ S # Lowest(S, n) => n <= Cardinality(Lowest(S, n))
<1>1. ASSUME NEW t \in Lowest(S, n), NEW u \in S \ Lowest(S, n) PROVE t < u
  <2>1. t \in S /\ t \in Nat /\ u \in Nat /\ t # u
    BY DEF Lowest
  <2>2. SUFFICES ASSUME u < t PROVE FALSE
    BY <2>1
  <2>3. PICK a, b : a = Cardinality(Below(S, u)) /\ b = Cardinality(Below(S, t))
    OBVIOUS
  <2>4. a < b
    BY <2>1, <2>2, <2>3, RankGrows
  <2>5. a \in Nat /\ b \in Nat
    BY <2>3, BelowFinite
  <2>6. b < n /\ ~(a < n)
    BY <2>3 DEF Lowest
  <2>7. QED
    BY <2>4, <2>5, <2>6
<1>2. ASSUME S # Lowest(S, n) PROVE n <= Cardinality(Lowest(S, n))
  <2>1. S \ Lowest(S, n) # {} /\ S \ Lowest(S, n) \in SUBSET Nat
    <3>1. Lowest(S, n) \subseteq S
      BY DEF Lowest
    <3>2. S \ Lowest(S, n) # {}
      BY <1>2, <3>1
    <3>3. \A v \in S : v \in Nat
      OBVIOUS
    <3>4. QED
      BY <3>2, <3>3
  <2>2. PICK u \in S \ Lowest(S, n) : \A v \in S \ Lowest(S, n) : u <= v
    BY <2>1, LeastExists
  <2>3. Below(S, u) \in SUBSET Lowest(S, n)
    <3>1. \A v \in S : v \in Nat
      OBVIOUS
    <3>2. \A v \in Below(S, u) : v \in S /\ v < u
      BY DEF Below
    <3>3. ASSUME NEW v \in Below(S, u) PROVE v \in Lowest(S, n)
      <4>1. v \in S /\ v \in Nat /\ u \in Nat /\ v < u
        BY <2>2, <3>1, <3>2
      <4>2. ~(u <= v)
        BY <4>1
      <4>3. QED
        BY <2>2, <4>1, <4>2
    <3>4. QED
      BY <3>3
  <2>4. Lowest(S, n) \in SUBSET S
    BY DEF Lowest
  <2>5. IsFiniteSet(Lowest(S, n))
    BY <2>4, BelowFinite, FS_Subset
  <2>6. PICK a, b : a = Cardinality(Below(S, u)) /\ b = Cardinality(Lowest(S, n))
    OBVIOUS
  <2>7. a <= b /\ a \in Nat /\ b \in Nat
    BY <2>3, <2>5, <2>6, FS_Subset, FS_CardinalityType
  <2>8. ~(a < n)
    BY <2>2, <2>6 DEF Lowest
  <2>9. QED
    BY <2>6, <2>7, <2>8
<1>3. QED
  BY <1>1, <1>2

-----------------------------------------------------------------------------
(* The import *)

\* What a candle can close at.
Quoted == Prices \cup Interim
Pages == UNION {[P -> Quoted] : P \in SUBSET (1..Slots)}
ImportRow == [at : {"done", "fetch", "store"}, start : Times \union {None}, end : Times \union {None},
              cursor : Nat \union {None}, pages : Nat, maxPages : Nat, page : Pages, listed : Nat,
              whole : BOOLEAN]
ImportTyped ==
    /\ history \in [1..Slots -> Prices]
    /\ listed \in 1..Slots
    /\ stored \in Pages
    /\ import \in ImportRow

\* What import i is to store and opens before time c is in the table.
StoredBelow(i, c) ==
    \A t \in 1..i.listed : Within(t, i.start, i.end) /\ Opens(t) < c => t \in DOMAIN stored

\* The page that was fetched has what comes next, and what it has not lies
\* behind a full page.
PageFits(i) ==
    LET P == DOMAIN i.page
    IN  /\ \A t \in P : Within(t, i.cursor, i.end)
        /\ \A t \in 1..i.listed : Within(t, i.cursor, i.end) /\ t \notin P =>
              Limit <= Cardinality(P) /\ \A u \in P : u < t

\* An import that names its start has stored everything before its cursor.
Progress(i) ==
    /\ i.listed <= listed
    /\ i.at # "done" => ~i.whole
    /\ i.at # "done" /\ i.start # None =>
          i.cursor \in Nat /\ i.start <= i.cursor /\ StoredBelow(i, i.cursor)
    /\ i.at = "store" => DOMAIN i.page # {}
    /\ i.at = "store" /\ i.start # None => PageFits(i)

ImportInv == ImportTyped /\ Progress(import) /\ ImportLeavesNoHole

LEMMA PagesAre ==
    ASSUME NEW f
    PROVE  f \in Pages <=> DOMAIN f \in SUBSET (1..Slots) /\ f \in [DOMAIN f -> Quoted]
BY DEF Pages

LEMMA IdleOK == Idle \in ImportRow
<1>1. <<>> \in Pages
  <2>1. DOMAIN <<>> = {} /\ <<>> \in [{} -> Quoted]
    OBVIOUS
  <2>2. QED
    BY <2>1, PagesAre
<1>2. QED
  BY <1>1 DEF Idle, ImportRow

LEMMA InitImports == InitImport => ImportInv
<1> SUFFICES ASSUME InitImport PROVE ImportInv
  OBVIOUS
<1>1. import = Idle /\ import \in ImportRow
  BY IdleOK DEF InitImport
<1>2. history \in [1..Slots -> Prices] /\ listed \in 1..Slots
  BY ImportAssumption DEF InitImport
<1>3. stored \in Pages
  <2>1. CASE stored = <<>>
    BY <2>1, IdleOK DEF Idle, ImportRow
  <2>2. CASE stored = history
    <3>1. history \in [1..Slots -> Quoted]
      BY <1>2 DEF Quoted
    <3>2. QED
      BY <2>2, <3>1, PagesAre
  <2>3. QED
    BY <2>1, <2>2 DEF InitImport
<1>4. Progress(import) /\ ImportLeavesNoHole
  <2>1. import.at = "done" /\ import.whole = FALSE /\ import.listed = 0
    BY <1>1 DEF Idle
  <2>2. 0 <= listed
    BY <1>2, ImportAssumption
  <2>3. QED
    BY <2>1, <2>2 DEF Progress, ImportLeavesNoHole
<1>5. QED
  BY <1>1, <1>2, <1>3, <1>4 DEF ImportInv, ImportTyped

\* A request leaves the table alone.
LEMMA RequestImports == ASSUME ImportInv, RequestImport PROVE ImportInv'
<1>1. PICK start, end \in Times \union {None}, pages \in 1..MaxPages :
         import' = [Idle EXCEPT !.at = "fetch", !.start = start, !.end = end,
                                !.cursor = start, !.maxPages = pages, !.listed = listed]
  BY DEF RequestImport
<1>2. UNCHANGED <<history, listed, stored>>
  BY DEF RequestImport
<1>3. start \in Nat \union {None} /\ pages \in Nat /\ listed \in Nat /\ MaxPages \in Nat
  BY ImportAssumption DEF ImportInv, ImportTyped
<1>4. import' \in ImportRow
  BY <1>1, <1>3, IdleOK DEF ImportRow
<1>5. /\ import'.at = "fetch" /\ import'.start = start /\ import'.end = end /\ import'.cursor = start
      /\ import'.listed = listed /\ import'.whole = FALSE
  BY <1>1 DEF Idle
<1>6. ASSUME start # None PROVE StoredBelow(import, start)'
  BY <1>3, <1>5, <1>6 DEF StoredBelow, Within, Opens
<1>7. Progress(import)' /\ ImportLeavesNoHole'
  BY <1>2, <1>3, <1>5, <1>6 DEF Progress, ImportLeavesNoHole
<1>8. QED
  BY <1>2, <1>4, <1>7 DEF ImportInv, ImportTyped

\* The exchange answers with the next candles it has.
LEMMA FetchImports == ASSUME ImportInv, Fetch PROVE ImportInv'
<1>1. PICK i : i = import
  OBVIOUS
<1>2. PICK K : K = Klines(i.cursor, i.end)
  OBVIOUS
<1>3. PICK page \in Quotes(K) :
         import' = IF page = <<>> THEN [i EXCEPT !.at = "done", !.whole = TRUE]
                   ELSE [i EXCEPT !.at = "store", !.page = page]
  BY <1>1, <1>2 DEF Fetch
<1>4. i \in ImportRow /\ i.at = "fetch" /\ UNCHANGED <<history, listed, stored>>
  BY <1>1 DEF Fetch, ImportInv, ImportTyped
<1> DEFINE offered == {t \in 1..listed : Within(t, i.cursor, i.end)}
<1>5. offered \in SUBSET (0..Slots) /\ Slots \in Nat /\ listed \in Nat /\ Limit \in Nat /\ Limit # 0
      /\ 1..listed \subseteq 1..Slots
  BY ImportAssumption DEF ImportInv, ImportTyped
<1>6. K \subseteq offered /\ (i.cursor # None => K = Lowest(offered, Limit))
  BY <1>2 DEF Klines, Lowest, Below
<1>7. DOMAIN page = K /\ page \in [K -> Quoted] /\ page \in Pages
  <2>1. PICK close \in Interim \union {history[listed]} :
           page = [t \in K |-> IF t = listed THEN close ELSE history[t]]
    BY <1>3 DEF Quotes
  <2>2. \A t \in 1..Slots : history[t] \in Quoted
    BY DEF ImportInv, ImportTyped, Quoted
  <2>3. close \in Quoted
    BY <2>1, <2>2 DEF ImportInv, ImportTyped, Quoted
  <2>4. K \subseteq 1..Slots
    BY <1>5, <1>6
  <2>5. DOMAIN page = K /\ page \in [K -> Quoted]
    BY <2>1, <2>2, <2>3, <2>4
  <2>6. QED
    BY <2>4, <2>5, PagesAre
<1>8. K = {} <=> page = <<>>
  <2>1. DOMAIN <<>> = {}
    OBVIOUS
  <2>2. ASSUME K = {} PROVE page = <<>>
    <3>1. page = [t \in {} |-> page[t]]
      BY <1>7, <2>2
    <3>2. QED
      BY <3>1
  <2>3. QED
    BY <1>7, <2>1, <2>2
<1>9. ASSUME i.start # None
      PROVE  /\ i.cursor \in Nat /\ i.cursor # None /\ i.start \in Nat /\ i.start <= i.cursor
             /\ StoredBelow(i, i.cursor) /\ i.listed <= listed /\ i.listed \in Nat
  <2>1. i.cursor \in Nat /\ i.start <= i.cursor /\ StoredBelow(i, i.cursor) /\ i.listed <= listed
    BY <1>1, <1>4, <1>9 DEF ImportInv, Progress
  <2>2. i.start \in Nat /\ i.cursor # None /\ i.listed \in Nat
    BY <1>4, <1>9, <2>1, ImportAssumption DEF ImportRow
  <2>3. QED
    BY <2>1, <2>2
<1>10. ASSUME i.start # None, NEW t \in 1..i.listed, Within(t, i.start, i.end), t \notin DOMAIN stored
       PROVE  t \in offered
  <2>1. t \in 1..listed /\ t \in Nat
    BY <1>5, <1>9, <1>10
  <2>2. ~(Opens(t) < i.cursor)
    BY <1>9, <1>10 DEF StoredBelow
  <2>3. Opens(t) >= i.cursor
    BY <1>9, <1>10, <2>1, <2>2 DEF Opens
  <2>4. Within(t, i.cursor, i.end)
    BY <1>10, <2>3 DEF Within
  <2>5. QED
    BY <2>1, <2>4
<1>11. ASSUME i.start # None
       PROVE  /\ \A t \in offered \ K : Limit <= Cardinality(K) /\ \A u \in K : u < t
              /\ \A t \in K : Within(t, i.cursor, i.end)
  <2>1. K = Lowest(offered, Limit)
    BY <1>6, <1>9, <1>11
  <2> HIDE DEF offered
  <2>2. QED
    <3>1. \A t \in offered \ K : Limit <= Cardinality(K) /\ \A u \in K : u < t
      BY <1>5, <2>1, LowestFirst
    <3>2. QED
      BY <1>6, <3>1 DEF offered
<1>12. CASE page = <<>>
  <2>1. import' = [i EXCEPT !.at = "done", !.whole = TRUE]
    BY <1>3, <1>12
  <2>2. /\ import' \in ImportRow /\ import'.at = "done" /\ import'.start = i.start
        /\ import'.end = i.end /\ import'.listed = i.listed
    BY <1>4, <2>1 DEF ImportRow
  <2>3. i.start # None => offered = {}
    <3>1. Cardinality(K) = 0
      BY <1>8, <1>12, FS_EmptySet
    <3>2. QED
      BY <1>5, <1>8, <1>11, <1>12, <3>1
  <2>4. ImportLeavesNoHole'
    BY <1>4, <1>10, <2>2, <2>3 DEF ImportLeavesNoHole, Within
  <2>5. Progress(import)'
    BY <1>1, <1>4, <2>2 DEF Progress, ImportInv
  <2>6. QED
    BY <1>4, <2>2, <2>4, <2>5 DEF ImportInv, ImportTyped
<1>13. CASE page # <<>>
  <2>1. import' = [i EXCEPT !.at = "store", !.page = page]
    BY <1>3, <1>13
  <2>2. /\ import' \in ImportRow /\ import'.at = "store" /\ import'.start = i.start
        /\ import'.end = i.end /\ import'.listed = i.listed /\ import'.cursor = i.cursor
        /\ import'.page = page /\ import'.whole = i.whole
    BY <1>4, <1>7, <2>1 DEF ImportRow
  <2>3. ASSUME i.start # None PROVE PageFits(import)'
    <3>1. ASSUME NEW t \in 1..i.listed, Within(t, i.cursor, i.end), t \notin K
          PROVE  Limit <= Cardinality(K) /\ \A u \in K : u < t
      <4>1. t \in offered
        BY <1>5, <1>9, <2>3, <3>1
      <4>2. QED
        BY <1>11, <2>3, <3>1, <4>1
    <3>2. DOMAIN page = K /\ K # {} /\ \A t \in K : Within(t, i.cursor, i.end)
      BY <1>7, <1>8, <1>11, <1>13, <2>3
    <3>3. QED
      BY <2>2, <3>1, <3>2 DEF PageFits, Within
  <2>4. Progress(import)'
    <3>1. i.start # None => StoredBelow(import, i.cursor)'
      BY <1>4, <1>9, <2>2 DEF StoredBelow, Within
    <3>2. i.listed <= listed /\ ~i.whole /\ DOMAIN page # {}
      BY <1>1, <1>4, <1>7, <1>8, <1>13 DEF ImportInv, Progress
    <3>3. QED
      BY <1>4, <1>9, <2>2, <2>3, <3>1, <3>2 DEF Progress
  <2>5. QED
    BY <1>4, <2>2, <2>4 DEF ImportInv, ImportTyped, ImportLeavesNoHole
<1>14. QED
  BY <1>12, <1>13

LEMMA PageJoins ==
    ASSUME NEW p \in Pages, NEW s \in Pages
    PROVE  Upserted(p, s) \in Pages /\ DOMAIN Upserted(p, s) = DOMAIN p \cup DOMAIN s
<1>1. p \in [DOMAIN p -> Quoted] /\ s \in [DOMAIN s -> Quoted]
      /\ DOMAIN p \in SUBSET (1..Slots) /\ DOMAIN s \in SUBSET (1..Slots)
  BY PagesAre
<1>2. Upserted(p, s) = [x \in DOMAIN p \cup DOMAIN s |-> IF x \in DOMAIN p THEN p[x] ELSE s[x]]
  BY DEF Upserted
<1>3. Upserted(p, s) \in [DOMAIN p \cup DOMAIN s -> Quoted]
  BY <1>1, <1>2
<1>4. DOMAIN Upserted(p, s) = DOMAIN p \cup DOMAIN s
  BY <1>2
<1>5. QED
  BY <1>1, <1>3, <1>4, PagesAre

\* The next page begins behind the last candle of this one.
LEMMA PageEnds ==
    ASSUME ImportAssumption, NEW i \in ImportRow, DOMAIN i.page # {}
    PROVE  /\ Max(DOMAIN i.page) \in DOMAIN i.page
           /\ \A t \in DOMAIN i.page : t <= Max(DOMAIN i.page)
           /\ NextCursor(i.page) \in Nat
           /\ NextCursor(i.page) = 2 * Max(DOMAIN i.page) + 2
           /\ PageFits(i) /\ i.cursor \in Nat => i.cursor < NextCursor(i.page)
<1>1. PICK P : P = DOMAIN i.page
  OBVIOUS
<1>2. P \in SUBSET (0..Slots) /\ Slots \in Nat /\ P # {}
  <2>1. P \in SUBSET (1..Slots)
    BY <1>1, PagesAre DEF ImportRow
  <2>2. Slots \in Nat
    BY DEF ImportAssumption
  <2>3. QED
    BY <1>1, <2>1, <2>2
<1>3. Max(P) \in P /\ \A t \in P : t <= Max(P)
  BY <1>2, MaxIs
<1>4. Max(P) \in Nat
  <2>1. \A t \in P : t \in Nat
    BY <1>2
  <2>2. QED
    BY <1>3, <2>1
<1>5. PageFits(i) /\ i.cursor \in Nat => Opens(Max(P)) >= i.cursor
  <2>1. i.cursor \in Nat => i.cursor # None
    BY DEF ImportAssumption
  <2>2. QED
    BY <1>1, <1>3, <2>1 DEF PageFits, Within
<1>6. NextCursor(i.page) = 2 * Max(P) + 2
  BY <1>1, <1>4 DEF NextCursor, Closes, Opens
<1>7. QED
  BY <1>1, <1>3, <1>4, <1>5, <1>6 DEF Opens

\* A page that is stored moves the cursor past everything that is in the table now.
LEMMA StoreImports == ASSUME ImportInv, Store PROVE ImportInv'
<1>1. PICK i : i = import
  OBVIOUS
<1>2. PICK next : next = NextCursor(i.page)
  OBVIOUS
<1> DEFINE P == DOMAIN i.page
           ends == Exhausted(i) \/ i.pages + 1 = i.maxPages
<1>3. /\ i \in ImportRow /\ i.at = "store" /\ UNCHANGED <<history, listed>>
      /\ stored' = Upserted(i.page, stored)
      /\ import' = [i EXCEPT !.at = IF ends THEN "done" ELSE "fetch", !.whole = Exhausted(i),
                             !.pages = i.pages + 1, !.cursor = IF ends THEN i.cursor ELSE next,
                             !.page = <<>>]
  BY <1>1, <1>2 DEF Store, ImportInv, ImportTyped
<1>4. /\ import'.at = (IF ends THEN "done" ELSE "fetch") /\ import'.whole = Exhausted(i)
      /\ import'.cursor = (IF ends THEN i.cursor ELSE next)
      /\ import'.start = i.start /\ import'.end = i.end /\ import'.listed = i.listed
  BY <1>3 DEF ImportRow
<1>5. /\ i.listed <= listed /\ listed \in 1..Slots /\ i.listed \in Nat
      /\ i.start # None => /\ i.cursor \in Nat /\ i.start \in Nat /\ i.start <= i.cursor
                           /\ StoredBelow(i, i.cursor) /\ PageFits(i)
  <2>1. Progress(i) /\ listed \in 1..Slots
    BY <1>1 DEF ImportInv, ImportTyped
  <2>2. i.listed \in Nat /\ (i.start # None => i.start \in Nat)
    BY <1>3, ImportAssumption DEF ImportRow
  <2>3. QED
    BY <1>3, <2>1, <2>2 DEF Progress
<1>6. stored' \in Pages /\ DOMAIN stored' = P \cup DOMAIN stored
  BY <1>1, <1>3, PageJoins DEF ImportRow, ImportInv, ImportTyped
<1>7. P \in SUBSET (1..Slots) /\ Slots \in Nat /\ Limit \in Nat
  BY <1>3, PagesAre, ImportAssumption DEF ImportRow
<1>8. /\ Max(P) \in P /\ Max(P) \in Nat /\ \A t \in P : t <= Max(P)
      /\ next \in Nat /\ next = 2 * Max(P) + 2
      /\ i.start # None => i.cursor < next
  <2>1. P # {}
    BY <1>1, <1>3 DEF ImportInv, Progress
  <2>2. QED
    BY <1>2, <1>3, <1>5, <1>7, <2>1, PageEnds, ImportAssumption
<1>9. import' \in ImportRow
  <2>1. <<>> \in Pages
    BY IdleOK DEF ImportRow, Idle
  <2>2. Exhausted(i) \in BOOLEAN
    BY DEF Exhausted
  <2>3. i.pages + 1 \in Nat
    BY <1>3 DEF ImportRow
  <2>4. (IF ends THEN i.cursor ELSE next) \in Nat \union {None}
    BY <1>3, <1>8 DEF ImportRow
  <2> HIDE DEF ends
  <2>5. QED
    BY <1>3, <2>1, <2>2, <2>3, <2>4 DEF ImportRow
<1>10. ASSUME i.start # None, NEW t \in 1..i.listed, Within(t, i.start, i.end), t \notin DOMAIN stored'
       PROVE  /\ Within(t, i.cursor, i.end) /\ Limit <= Cardinality(P) /\ next <= Opens(t)
  <2>1. t \in Nat /\ ~(Opens(t) < i.cursor) /\ t \notin P
    BY <1>5, <1>6, <1>10 DEF StoredBelow
  <2>2. Within(t, i.cursor, i.end)
    BY <1>5, <1>10, <2>1 DEF Within, Opens
  <2>3. Limit <= Cardinality(P) /\ \A u \in P : u < t
    BY <1>5, <1>10, <2>1, <2>2 DEF PageFits
  <2>4. QED
    BY <1>8, <2>1, <2>2, <2>3 DEF Opens
<1>11. ImportLeavesNoHole'
  <2> SUFFICES ASSUME import'.at = "done", import'.whole, import'.start # None,
                      NEW t \in 1..import'.listed, Within(t, import'.start, import'.end)
               PROVE  t \in DOMAIN stored'
    BY Zenon DEF ImportLeavesNoHole, Within
  <2>1. Exhausted(i) /\ i.start # None /\ t \in 1..i.listed /\ Within(t, i.start, i.end) /\ t \in Nat
    BY <1>4, <1>5
  <2>2. SUFFICES ASSUME t \notin DOMAIN stored' PROVE FALSE
    OBVIOUS
  <2>3. Within(t, i.cursor, i.end) /\ Limit <= Cardinality(P) /\ next <= Opens(t)
    BY <1>10, <2>1, <2>2
  <2>4. Cardinality(P) \in Nat
    <3>1. P \in SUBSET (0..Slots)
      BY <1>7
    <3>2. QED
      BY <1>7, <3>1, BelowFinite
  <2>5. ~(Cardinality(P) < Limit)
    BY <1>7, <2>3, <2>4
  <2>6. ~NoProgress(next, i.cursor)
    BY <1>5, <1>8, <2>1 DEF NoProgress
  <2>7. ~Beyond(next, i.end)
    <3>1. i.end \in Nat \union {None}
      BY <1>3, ImportAssumption DEF ImportRow
    <3>2. QED
      BY <1>8, <2>1, <2>3, <3>1 DEF Beyond, Within, Opens
  <2>8. QED
    BY <1>2, <2>1, <2>5, <2>6, <2>7 DEF Exhausted
<1>12. Progress(import)'
  <2>1. import'.at # "done" => ~import'.whole
    BY <1>4
  <2>2. import'.at # "store"
    BY <1>4
  <2>3. ASSUME import'.at # "done", i.start # None
        PROVE  import'.cursor \in Nat /\ i.start <= import'.cursor /\ StoredBelow(import, import.cursor)'
    <3>1. import'.cursor = next
      BY <1>4, <2>3
    <3>2. ASSUME NEW t \in 1..i.listed, Within(t, i.start, i.end), Opens(t) < next
          PROVE  t \in DOMAIN stored'
      BY <1>5, <1>8, <1>10, <2>3, <3>2 DEF Opens
    <3>3. StoredBelow(import, import.cursor)'
      BY <1>4, <3>1, <3>2 DEF StoredBelow, Within
    <3>4. QED
      BY <1>5, <1>8, <2>3, <3>1, <3>3
  <2>4. import'.listed <= listed'
    BY <1>3, <1>4, <1>5
  <2>5. QED
    BY <1>4, <2>1, <2>2, <2>3, <2>4 DEF Progress
<1>13. QED
  BY <1>3, <1>6, <1>9, <1>11, <1>12 DEF ImportInv, ImportTyped

\* An import that ends early, or is asked for nothing, has said nothing.
LEMMA EndImports ==
    ASSUME ImportInv, UNCHANGED <<history, listed, stored>>,
           import' = [import EXCEPT !.at = "done", !.page = <<>>]
    PROVE  ImportInv'
<1>1. import \in ImportRow /\ Progress(import) /\ ImportLeavesNoHole /\ <<>> \in Pages
  BY IdleOK DEF ImportInv, ImportTyped, Idle, ImportRow
<1>2. /\ import' \in ImportRow /\ import'.at = "done" /\ import'.whole = import.whole
      /\ import'.start = import.start /\ import'.end = import.end /\ import'.listed = import.listed
  BY <1>1 DEF ImportRow
<1>3. Progress(import)'
  BY <1>1, <1>2 DEF Progress
<1>4. ImportLeavesNoHole'
  BY <1>1, <1>2, Zenon DEF Progress, ImportLeavesNoHole, Within
<1>5. QED
  BY <1>2, <1>3, <1>4 DEF ImportInv, ImportTyped

LEMMA MarketImports == ASSUME ImportInv, NextCandle PROVE ImportInv'
<1>1. /\ listed' = listed + 1 /\ listed' \in 1..Slots
      /\ UNCHANGED <<history, stored, import>>
  BY ImportAssumption DEF NextCandle, ImportInv, ImportTyped
<1>2. import.listed \in Nat /\ listed \in Nat /\ import.listed <= listed
  BY ImportAssumption DEF ImportInv, ImportTyped, ImportRow, Progress
<1>3. Progress(import)'
  BY <1>1, <1>2 DEF Progress, ImportInv, StoredBelow, PageFits, Within
<1>4. ImportLeavesNoHole'
  BY <1>1 DEF ImportInv, ImportLeavesNoHole, Within
<1>5. QED
  BY <1>1, <1>3, <1>4 DEF ImportInv, ImportTyped

LEMMA ImportSteps == ASSUME ImportInv, [Next]_vars PROVE ImportInv'
<1>1. CASE ImportStep
  BY <1>1, RequestImports, FetchImports, StoreImports, MarketImports, EndImports
     DEF ImportStep, ImportFails
<1>2. CASE Crash
  BY <1>2, EndImports DEF Crash
<1>3. CASE UNCHANGED importVars
  BY <1>3 DEF importVars, ImportInv, ImportTyped, Progress, ImportLeavesNoHole, StoredBelow,
              PageFits, Within
<1>4. QED
  BY <1>1, <1>2, <1>3
     DEF Next, vars, CreateRun, UpdateStrategy, RemoveStrategy, RequestStep, Get, StartRun,
         StartRefused, StartRead, Load, Persist, Complete, FailRun, CallFails

\* An import that names its start and was not cut off has left no hole: not at the boundary
\* of two pages, however large they are, and not at the end of its range.
THEOREM ImportsWhole == Spec => []ImportLeavesNoHole
<1>1. Init => ImportInv
  BY InitImports DEF Init
<1>2. ImportInv /\ [Next]_vars => ImportInv'
  BY ImportSteps
<1>3. ImportInv => ImportLeavesNoHole
  BY DEF ImportInv
<1>4. QED
  BY <1>1, <1>2, <1>3, PTL DEF Spec

-----------------------------------------------------------------------------
(* Reading the candles of a run *)

LEMMA LowestSize ==
    ASSUME NEW N \in Nat, NEW S \in SUBSET (0..N), NEW n \in Nat
    PROVE  Cardinality(Lowest(S, n)) <= n
<1>1. Lowest(S, n) \in SUBSET (0..N)
  BY DEF Lowest
<1>2. Cardinality(Lowest(S, n)) \in Nat
  BY <1>1, BelowFinite
<1>3. SUFFICES ASSUME n < Cardinality(Lowest(S, n)) PROVE FALSE
  BY <1>2
<1>4. PICK t \in Lowest(S, n) : Cardinality(Below(Lowest(S, n), t)) = n
  BY <1>1, <1>3, RankTaken
<1>5. Below(Lowest(S, n), t) \in SUBSET Below(S, t)
  BY DEF Below, Lowest
<1>6. IsFiniteSet(Below(S, t)) /\ Cardinality(Below(S, t)) \in Nat
  BY BelowFinite
<1>7. Cardinality(Below(Lowest(S, n), t)) <= Cardinality(Below(S, t))
  BY <1>5, <1>6, FS_Subset
<1>8. Cardinality(Below(S, t)) < n
  BY <1>4 DEF Lowest
<1>9. QED
  BY <1>4, <1>6, <1>7, <1>8

Row == [slot : 1..Slots, close : Quoted]
SlotsOf(c) == {c[k].slot : k \in DOMAIN c}
InOrder(c) == \A k \in 2..Len(c) : c[k - 1].slot < c[k].slot

\* The candles of a page, the oldest first.
Listing(page) ==
    [k \in 1..Cardinality(page) |->
       LET t == CHOOSE t \in page : Cardinality({u \in page : u < t}) = k - 1
       IN  [slot |-> t, close |-> stored[t]]]

\* A page lists what it has, each once, in order.
LEMMA ListingLists ==
    ASSUME ImportAssumption, stored \in Pages, NEW page \in SUBSET DOMAIN stored
    PROVE  /\ Listing(page) \in Seq(Row) /\ Len(Listing(page)) = Cardinality(page)
           /\ Cardinality(page) \in Nat
           /\ InOrder(Listing(page))
           /\ SlotsOf(Listing(page)) = page
<1> DEFINE n == Cardinality(page)
           pick(k) == CHOOSE t \in page : Cardinality({u \in page : u < t}) = k - 1
<1>1. /\ page \in SUBSET (0..Slots) /\ Slots \in Nat /\ page \in SUBSET (1..Slots)
      /\ DOMAIN stored \in SUBSET (1..Slots) /\ stored \in [DOMAIN stored -> Quoted]
  <2>1. DOMAIN stored \in SUBSET (1..Slots) /\ stored \in [DOMAIN stored -> Quoted]
    BY PagesAre
  <2>2. Slots \in Nat
    BY DEF ImportAssumption
  <2>3. QED
    BY <2>1, <2>2
<1>2. n \in Nat
  BY <1>1, BelowFinite
<1>3. ASSUME NEW k \in 1..n PROVE pick(k) \in page /\ Cardinality(Below(page, pick(k))) = k - 1
  <2>1. k - 1 \in Nat /\ k - 1 < Cardinality(page)
    BY <1>2
  <2>2. \E t \in page : Cardinality(Below(page, t)) = k - 1
    BY <1>1, <2>1, RankTaken
  <2>3. \E t \in page : Cardinality({u \in page : u < t}) = k - 1
    BY <2>2 DEF Below
  <2>4. pick(k) \in page /\ Cardinality({u \in page : u < pick(k)}) = k - 1
    BY <2>3, Zenon
  <2>5. QED
    BY <2>4 DEF Below
<1>4. Listing(page) = [k \in 1..n |-> [slot |-> pick(k), close |-> stored[pick(k)]]]
  BY DEF Listing
<1> HIDE DEF n, pick
<1>5. Listing(page) \in [1..n -> Row]
  <2>1. ASSUME NEW k \in 1..n PROVE [slot |-> pick(k), close |-> stored[pick(k)]] \in Row
    <3>1. pick(k) \in page /\ pick(k) \in 1..Slots /\ pick(k) \in DOMAIN stored
      BY <1>1, <1>3
    <3>2. stored[pick(k)] \in Quoted
      BY <1>1, <3>1
    <3>3. QED
      BY <3>1, <3>2 DEF Row
  <2>2. QED
    BY <1>4, <2>1
<1>6. Listing(page) \in Seq(Row) /\ Len(Listing(page)) = n
  BY <1>2, <1>5
<1>7. \A k \in 1..n : Listing(page)[k].slot = pick(k)
  BY <1>4
<1>8. InOrder(Listing(page))
  <2> SUFFICES ASSUME NEW k \in 2..n PROVE pick(k - 1) < pick(k)
    <3>1. \A k \in 2..n : k \in 1..n /\ k - 1 \in 1..n
      BY <1>2
    <3>2. QED
      BY <1>6, <1>7, <3>1 DEF InOrder
  <2>1. k \in 1..n /\ k - 1 \in 1..n /\ k \in Nat
    BY <1>2
  <2>2. PICK t, u : t = pick(k - 1) /\ u = pick(k)
    OBVIOUS
  <2>3. t \in page /\ u \in page /\ Cardinality(Below(page, t)) = k - 2 /\ Cardinality(Below(page, u)) = k - 1
    BY <1>3, <2>1, <2>2
  <2>4. t \in Nat /\ u \in Nat
    BY <1>1, <2>3
  <2>5. ~(u < t)
    <3>1. SUFFICES ASSUME u < t PROVE FALSE
      OBVIOUS
    <3>2. Cardinality(Below(page, u)) < Cardinality(Below(page, t))
      BY <1>1, <2>3, <3>1, RankGrows
    <3>3. QED
      BY <2>1, <2>3, <3>2
  <2>6. t # u
    BY <2>1, <2>3
  <2>7. QED
    BY <2>2, <2>4, <2>5, <2>6
<1>9. page \subseteq SlotsOf(Listing(page))
  <2> SUFFICES ASSUME NEW t \in page PROVE \E k \in 1..n : pick(k) = t
    BY <1>5, <1>7 DEF SlotsOf
  <2>1. PICK r : r = Cardinality(Below(page, t))
    OBVIOUS
  <2>2. r \in Nat /\ r < n
    <3>1. Below(page, t) \in SUBSET page /\ Below(page, t) # page
      <4>1. ~(t < t)
        BY <1>1
      <4>2. QED
        BY <4>1 DEF Below
    <3>2. IsFiniteSet(page) /\ r \in Nat
      BY <1>1, <2>1, BelowFinite
    <3>3. r <= n /\ r # n
      BY <2>1, <3>1, <3>2, FS_Subset DEF n
    <3>4. QED
      BY <1>2, <3>2, <3>3
  <2>3. PICK k \in 1..n : k - 1 = r
    BY <1>2, <2>2
  <2>4. PICK u : u = pick(k)
    OBVIOUS
  <2>5. u \in page /\ Cardinality(Below(page, u)) = r
    BY <1>3, <2>3, <2>4
  <2>6. ~(u < t) /\ ~(t < u)
    <3>1. ASSUME u < t PROVE FALSE
      <4>1. Cardinality(Below(page, u)) < Cardinality(Below(page, t))
        BY <1>1, <2>5, <3>1, RankGrows
      <4>2. QED
        BY <2>1, <2>2, <2>5, <4>1
    <3>2. ASSUME t < u PROVE FALSE
      <4>1. Cardinality(Below(page, t)) < Cardinality(Below(page, u))
        BY <1>1, <2>5, <3>2, RankGrows
      <4>2. QED
        BY <2>1, <2>2, <2>5, <4>1
    <3>3. QED
      BY <3>1, <3>2
  <2>7. t \in Nat /\ u \in Nat
    BY <1>1, <2>5
  <2>8. QED
    BY <2>4, <2>6, <2>7
<1>10. SlotsOf(Listing(page)) \subseteq page
  BY <1>3, <1>5, <1>7 DEF SlotsOf
<1>11. QED
  BY <1>2, <1>6, <1>8, <1>9, <1>10 DEF n

\* What follows in order is in order.
LEMMA JoinInOrder ==
    ASSUME NEW c \in Seq(Row), NEW d \in Seq(Row), InOrder(c), InOrder(d),
           \A t \in SlotsOf(c), u \in SlotsOf(d) : t < u
    PROVE  /\ c \o d \in Seq(Row) /\ InOrder(c \o d)
           /\ SlotsOf(c \o d) = SlotsOf(c) \cup SlotsOf(d)
<1>1. /\ c \o d \in Seq(Row) /\ Len(c \o d) = Len(c) + Len(d)
      /\ Len(c) \in Nat /\ Len(d) \in Nat
      /\ DOMAIN c = 1..Len(c) /\ DOMAIN d = 1..Len(d) /\ DOMAIN (c \o d) = 1..(Len(c) + Len(d))
  OBVIOUS
<1>2. \A k \in 1..(Len(c) + Len(d)) : (c \o d)[k] = IF k <= Len(c) THEN c[k] ELSE d[k - Len(c)]
  OBVIOUS
<1>3. ASSUME NEW k \in 2..(Len(c) + Len(d)) PROVE (c \o d)[k - 1].slot < (c \o d)[k].slot
  <2>1. k \in Nat /\ k \in 1..(Len(c) + Len(d)) /\ k - 1 \in 1..(Len(c) + Len(d))
    BY <1>1
  <2>2. CASE k <= Len(c)
    <3>1. k \in 2..Len(c) /\ k - 1 <= Len(c)
      BY <1>1, <2>1, <2>2
    <3>2. QED
      BY <1>2, <2>1, <2>2, <3>1 DEF InOrder
  <2>3. CASE k = Len(c) + 1
    <3>1. Len(c) \in 1..Len(c) /\ 1 \in 1..Len(d) /\ k - 1 = Len(c) /\ k - Len(c) = 1 /\ ~(k <= Len(c))
      BY <1>1, <2>1, <2>3
    <3>2. c[Len(c)].slot \in SlotsOf(c) /\ d[1].slot \in SlotsOf(d)
      BY <1>1, <3>1 DEF SlotsOf
    <3>3. (c \o d)[k - 1] = c[Len(c)] /\ (c \o d)[k] = d[1]
      BY <1>2, <2>1, <3>1
    <3>4. QED
      BY <3>2, <3>3
  <2>4. CASE k > Len(c) + 1
    <3>1. k - Len(c) \in 2..Len(d) /\ ~(k <= Len(c)) /\ ~(k - 1 <= Len(c)) /\ (k - 1) - Len(c) = (k - Len(c)) - 1
      BY <1>1, <2>1, <2>4
    <3>2. (c \o d)[k - 1] = d[(k - Len(c)) - 1] /\ (c \o d)[k] = d[k - Len(c)]
      BY <1>2, <2>1, <3>1
    <3>3. QED
      BY <3>1, <3>2 DEF InOrder
  <2>5. QED
    BY <1>1, <2>1, <2>2, <2>3, <2>4
<1>4. SlotsOf(c \o d) = SlotsOf(c) \cup SlotsOf(d)
  <2>1. ASSUME NEW k \in DOMAIN (c \o d) PROVE (c \o d)[k].slot \in SlotsOf(c) \cup SlotsOf(d)
    <3>1. CASE k <= Len(c)
      <4>1. k \in DOMAIN c /\ (c \o d)[k] = c[k]
        BY <1>1, <1>2, <3>1
      <4>2. QED
        BY <4>1 DEF SlotsOf
    <3>2. CASE ~(k <= Len(c))
      <4>1. k - Len(c) \in DOMAIN d /\ (c \o d)[k] = d[k - Len(c)]
        BY <1>1, <1>2, <3>2
      <4>2. QED
        BY <4>1 DEF SlotsOf
    <3>3. QED
      BY <3>1, <3>2
  <2>2. ASSUME NEW k \in DOMAIN c PROVE c[k].slot \in SlotsOf(c \o d)
    <3>1. k \in DOMAIN (c \o d) /\ (c \o d)[k] = c[k]
      BY <1>1, <1>2
    <3>2. QED
      BY <3>1 DEF SlotsOf
  <2>3. ASSUME NEW k \in DOMAIN d PROVE d[k].slot \in SlotsOf(c \o d)
    <3>1. k + Len(c) \in DOMAIN (c \o d) /\ (c \o d)[k + Len(c)] = d[k]
      <4>1. k \in Nat /\ k + Len(c) \in 1..(Len(c) + Len(d)) /\ ~(k + Len(c) <= Len(c))
            /\ (k + Len(c)) - Len(c) = k
        BY <1>1
      <4>2. QED
        BY <1>1, <1>2, <4>1
    <3>2. QED
      BY <3>1, Zenon DEF SlotsOf
  <2>4. QED
    BY <2>1, <2>2, <2>3 DEF SlotsOf
<1>5. QED
  BY <1>1, <1>3, <1>4 DEF InOrder

Places == {"idle", "start", "started", "load", "persist", "complete", "fail", "ended"}

WorkShape(w) ==
    /\ w = [at |-> w.at, strategy |-> w.strategy, start |-> w.start, end |-> w.end,
            cursor |-> w.cursor, candles |-> w.candles, result |-> w.result, had |-> w.had]
    /\ w.at \in Places
    /\ w.start \in Nat /\ w.end \in Nat /\ w.cursor \in Nat
    /\ w.candles \in Seq(Row)

\* What was read of the range: in order, nothing else, and of what the table had when the
\* loading began all that lies in S.
ReadsOf(w, S) ==
    /\ InOrder(w.candles)
    /\ \A t \in SlotsOf(w.candles) : Within(t, w.start, w.end)
    /\ w.had \cap S \subseteq SlotsOf(w.candles)

\* A request that loads has read what opens before its cursor.
Loading(w) ==
    /\ w.start <= w.cursor
    /\ \A t \in SlotsOf(w.candles) : Opens(t) < w.cursor
    /\ w.had \in SUBSET DOMAIN stored
    /\ \A t \in w.had : Within(t, w.start, w.end)
    /\ ReadsOf(w, {t \in w.had : Opens(t) < w.cursor})

Reading(w) ==
    /\ WorkShape(w)
    /\ w.at \in {"idle", "start", "started"} => w.candles = <<>> /\ w.cursor = w.start
    /\ w.at = "load" => Loading(w)
    /\ w.at \in {"persist", "complete"} => ReadsOf(w, w.had)

RunShape(r) ==
    /\ r = [status |-> r.status, start |-> r.start, end |-> r.end,
            result |-> r.result, events |-> r.events]
    /\ r.start \in Nat /\ r.end \in Nat

ReadInv ==
    /\ work = [q \in Requests |-> work[q]]
    /\ \A q \in Requests : Reading(work[q])
    /\ run # None => RunShape(run)

\* One more page: what the table has between the cursor and the end of the page.
PageRead(w, page, c) ==
    /\ c \in Seq(Row) /\ InOrder(c) /\ SlotsOf(c) = SlotsOf(w.candles) \cup page
    /\ page \in SUBSET DOMAIN stored /\ Cardinality(page) \in Nat
    /\ \A t \in page : Within(t, w.start, w.end) /\ w.cursor <= Opens(t)
    /\ \A t \in w.had \ SlotsOf(c) :
         PageSize <= Cardinality(page) /\ \A u \in page : u < t
    /\ Cardinality(page) <= PageSize

LEMMA PageReads ==
    ASSUME stored \in Pages, NEW w, WorkShape(w), Loading(w),
           NEW page, page = List(w.cursor, w.end, PageSize),
           NEW c, c = w.candles \o Listing(page)
    PROVE  PageRead(w, page, c)
<1>1. PICK found : found = {t \in DOMAIN stored : Within(t, w.cursor, w.end)}
  OBVIOUS
<1>2. page = Lowest(found, PageSize)
  BY <1>1 DEF List, Lowest, Below
<1>3. /\ found \in SUBSET (0..Slots) /\ Slots \in Nat /\ PageSize \in Nat
      /\ \A t \in DOMAIN stored : t \in Nat
  <2>1. DOMAIN stored \in SUBSET (1..Slots)
    BY PagesAre
  <2>2. Slots \in Nat /\ PageSize \in Nat
    BY ImportAssumption, RunAssumption
  <2>3. found \in SUBSET (0..Slots)
    BY <1>1, <2>1, <2>2
  <2>4. QED
    BY <2>1, <2>2, <2>3
<1>4. page \in SUBSET found /\ found \in SUBSET DOMAIN stored
  BY <1>1, <1>2 DEF Lowest
<1>5. w.cursor # None /\ w.start # None /\ w.end # None
  BY ImportAssumption DEF WorkShape
<1>6. ASSUME NEW t \in page PROVE Within(t, w.start, w.end) /\ w.cursor <= Opens(t)
  <2>1. t \in Nat /\ w.cursor \in Nat /\ w.start \in Nat /\ w.start <= w.cursor
    BY <1>3, <1>4 DEF Loading, WorkShape
  <2>2. Within(t, w.cursor, w.end)
    BY <1>1, <1>4
  <2>3. QED
    BY <1>5, <2>1, <2>2 DEF Within, Opens
<1>7. /\ Listing(page) \in Seq(Row) /\ InOrder(Listing(page)) /\ SlotsOf(Listing(page)) = page
      /\ Cardinality(page) \in Nat
  BY <1>4, ListingLists, ImportAssumption
<1>8. ASSUME NEW t \in SlotsOf(w.candles), NEW u \in page PROVE t < u
  <2>1. t \in Nat
    <3>1. PICK k \in DOMAIN w.candles : t = w.candles[k].slot
      BY DEF SlotsOf
    <3>2. w.candles[k] \in Row
      BY <3>1 DEF WorkShape
    <3>3. QED
      BY <3>1, <3>2 DEF Row
  <2>2. u \in Nat /\ w.cursor \in Nat /\ w.cursor <= Opens(u)
    BY <1>3, <1>4, <1>6 DEF WorkShape
  <2>3. Opens(t) < w.cursor
    BY DEF Loading
  <2>4. QED
    BY <2>1, <2>2, <2>3 DEF Opens
<1>9. c \in Seq(Row) /\ InOrder(c) /\ SlotsOf(c) = SlotsOf(w.candles) \cup page
  <2>1. w.candles \in Seq(Row) /\ InOrder(w.candles)
    BY DEF WorkShape, Loading, ReadsOf
  <2>2. QED
    BY <1>7, <1>8, <2>1, JoinInOrder
<1>10. ASSUME NEW t \in w.had \ SlotsOf(c)
       PROVE  PageSize <= Cardinality(page) /\ \A u \in page : u < t
  <2>1. t \in DOMAIN stored /\ t \in Nat /\ Within(t, w.start, w.end) /\ ~(Opens(t) < w.cursor)
        /\ t \notin page
    BY <1>3, <1>9 DEF Loading, ReadsOf
  <2>2. Within(t, w.cursor, w.end)
    BY <1>5, <2>1 DEF Within, Opens, WorkShape
  <2>3. t \in found \ page
    BY <1>1, <2>1, <2>2
  <2>4. QED
    BY <1>2, <1>3, <2>3, LowestFirst
<1>11. QED
  BY <1>2, <1>3, <1>4, <1>6, <1>7, <1>9, <1>10, LowestSize DEF PageRead

LEMMA OneReads ==
    ASSUME ReadInv, NEW q \in Requests, NEW v, Reading(v),
           work' = [work EXCEPT ![q] = v], DOMAIN stored \subseteq DOMAIN stored',
           run' # None => RunShape(run)'
    PROVE  ReadInv'
<1>1. work' = [x \in Requests |-> IF x = q THEN v ELSE work[x]]
  BY DEF ReadInv
<1>2. work' = [x \in Requests |-> work'[x]]
  BY <1>1
<1>3. ASSUME NEW x \in Requests PROVE Reading(work[x])'
  <2>1. PICK w : w = work'[x]
    OBVIOUS
  <2>2. Reading(w)
    BY <1>1, <2>1 DEF ReadInv
  <2>3. QED
    BY <2>1, <2>2 DEF Reading, WorkShape, Loading, ReadsOf, InOrder, SlotsOf, Within
<1>4. QED
  BY <1>2, <1>3 DEF ReadInv

\* A request that goes elsewhere without reading.
LEMMA GoesOn ==
    ASSUME NEW w, WorkShape(w), NEW p \in Places
    PROVE  LET v == [w EXCEPT !.at = p]
           IN  /\ WorkShape(v) /\ v.at = p
               /\ v.start = w.start /\ v.end = w.end /\ v.cursor = w.cursor
               /\ v.candles = w.candles /\ v.had = w.had /\ v.strategy = w.strategy
               /\ v.result = w.result
BY DEF WorkShape

LEMMA EndsReading ==
    LET v == [NoWork EXCEPT !.at = "ended"]
    IN  Reading(v) /\ v.at = "ended"
<1>1. PICK v : v = [NoWork EXCEPT !.at = "ended"]
  OBVIOUS
<1>2. v = [at |-> "ended", strategy |-> None, start |-> 0, end |-> 0, cursor |-> 0,
           candles |-> <<>>, result |-> None, had |-> {}]
  BY <1>1 DEF NoWork
<1>3. WorkShape(v) /\ v.at = "ended"
  BY <1>2 DEF WorkShape, Places
<1>4. Reading(v)
  BY <1>3 DEF Reading
<1>5. QED
  BY <1>1, <1>3, <1>4

\* A request reads page after page, to the end of its range.
LEMMA LoadReads ==
    ASSUME ReadInv, stored \in Pages, NEW q \in Requests, Load(q)
    PROVE  ReadInv'
<1>1. PICK w : w = work[q]
  OBVIOUS
<1>2. PICK page : page = List(w.cursor, w.end, PageSize)
  OBVIOUS
<1>3. PICK c : c = w.candles \o Listing(page)
  OBVIOUS
<1> DEFINE more == page # {} /\ Cardinality(page) = PageSize /\ Following(Max(page)) <= w.end
           refused == c = <<>> \/ Refused(w.strategy)
<1>4. /\ w.at = "load" /\ UNCHANGED <<stored, run>>
      /\ work' = [work EXCEPT ![q] =
           IF more THEN [w EXCEPT !.candles = c, !.cursor = Following(Max(page))]
           ELSE IF refused THEN [w EXCEPT !.at = "fail", !.candles = c]
           ELSE [w EXCEPT !.at = "persist", !.candles = c, !.result = Simulate(w.strategy, c)]]
  BY <1>1, <1>2, <1>3, Zenon DEF Load, At, Listing, importVars
<1>5. WorkShape(w) /\ Loading(w)
  BY <1>1, <1>4 DEF ReadInv, Reading
<1>6. PageRead(w, page, c)
  BY <1>2, <1>3, <1>5, PageReads
<1>7. /\ page \in SUBSET (0..Slots) /\ Slots \in Nat /\ PageSize \in Nat \ {0}
      /\ \A t \in DOMAIN stored : t \in Nat
  <2>1. DOMAIN stored \in SUBSET (1..Slots)
    BY PagesAre
  <2>2. QED
    BY <1>6, <2>1, ImportAssumption, RunAssumption DEF PageRead
<1>8. \A t \in SlotsOf(c) : Within(t, w.start, w.end)
  BY <1>5, <1>6 DEF PageRead, Loading, ReadsOf
<1>9. /\ w.start \in Nat /\ w.end \in Nat /\ w.cursor \in Nat /\ w.start <= w.cursor
      /\ w.had \in SUBSET DOMAIN stored
      /\ \A t \in w.had : Within(t, w.start, w.end) /\ t \in Nat
      /\ \A t \in SlotsOf(w.candles) : t \in Nat /\ Opens(t) < w.cursor
  <2>1. \A t \in SlotsOf(w.candles) : t \in Nat
    <3>1. ASSUME NEW k \in DOMAIN w.candles PROVE w.candles[k].slot \in Nat
      <4>1. w.candles[k] \in Row
        BY <1>5 DEF WorkShape
      <4>2. QED
        BY <4>1 DEF Row
    <3>2. QED
      BY <3>1 DEF SlotsOf
  <2>2. QED
    BY <1>5, <1>7, <2>1 DEF WorkShape, Loading
<1>10. ASSUME page # {}
       PROVE  Max(page) \in page /\ Max(page) \in Nat /\ \A t \in page : t \in Nat /\ t <= Max(page)
  <2>1. Max(page) \in page /\ \A t \in page : t <= Max(page)
    BY <1>7, <1>10, MaxIs
  <2>2. QED
    BY <1>6, <1>7, <2>1 DEF PageRead
<1>11. ASSUME more PROVE ReadInv'
  <2>1. PICK m : m = Max(page)
    OBVIOUS
  <2>2. m \in page /\ m \in Nat /\ \A t \in page : t \in Nat /\ t <= m
    BY <1>10, <1>11, <2>1
  <2>3. PICK v : v = [w EXCEPT !.candles = c, !.cursor = Following(m)]
    OBVIOUS
  <2>4. Following(m) \in Nat /\ Following(m) = 2 * m + 1 /\ w.cursor <= 2 * m
    BY <1>6, <2>2 DEF PageRead, Following, Opens
  <2>5. /\ WorkShape(v) /\ v.at = "load" /\ v.candles = c /\ v.cursor = 2 * m + 1
        /\ v.start = w.start /\ v.end = w.end /\ v.had = w.had
    BY <1>4, <1>5, <1>6, <2>3, <2>4 DEF PageRead, WorkShape
  <2>6. \A t \in SlotsOf(c) : Opens(t) < 2 * m + 1
    <3>1. \A t \in page : Opens(t) < 2 * m + 1
      BY <2>2 DEF Opens
    <3>2. \A t \in SlotsOf(w.candles) : Opens(t) < 2 * m + 1
      BY <1>9, <2>2, <2>4 DEF Opens
    <3>3. QED
      BY <1>6, <3>1, <3>2 DEF PageRead
  <2>7. ASSUME NEW t \in w.had, Opens(t) < 2 * m + 1 PROVE t \in SlotsOf(c)
    <3>1. SUFFICES ASSUME t \notin SlotsOf(c) PROVE FALSE
      OBVIOUS
    <3>2. m < t /\ t \in Nat
      BY <1>6, <1>9, <2>2, <3>1 DEF PageRead
    <3>3. QED
      BY <2>2, <2>7, <3>2 DEF Opens
  <2>8. w.start <= 2 * m + 1
    BY <1>9, <2>2, <2>4
  <2>9. Loading(v)
    BY <1>6, <1>8, <1>9, <2>5, <2>6, <2>7, <2>8 DEF PageRead, Loading, ReadsOf
  <2>10. Reading(v)
    BY <2>5, <2>9 DEF Reading
  <2>11. work' = [work EXCEPT ![q] = v]
    BY <1>4, <1>11, <2>1, <2>3
  <2>12. QED
    BY <1>4, <2>10, <2>11, OneReads DEF ReadInv
<1>12. ASSUME ~more PROVE w.had \subseteq SlotsOf(c)
  <2>1. SUFFICES ASSUME NEW t \in w.had, t \notin SlotsOf(c) PROVE FALSE
    OBVIOUS
  <2>2. PageSize <= Cardinality(page) /\ \A u \in page : u < t
    BY <1>6, <2>1 DEF PageRead
  <2>3. Cardinality(page) = PageSize
    BY <1>6, <1>7, <2>2 DEF PageRead
  <2>4. page # {}
    BY <1>7, <2>3, FS_EmptySet
  <2>5. PICK m : m = Max(page)
    OBVIOUS
  <2>6. m < t /\ m \in Nat /\ t \in Nat
    BY <1>9, <1>10, <2>2, <2>4, <2>5
  <2>7. ~(Following(m) <= w.end)
    BY <1>12, <2>3, <2>4, <2>5
  <2>8. Opens(t) <= w.end
    <3>1. w.end # None
      BY <1>9, ImportAssumption
    <3>2. QED
      BY <1>9, <3>1 DEF Within
  <2>9. QED
    BY <1>9, <2>6, <2>7, <2>8 DEF Following, Opens
<1>13. ASSUME ~more, refused PROVE ReadInv'
  <2>1. PICK v : v = [w EXCEPT !.at = "fail", !.candles = c]
    OBVIOUS
  <2>2. WorkShape(v) /\ v.at = "fail"
    BY <1>5, <1>6, <2>1 DEF PageRead, WorkShape, Places
  <2>3. work' = [work EXCEPT ![q] = v]
    BY <1>4, <1>13, <2>1
  <2>4. QED
    BY <1>4, <2>2, <2>3, OneReads DEF ReadInv, Reading
<1>14. ASSUME ~more, ~refused PROVE ReadInv'
  <2>1. PICK r : r = Simulate(w.strategy, c)
    OBVIOUS
  <2>2. PICK v : v = [w EXCEPT !.at = "persist", !.candles = c, !.result = r]
    OBVIOUS
  <2>3. /\ WorkShape(v) /\ v.at = "persist" /\ v.candles = c
        /\ v.start = w.start /\ v.end = w.end /\ v.had = w.had
    BY <1>5, <1>6, <2>2 DEF PageRead, WorkShape, Places
  <2>4. ReadsOf(v, v.had)
    BY <1>6, <1>8, <1>12, <1>14, <2>3 DEF PageRead, ReadsOf
  <2>5. work' = [work EXCEPT ![q] = v]
    BY <1>4, <1>14, <2>1, <2>2
  <2>6. QED
    BY <1>4, <2>3, <2>4, <2>5, OneReads DEF ReadInv, Reading
<1>15. QED
  BY <1>11, <1>13, <1>14

LEMMA FirstReads == Init => ReadInv
<1> SUFFICES ASSUME Init PROVE ReadInv
  OBVIOUS
<1>1. PICK v : v = NoWork
  OBVIOUS
<1>2. v = [at |-> "idle", strategy |-> None, start |-> 0, end |-> 0, cursor |-> 0,
           candles |-> <<>>, result |-> None, had |-> {}]
  BY <1>1 DEF NoWork
<1>3. Reading(v)
  BY <1>2 DEF Reading, WorkShape, Places
<1>4. work = [q \in Requests |-> v] /\ run = None
  BY <1>1 DEF Init
<1>5. QED
  BY <1>3, <1>4 DEF ReadInv

\* Nothing leaves the table.
LEMMA TableGrows ==
    ASSUME ImportInv, [Next]_vars
    PROVE  DOMAIN stored \subseteq DOMAIN stored' /\ stored' \in Pages /\ stored \in Pages
<1>1. ImportInv'
  BY ImportSteps
<1>2. stored \in Pages /\ stored' \in Pages /\ import \in ImportRow
  BY <1>1 DEF ImportInv, ImportTyped
<1>3. CASE Store
  <2>1. stored' = Upserted(import.page, stored) /\ import.page \in Pages
    BY <1>2, <1>3 DEF Store, ImportRow
  <2>2. QED
    BY <1>2, <2>1, PageJoins
<1>4. CASE ~Store
  <2>1. stored' = stored
    BY <1>4 DEF Next, ImportStep, RequestImport, Fetch, ImportFails, NextCandle, vars, importVars,
        CreateRun, UpdateStrategy, RemoveStrategy, Crash, RequestStep, Get, StartRun,
        StartRefused, StartRead, Load, Persist, Complete, FailRun, CallFails
  <2>2. QED
    BY <1>2, <2>1
<1>5. QED
  BY <1>3, <1>4

\* A request that takes a step outside the loading.
LEMMA MovesReading ==
    ASSUME ReadInv, NEW q \in Requests, NEW p \in Places \ {"load"},
           Goto(q, p),
           p \in {"idle", "start", "started"} => work[q].at \in {"idle", "start", "started"},
           p \in {"persist", "complete"} => work[q].at \in {"persist", "complete"},
           UNCHANGED stored, run' # None => RunShape(run)'
    PROVE  ReadInv'
<1>1. PICK w : w = work[q]
  OBVIOUS
<1>2. PICK v : v = [w EXCEPT !.at = p]
  OBVIOUS
<1>3. Reading(w)
  BY <1>1 DEF ReadInv
<1>4. /\ WorkShape(v) /\ v.at = p /\ v.start = w.start /\ v.end = w.end /\ v.cursor = w.cursor
      /\ v.candles = w.candles /\ v.had = w.had
  BY <1>2, <1>3, GoesOn DEF Reading
<1>5. Reading(v)
  BY <1>1, <1>3, <1>4 DEF Reading, ReadsOf
<1>6. work' = [work EXCEPT ![q] = v]
  BY <1>1, <1>2 DEF Goto
<1>7. QED
  BY <1>5, <1>6, OneReads

LEMMA EndsOne ==
    ASSUME ReadInv, NEW q \in Requests, End(q), UNCHANGED stored, run' # None => RunShape(run)'
    PROVE  ReadInv'
<1>1. PICK v : v = [NoWork EXCEPT !.at = "ended"]
  OBVIOUS
<1>2. Reading(v)
  BY <1>1, EndsReading
<1>3. work' = [work EXCEPT ![q] = v]
  BY <1>1 DEF End
<1>4. QED
  BY <1>2, <1>3, OneReads

LEMMA GetReads ==
    ASSUME ReadInv, NEW q \in Requests, Get(q) PROVE ReadInv'
<1>1. PICK w : w = work[q]
  OBVIOUS
<1>2. PICK v : v = [w EXCEPT !.at = "start", !.strategy = strategy, !.start = run.start,
                             !.end = run.end, !.cursor = run.start]
  OBVIOUS
<1>3. /\ work' = [work EXCEPT ![q] = v] /\ UNCHANGED <<stored, run>>
      /\ w.at = "idle" /\ run # None
  BY <1>1, <1>2 DEF Get, At, importVars
<1>4. WorkShape(w) /\ w.candles = <<>> /\ RunShape(run)
  BY <1>1, <1>3 DEF ReadInv, Reading
<1>5. v = [at |-> "start", strategy |-> strategy, start |-> run.start, end |-> run.end,
           cursor |-> run.start, candles |-> w.candles, result |-> w.result, had |-> w.had]
  BY <1>2, <1>4 DEF WorkShape
<1>6. /\ v.at = "start" /\ v.candles = <<>> /\ v.cursor = v.start
      /\ v = [at |-> v.at, strategy |-> v.strategy, start |-> v.start, end |-> v.end,
              cursor |-> v.cursor, candles |-> v.candles, result |-> v.result, had |-> v.had]
      /\ v.start \in Nat /\ v.end \in Nat
  BY <1>4, <1>5 DEF RunShape
<1>7. Reading(v)
  <2>1. v.candles \in Seq(Row)
    BY <1>6
  <2>2. QED
    BY <1>6, <2>1 DEF Reading, WorkShape, Places
<1>8. QED
  BY <1>3, <1>7, OneReads DEF ReadInv, RunShape

LEMMA StartReadReads ==
    ASSUME ReadInv, stored \in Pages, NEW q \in Requests, StartRead(q) PROVE ReadInv'
<1>1. PICK w : w = work[q]
  OBVIOUS
<1>2. w.at = "started" /\ UNCHANGED <<stored, run>>
  BY <1>1 DEF StartRead, At, importVars
<1>3. CASE run = None
  BY <1>2, <1>3, EndsOne DEF StartRead, ReadInv
<1>4. CASE run # None
  <2>1. PICK h : h = {t \in DOMAIN stored : Within(t, w.start, w.end)}
    OBVIOUS
  <2>2. PICK v : v = [w EXCEPT !.at = "load", !.had = h]
    OBVIOUS
  <2>3. work' = [work EXCEPT ![q] = v]
    BY <1>1, <1>4, <2>1, <2>2 DEF StartRead
  <2>4. WorkShape(w) /\ w.candles = <<>> /\ w.cursor = w.start
    BY <1>1, <1>2 DEF ReadInv, Reading
  <2>5. /\ WorkShape(v) /\ v.at = "load" /\ v.candles = <<>> /\ v.cursor = w.start
        /\ v.start = w.start /\ v.end = w.end /\ v.had = h
    BY <2>2, <2>4 DEF WorkShape, Places
  <2>6. SlotsOf(v.candles) = {} /\ InOrder(v.candles)
    BY <2>5 DEF SlotsOf, InOrder
  <2>7. ASSUME NEW t \in h PROVE ~(Opens(t) < w.start)
    <3>1. w.start # None
      BY <2>4, ImportAssumption DEF WorkShape
    <3>2. Opens(t) >= w.start
      BY <2>1, <3>1 DEF Within
    <3>3. t \in Nat
      <4>1. DOMAIN stored \in SUBSET (1..Slots)
        BY PagesAre
      <4>2. QED
        BY <2>1, <4>1, ImportAssumption
    <3>4. QED
      BY <2>4, <3>2, <3>3 DEF WorkShape, Opens
  <2>8. Loading(v)
    BY <2>1, <2>4, <2>5, <2>6, <2>7 DEF Loading, ReadsOf, WorkShape
  <2>9. Reading(v)
    BY <2>5, <2>8 DEF Reading
  <2>10. QED
    BY <1>2, <2>3, <2>9, OneReads DEF ReadInv
<1>5. QED
  BY <1>3, <1>4

LEMMA RunGoesOn ==
    ASSUME RunShape(run), NEW s
    PROVE  LET r == [run EXCEPT !.status = s]
           IN  /\ RunShape(r) /\ r.status = s /\ r.start = run.start /\ r.end = run.end
               /\ r.result = run.result /\ r.events = run.events
BY DEF RunShape

LEMMA RequestReads ==
    ASSUME ReadInv, stored \in Pages, NEW q \in Requests, RequestStep(q)
    PROVE  ReadInv'
<1>1. CASE Get(q)
  BY <1>1, GetReads
<1>2. CASE StartRun(q)
  <2>1. PICK r : r = [run EXCEPT !.status = "RUNNING"]
    OBVIOUS
  <2>2. run' = r /\ RunShape(r) /\ UNCHANGED stored
    BY <1>2, <2>1, RunGoesOn DEF StartRun, ReadInv, importVars
  <2>3. RunShape(run)'
    BY <2>2 DEF RunShape
  <2>4. Goto(q, "started") /\ work[q].at = "start" /\ "started" \in Places \ {"load"}
    BY <1>2 DEF StartRun, At, Places
  <2>5. QED
    BY <2>2, <2>3, <2>4, MovesReading
<1>3. CASE StartRefused(q)
  BY <1>3, EndsOne DEF StartRefused, ReadInv, RunShape, importVars
<1>4. CASE StartRead(q)
  BY <1>4, StartReadReads
<1>5. CASE Load(q)
  BY <1>5, LoadReads
<1>6. CASE Persist(q)
  <2>1. UNCHANGED stored /\ At(q, "persist")
    BY <1>6 DEF Persist, importVars
  <2>2. CASE run = None
    BY <1>6, <2>1, <2>2, EndsOne DEF Persist
  <2>3. CASE run # None
    <3>1. PICK e : e = EventsOf(work[q].result)
      OBVIOUS
    <3>2. run' = [run EXCEPT !.events = e] /\ RunShape(run) /\ Goto(q, "complete")
      BY <1>6, <2>3, <3>1 DEF Persist, ReadInv
    <3>3. RunShape(run)'
      BY <3>2 DEF RunShape
    <3>4. Goto(q, "complete") /\ work[q].at = "persist" /\ "complete" \in Places \ {"load"}
      BY <2>1, <3>2 DEF At, Places
    <3>5. QED
      BY <2>1, <3>3, <3>4, MovesReading
  <2>4. QED
    BY <2>2, <2>3
<1>7. CASE Complete(q)
  <2>1. PICK v : v = [c \in DOMAIN NoResult |-> work[q].result[c]]
    OBVIOUS
  <2>2. /\ UNCHANGED stored /\ End(q)
        /\ run' = IF run = None \/ run.status # "RUNNING" THEN run
                  ELSE [run EXCEPT !.status = "COMPLETED", !.result = v]
    BY <1>7, <2>1 DEF Complete, importVars
  <2>3. run' # None => RunShape(run)'
    BY <2>2 DEF ReadInv, RunShape
  <2>4. QED
    BY <2>2, <2>3, EndsOne
<1>8. CASE FailRun(q)
  <2>1. /\ UNCHANGED stored /\ End(q)
        /\ run' = IF run = None \/ run.status # "RUNNING" THEN run
                  ELSE [run EXCEPT !.status = "FAILED"]
    BY <1>8 DEF FailRun, importVars
  <2>2. run' # None => RunShape(run)'
    BY <2>1 DEF ReadInv, RunShape
  <2>3. QED
    BY <2>1, <2>2, EndsOne
<1>9. CASE CallFails(q)
  <2>1. UNCHANGED <<stored, run>> /\ (run' # None => RunShape(run)')
    BY <1>9 DEF CallFails, importVars, ReadInv, RunShape
  <2>2. CASE At(q, "load")
    <3>1. Goto(q, "fail") /\ "fail" \in Places \ {"load"}
      BY <1>9, <2>2 DEF CallFails, Places
    <3>2. QED
      BY <2>1, <3>1, MovesReading
  <2>3. CASE ~At(q, "load")
    BY <1>9, <2>1, <2>3, EndsOne DEF CallFails
  <2>4. QED
    BY <2>2, <2>3
<1>10. QED
  BY <1>1, <1>2, <1>3, <1>4, <1>5, <1>6, <1>7, <1>8, <1>9 DEF RequestStep

LEMMA SameReads ==
    ASSUME ReadInv, UNCHANGED work, DOMAIN stored \subseteq DOMAIN stored',
           run' # None => RunShape(run)'
    PROVE  ReadInv'
<1>1. ASSUME NEW q \in Requests PROVE Reading(work[q])'
  <2>1. PICK w : w = work[q]
    OBVIOUS
  <2>2. Reading(w) /\ work'[q] = w
    BY <2>1 DEF ReadInv
  <2>3. QED
    BY <2>2 DEF Reading, WorkShape, Loading, ReadsOf, InOrder, SlotsOf, Within
<1>2. QED
  BY <1>1 DEF ReadInv

LEMMA CrashReads == ASSUME ReadInv, Crash PROVE ReadInv'
<1>1. PICK v : v = [NoWork EXCEPT !.at = "ended"]
  OBVIOUS
<1>2. /\ work' = [q \in Requests |-> IF At(q, "idle") THEN work[q] ELSE v]
      /\ UNCHANGED <<stored, run>>
  BY <1>1 DEF Crash
<1>3. Reading(v)
  BY <1>1, EndsReading
<1>4. ASSUME NEW q \in Requests PROVE Reading(work[q])'
  <2>1. PICK w : w = work'[q]
    OBVIOUS
  <2>2. Reading(w)
    BY <1>2, <1>3, <2>1 DEF ReadInv
  <2>3. QED
    BY <1>2, <2>1, <2>2 DEF Reading, WorkShape, Loading, ReadsOf, InOrder, SlotsOf, Within
<1>5. QED
  BY <1>2, <1>4 DEF ReadInv, RunShape

LEMMA ReadSteps == ASSUME ImportInv, ReadInv, [Next]_vars PROVE ReadInv'
<1>1. DOMAIN stored \subseteq DOMAIN stored' /\ stored \in Pages
  BY TableGrows
<1>2. CASE \E q \in Requests : RequestStep(q)
  BY <1>1, <1>2, RequestReads
<1>3. CASE Crash
  BY <1>3, CrashReads
<1>4. CASE CreateRun
  <2>1. UNCHANGED work
    BY <1>4 DEF CreateRun
  <2>2. RunShape(run)'
    <3>1. PICK start, end \in Times :
            run' = [status |-> "PENDING", start |-> start, end |-> end,
                    result |-> NoResult, events |-> NoEvents]
      BY <1>4 DEF CreateRun
    <3>2. start \in Nat /\ end \in Nat
      BY ImportAssumption
    <3>3. QED
      BY <3>1, <3>2 DEF RunShape
  <2>3. QED
    BY <1>1, <2>1, <2>2, SameReads
<1>5. CASE RemoveStrategy
  BY <1>1, <1>5, SameReads DEF RemoveStrategy
<1>6. CASE ImportStep \/ UpdateStrategy \/ UNCHANGED vars
  <2>1. UNCHANGED <<work, run>>
    BY <1>6 DEF ImportStep, UpdateStrategy, vars, runVars
  <2>2. run' # None => RunShape(run)'
    BY <2>1 DEF ReadInv, RunShape
  <2>3. QED
    BY <1>1, <2>1, <2>2, SameReads
<1>7. QED
  BY <1>2, <1>3, <1>4, <1>5, <1>6 DEF Next

\* A run is simulated over all of its range, in order, however its candles fall on pages and
\* whatever an import stores while they are read.
THEOREM RunsReadWholeRange == Spec => []RunReadsWholeRange
<1>1. Init => ImportInv /\ ReadInv
  BY InitImports, FirstReads DEF Init
<1>2. ImportInv /\ ReadInv /\ [Next]_vars => (ImportInv /\ ReadInv)'
  BY ImportSteps, ReadSteps
<1>3. ReadInv => RunReadsWholeRange
  BY DEF ReadInv, Reading, ReadsOf, RunReadsWholeRange, Simulated, At, InOrder, SlotsOf
<1>4. QED
  BY <1>1, <1>2, <1>3, PTL DEF Spec

-----------------------------------------------------------------------------
(* What a run simulates *)

\* A request works with parameters its strategy had, and its result is what they and the
\* candles it read make.
Simulates(w) ==
    /\ w.at \in {"start", "started", "load"} => w.strategy \in Strategies
    /\ w.at \in {"persist", "complete"} =>
         /\ w.strategy \in Strategies /\ ~Refused(w.strategy)
         /\ w.candles # <<>> /\ w.result = Simulate(w.strategy, w.candles)

SimulationInv ==
    /\ strategy \in Strategies \union {None}
    /\ strategy = None => run = None
    /\ \A q \in Requests : Simulates(work[q])

LEMMA FirstSimulation == Init => SimulationInv
BY RunAssumption DEF Init, SimulationInv, Simulates, NoWork

\* What is in the hands of the others stays there.
LEMMA OneMoves ==
    ASSUME ReadInv, NEW q \in Requests, NEW v, work' = [work EXCEPT ![q] = v]
    PROVE  work'[q] = v /\ \A x \in Requests : x # q => work'[x] = work[x]
BY DEF ReadInv

LEMMA EndsWork ==
    ASSUME ReadInv, NEW q \in Requests, End(q)
    PROVE  /\ work'[q].at = "ended"
           /\ \A x \in Requests : x # q => work'[x] = work[x]
<1>1. PICK v : v = [NoWork EXCEPT !.at = "ended"]
  OBVIOUS
<1>2. v.at = "ended"
  BY <1>1, EndsReading
<1>3. work' = [work EXCEPT ![q] = v]
  BY <1>1 DEF End
<1>4. QED
  BY <1>2, <1>3, OneMoves

LEMMA GoesToWork ==
    ASSUME ReadInv, NEW q \in Requests, NEW p, Goto(q, p)
    PROVE  /\ work'[q].at = p /\ work'[q].strategy = work[q].strategy /\ work'[q].result = work[q].result
           /\ work'[q].candles = work[q].candles
           /\ \A x \in Requests : x # q => work'[x] = work[x]
<1>1. PICK w : w = work[q]
  OBVIOUS
<1>2. PICK v : v = [w EXCEPT !.at = p]
  OBVIOUS
<1>3. WorkShape(w)
  BY <1>1 DEF ReadInv, Reading
<1>4. v.at = p /\ v.strategy = w.strategy /\ v.result = w.result /\ v.candles = w.candles
  BY <1>2, <1>3 DEF WorkShape
<1>5. work' = [work EXCEPT ![q] = v]
  BY <1>1, <1>2 DEF Goto
<1>6. work'[q] = v /\ \A x \in Requests : x # q => work'[x] = work[x]
  BY <1>5, OneMoves
<1>7. QED
  BY <1>1, <1>4, <1>6

\* A request that changes nothing but its own work.
LEMMA OneSimulates ==
    ASSUME ReadInv, SimulationInv, NEW q \in Requests, UNCHANGED strategy, run = None => run' = None,
           \A x \in Requests : x # q => work'[x] = work[x], Simulates(work'[q])
    PROVE  SimulationInv'
<1>1. ASSUME NEW x \in Requests PROVE Simulates(work'[x])
  BY DEF SimulationInv
<1>2. QED
  BY <1>1 DEF SimulationInv, Simulates

LEMMA GetSimulates ==
    ASSUME ReadInv, SimulationInv, NEW q \in Requests, Get(q) PROVE SimulationInv'
<1>1. PICK w : w = work[q]
  OBVIOUS
<1>2. PICK v : v = [w EXCEPT !.at = "start", !.strategy = strategy, !.start = run.start,
                             !.end = run.end, !.cursor = run.start]
  OBVIOUS
<1>3. work' = [work EXCEPT ![q] = v] /\ UNCHANGED <<strategy, run>> /\ run # None
  BY <1>1, <1>2 DEF Get, At
<1>4. v.at = "start" /\ v.strategy = strategy
  BY <1>1, <1>2 DEF ReadInv, Reading, WorkShape
<1>5. Simulates(v)
  BY <1>3, <1>4 DEF SimulationInv, Simulates
<1>6. work'[q] = v /\ \A x \in Requests : x # q => work'[x] = work[x]
  BY <1>3, OneMoves
<1>7. QED
  BY <1>3, <1>5, <1>6, OneSimulates

LEMMA StartReadSimulates ==
    ASSUME ReadInv, SimulationInv, NEW q \in Requests, StartRead(q) PROVE SimulationInv'
<1>1. work[q].at = "started" /\ UNCHANGED <<strategy, run>>
  BY DEF StartRead, At
<1>2. CASE run = None
  <2>1. work'[q].at = "ended" /\ \A x \in Requests : x # q => work'[x] = work[x]
    BY <1>2, EndsWork DEF StartRead
  <2>2. QED
    BY <1>1, <2>1, OneSimulates DEF Simulates
<1>3. CASE run # None
  <2>1. PICK w : w = work[q]
    OBVIOUS
  <2>2. PICK v : v = [w EXCEPT !.at = "load",
                       !.had = {t \in DOMAIN stored : Within(t, work[q].start, work[q].end)}]
    BY Zenon
  <2>3. work' = [work EXCEPT ![q] = v]
    BY <1>3, <2>1, <2>2 DEF StartRead
  <2>4. v.at = "load" /\ v.strategy = w.strategy
    BY <2>1, <2>2 DEF ReadInv, Reading, WorkShape
  <2>5. work'[q] = v /\ \A x \in Requests : x # q => work'[x] = work[x]
    BY <2>3, OneMoves
  <2>6. Simulates(work'[q])
    BY <1>1, <2>1, <2>4, <2>5 DEF SimulationInv, Simulates
  <2>7. QED
    BY <1>1, <2>5, <2>6, OneSimulates
<1>4. QED
  BY <1>2, <1>3

\* The last page is followed by the simulation of all that was read.
LEMMA LoadSimulates ==
    ASSUME ReadInv, SimulationInv, NEW q \in Requests, Load(q) PROVE SimulationInv'
<1>1. PICK w : w = work[q]
  OBVIOUS
<1>2. PICK page : page = List(w.cursor, w.end, PageSize)
  OBVIOUS
<1>3. PICK c : c = w.candles \o Listing(page)
  OBVIOUS
<1> DEFINE more == page # {} /\ Cardinality(page) = PageSize /\ Following(Max(page)) <= w.end
           refused == c = <<>> \/ Refused(w.strategy)
<1>4. /\ w.at = "load" /\ UNCHANGED <<strategy, run>>
      /\ work' = [work EXCEPT ![q] =
           IF more THEN [w EXCEPT !.candles = c, !.cursor = Following(Max(page))]
           ELSE IF refused THEN [w EXCEPT !.at = "fail", !.candles = c]
           ELSE [w EXCEPT !.at = "persist", !.candles = c, !.result = Simulate(w.strategy, c)]]
  BY <1>1, <1>2, <1>3, Zenon DEF Load, At, Listing
<1>5. WorkShape(w) /\ w.strategy \in Strategies
  BY <1>1, <1>4 DEF ReadInv, Reading, SimulationInv, Simulates
<1>6. ASSUME NEW v, work' = [work EXCEPT ![q] = v], Simulates(v) PROVE SimulationInv'
  <2>1. work'[q] = v /\ \A x \in Requests : x # q => work'[x] = work[x]
    BY <1>6, OneMoves
  <2>2. QED
    BY <1>4, <1>6, <2>1, OneSimulates
<1>7. CASE more
  <2>1. PICK m : m = Following(Max(page))
    OBVIOUS
  <2>2. PICK v : v = [w EXCEPT !.candles = c, !.cursor = m]
    OBVIOUS
  <2>3. v.at = "load" /\ v.strategy = w.strategy
    BY <1>4, <1>5, <2>2 DEF WorkShape
  <2>4. work' = [work EXCEPT ![q] = v]
    BY <1>4, <1>7, <2>1, <2>2
  <2>5. QED
    BY <1>5, <1>6, <2>3, <2>4 DEF Simulates
<1>8. CASE ~more /\ refused
  <2>1. PICK v : v = [w EXCEPT !.at = "fail", !.candles = c]
    OBVIOUS
  <2>2. v.at = "fail"
    BY <1>5, <2>1 DEF WorkShape
  <2>3. work' = [work EXCEPT ![q] = v]
    BY <1>4, <1>8, <2>1
  <2>4. QED
    BY <1>6, <2>2, <2>3 DEF Simulates
<1>9. CASE ~more /\ ~refused
  <2>1. PICK r : r = Simulate(w.strategy, c)
    OBVIOUS
  <2>2. PICK v : v = [w EXCEPT !.at = "persist", !.candles = c, !.result = r]
    OBVIOUS
  <2>3. v.at = "persist" /\ v.strategy = w.strategy /\ v.candles = c /\ v.result = r
    BY <1>5, <2>2 DEF WorkShape
  <2>4. work' = [work EXCEPT ![q] = v]
    BY <1>4, <1>9, <2>1, <2>2
  <2>5. Simulates(v)
    BY <1>5, <1>9, <2>1, <2>3 DEF Simulates
  <2>6. QED
    BY <1>6, <2>4, <2>5
<1>10. QED
  BY <1>7, <1>8, <1>9

\* A request that goes on to start, persist, end or fail.
LEMMA OnSimulates ==
    ASSUME ReadInv, SimulationInv, NEW q \in Requests, UNCHANGED strategy, run = None => run' = None,
           \/ End(q)
           \/ Goto(q, "fail")
           \/ At(q, "start") /\ Goto(q, "started")
           \/ At(q, "persist") /\ Goto(q, "complete")
    PROVE  SimulationInv'
<1>1. CASE End(q)
  <2>1. work'[q].at = "ended" /\ \A x \in Requests : x # q => work'[x] = work[x]
    BY <1>1, EndsWork
  <2>2. QED
    BY <2>1, OneSimulates DEF Simulates
<1>2. ASSUME NEW p, Goto(q, p),
             \/ p = "fail"
             \/ At(q, "start") /\ p = "started"
             \/ At(q, "persist") /\ p = "complete"
      PROVE  SimulationInv'
  <2>1. /\ work'[q].at = p /\ work'[q].strategy = work[q].strategy /\ work'[q].result = work[q].result
        /\ work'[q].candles = work[q].candles
        /\ \A x \in Requests : x # q => work'[x] = work[x]
    BY <1>2, GoesToWork
  <2>2. Simulates(work[q])
    BY DEF SimulationInv
  <2>3. Simulates(work'[q])
    BY <1>2, <2>1, <2>2 DEF Simulates, At
  <2>4. QED
    BY <2>1, <2>3, OneSimulates
<1>3. QED
  BY <1>1, <1>2

LEMMA RequestSimulates ==
    ASSUME ReadInv, SimulationInv, NEW q \in Requests, RequestStep(q) PROVE SimulationInv'
<1>1. CASE Get(q) \/ StartRead(q) \/ Load(q)
  BY <1>1, GetSimulates, StartReadSimulates, LoadSimulates
<1>2. CASE StartRun(q)
  <2>1. At(q, "start") /\ Goto(q, "started") /\ UNCHANGED strategy /\ run # None
    BY <1>2 DEF StartRun
  <2>2. QED
    BY <2>1, OnSimulates
<1>3. CASE StartRefused(q)
  <2>1. End(q) /\ UNCHANGED <<strategy, run>>
    BY <1>3 DEF StartRefused
  <2>2. QED
    BY <2>1, OnSimulates
<1>4. CASE Persist(q)
  <2>1. /\ UNCHANGED strategy /\ (run = None => UNCHANGED run)
        /\ End(q) \/ (At(q, "persist") /\ Goto(q, "complete"))
    BY <1>4 DEF Persist
  <2>2. QED
    BY <2>1, OnSimulates
<1>5. CASE Complete(q) \/ FailRun(q)
  <2>1. UNCHANGED strategy /\ End(q) /\ (run = None => UNCHANGED run)
    BY <1>5 DEF Complete, FailRun
  <2>2. QED
    BY <2>1, OnSimulates
<1>6. CASE CallFails(q)
  <2>1. UNCHANGED <<strategy, run>> /\ (End(q) \/ Goto(q, "fail"))
    BY <1>6 DEF CallFails
  <2>2. QED
    BY <2>1, OnSimulates
<1>7. QED
  BY <1>1, <1>2, <1>3, <1>4, <1>5, <1>6 DEF RequestStep

LEMMA SimulationSteps ==
    ASSUME ReadInv, SimulationInv, [Next]_vars PROVE SimulationInv'
<1>1. CASE \E q \in Requests : RequestStep(q)
  BY <1>1, RequestSimulates
<1>2. CASE Crash
  <2>1. PICK v : v = [NoWork EXCEPT !.at = "ended"]
    OBVIOUS
  <2>2. v.at = "ended"
    BY <2>1, EndsReading
  <2>3. /\ work' = [q \in Requests |-> IF At(q, "idle") THEN work[q] ELSE v]
        /\ UNCHANGED <<strategy, run>>
    BY <1>2, <2>1 DEF Crash
  <2>4. \A q \in Requests : Simulates(work'[q])
    BY <2>2, <2>3 DEF SimulationInv, Simulates
  <2>5. QED
    BY <2>3, <2>4 DEF SimulationInv, Simulates
<1>3. CASE CreateRun \/ UpdateStrategy \/ RemoveStrategy
  BY <1>3, RunAssumption DEF CreateRun, UpdateStrategy, RemoveStrategy, SimulationInv, Simulates
<1>4. CASE ImportStep \/ UNCHANGED vars
  <2>1. UNCHANGED <<strategy, run, work>>
    BY <1>4 DEF ImportStep, vars, runVars
  <2>2. QED
    BY <2>1 DEF SimulationInv, Simulates
<1>5. QED
  BY <1>1, <1>2, <1>3, <1>4 DEF Next

LEMMA OrderedCandles ==
    ASSUME NEW c \in Seq(Row), InOrder(c) PROVE Ordered(c)
<1>1. PICK N \in Nat : N = Len(c) /\ DOMAIN c = 1..N
  OBVIOUS
<1>2. \A k \in 1..N : c[k] \in Row
  BY <1>1
<1>3. \A x \in Row : x \in Candle /\ x.slot \in Nat
  <2>1. 1..Slots \subseteq Nat /\ Quoted \subseteq Nat \ {0}
    BY ImportAssumption DEF Quoted
  <2>2. QED
    BY <2>1 DEF Row, Candle
<1>4. c \in Seq(Candle)
  BY <1>3
<1> DEFINE S == {n \in 0..N : \A i \in 1..N : i < n => c[i].slot < c[n].slot}
<1>5. 0 \in S
  OBVIOUS
<1>6. ASSUME NEW n \in S, n + 1 \in 0..N PROVE n + 1 \in S
  <2> SUFFICES ASSUME NEW i \in 1..N, i < n + 1 PROVE c[i].slot < c[n + 1].slot
    BY <1>6
  <2>1. n \in 1..N /\ n + 1 \in 2..N /\ n + 1 \in 1..N /\ (n + 1) - 1 = n
    BY <1>6
  <2>2. PICK a \in Nat, b \in Nat, d \in Nat : a = c[i].slot /\ b = c[n].slot /\ d = c[n + 1].slot
    BY <1>2, <1>3, <2>1
  <2>3. b < d
    BY <1>1, <2>1, <2>2 DEF InOrder
  <2>4. i = n \/ i < n
    BY <2>1
  <2>5. a = b \/ a < b
    BY <2>2, <2>4
  <2>6. a < d
    BY <2>3, <2>5
  <2>7. QED
    BY <2>2, <2>6
<1>7. 0..N \subseteq S
  <2> HIDE DEF S
  <2>1. QED
    BY <1>5, <1>6, Upwards
<1>8. \A i, j \in 1..N : i < j => c[i].slot < c[j].slot
  BY <1>7
<1>9. QED
  BY <1>1, <1>4, <1>8 DEF Ordered

LEMMA SimulationIsExplained == ReadInv /\ SimulationInv => SimulationExplained
<1> SUFFICES ASSUME ReadInv, SimulationInv, NEW q \in Requests, Simulated(q),
                    NEW w, w = work[q], NEW p, p = w.strategy
             PROVE  /\ EquityExplained(w.result, w.candles)
                    /\ LadderClimbedOnce(w.result, p)
                    /\ ColumnsExplained(w.result, p)
                    /\ SingleEntryHolds(w.candles)
  BY DEF SimulationExplained
<1>1. /\ p \in Strategies /\ ~Refused(p) /\ w.candles # <<>>
      /\ w.result = Simulate(p, w.candles)
  BY DEF SimulationInv, Simulates, Simulated
<1>2. w.candles \in Seq(Row) /\ InOrder(w.candles)
  BY DEF ReadInv, Reading, WorkShape, ReadsOf, Simulated
<1>3. PICK c : c = w.candles
  OBVIOUS
<1>4. c \in Seq(Row) /\ Ordered(c) /\ c # <<>>
  BY <1>1, <1>2, <1>3, OrderedCandles
<1>5. Playable(p)
  <2>1. p.maxEntries \in Int /\ p.from \in Int /\ p.target \in Nat
    BY <1>1, RunAssumption
  <2>2. QED
    BY <1>1, <2>1 DEF Playable, Refused
<1>6. \A k \in DOMAIN c : Affords(p, {c[k].close})
  <2>1. ASSUME NEW k \in DOMAIN c PROVE c[k].close \in Prices \cup Interim
    <3>1. c[k] \in Row
      BY <1>4
    <3>2. QED
      BY <3>1 DEF Row, Quoted
  <2>2. Affords(p, Prices \cup Interim)
    BY <1>1, RunAssumption
  <2>3. QED
    BY <2>1, <2>2 DEF Affords
<1>7. /\ EquityExplained(Simulate(p, c), c)
      /\ LadderClimbedOnce(Simulate(p, c), p)
      /\ ColumnsExplained(Simulate(p, c), p)
  BY <1>4, <1>5, <1>6, EventsExplainResults
<1>8. SingleEntryHolds(c)
  BY <1>4, SingleEntryIsBaseline DEF Ordered
<1>9. QED
  BY <1>1, <1>3, <1>7, <1>8

\* The trades of every simulation of a run explain its equity curve, its result and the
\* report, whichever candles the table held, however the pages fell, and whatever its owner
\* made of the strategy after the run was read.
THEOREM SimulationsExplained == Spec => []SimulationExplained
<1>1. Init => ImportInv /\ ReadInv /\ SimulationInv
  BY InitImports, FirstReads, FirstSimulation DEF Init
<1>2. ImportInv /\ ReadInv /\ SimulationInv /\ [Next]_vars
        => (ImportInv /\ ReadInv /\ SimulationInv)'
  BY ImportSteps, ReadSteps, SimulationSteps
<1>3. ReadInv /\ SimulationInv => SimulationExplained
  BY SimulationIsExplained
<1>4. QED
  BY <1>1, <1>2, <1>3, PTL DEF Spec

-----------------------------------------------------------------------------
(* The status of a run *)

Working == {"started", "load", "persist", "complete", "fail"}

\* None, which stands for null, is no row of the table.
NoneIsNoRow ==
    \A s, a, b, r, e : [status |-> s, start |-> a, end |-> b, result |-> r, events |-> e] # None

\* No request has got further than to read the run while the run is not there, unless its
\* strategy was removed, and then it never comes back.
Owned ==
    run = None /\ strategy # None => \A q \in Requests : work[q].at = "idle"

OneWorks ==
    \A p, q \in Requests : work[p].at \in Working /\ work[q].at \in Working => p = q

Empty(r) == r.result = NoResult /\ r.events = NoEvents

\* A run one works on is running; its events are stored before its result.
Worked(r, w) ==
    /\ r.status = "RUNNING" /\ r.result = NoResult
    /\ r.events = IF w.at = "complete" THEN EventsOf(w.result) ELSE NoEvents

Settled(r) ==
    /\ r.status \in {"PENDING", "FAILED"} => Empty(r)
    /\ r.status = "COMPLETED" => Agrees(r.result, r.events)

StatusInv ==
    /\ Owned
    /\ OneWorks
    /\ run # None =>
         /\ run.status \in {"PENDING", "RUNNING", "COMPLETED", "FAILED"}
         /\ Settled(run)
         /\ \A q \in Requests : work[q].at \in Working => Worked(run, work[q])
         /\ run.status = "RUNNING" => failed \/ \E q \in Requests : work[q].at \in Working

LEMMA FirstStatus == Init => StatusInv
BY DEF Init, StatusInv, Owned, OneWorks, Working, NoWork

LEMMA StatusIsTrue == StatusInv /\ ReadInv => RunStatusTrue
<1> SUFFICES ASSUME StatusInv, ReadInv, run # None PROVE
      /\ run.status \in {"PENDING", "FAILED"} => run.result = NoResult /\ run.events = NoEvents
      /\ run.status = "RUNNING" =>
           failed \/ \E q \in Requests : work[q].at \notin {"idle", "start", "ended"}
      /\ run.status = "COMPLETED" => Agrees(run.result, run.events)
  BY Zenon DEF RunStatusTrue
<1>1. run.status = "RUNNING" =>
        failed \/ \E q \in Requests : work[q].at \notin {"idle", "start", "ended"}
  BY DEF StatusInv, Working
<1>2. QED
  BY <1>1 DEF StatusInv, Settled, Empty

\* A request that ends, or goes on without writing.
LEMMA QuietStatus ==
    ASSUME ReadInv, StatusInv, NEW q \in Requests,
           \A x \in Requests : x # q => work'[x] = work[x],
           UNCHANGED <<strategy, run>>, run # None \/ work[q].at # "idle",
           failed' \in {failed, TRUE},
           \/ work'[q].at \notin Working
           \/ /\ work[q].at \in Working /\ work[q].at # "complete"
              /\ work'[q].at \in Working /\ work'[q].at # "complete",
           \/ work'[q].at \in Working
           \/ work[q].at \notin Working
           \/ failed' = TRUE
           \/ run = None
    PROVE  StatusInv'
<1>1. Owned'
  BY DEF StatusInv, Owned
<1>2. OneWorks'
  BY DEF StatusInv, OneWorks
<1>3. ASSUME run # None
      PROVE  /\ run.status \in {"PENDING", "RUNNING", "COMPLETED", "FAILED"}
             /\ Settled(run)
             /\ \A x \in Requests : work'[x].at \in Working => Worked(run, work'[x])
             /\ run.status = "RUNNING" => failed' \/ \E x \in Requests : work'[x].at \in Working
  <2>1. ASSUME NEW x \in Requests, work'[x].at \in Working PROVE Worked(run, work'[x])
    BY <1>3, <2>1 DEF StatusInv, Worked
  <2>2. ASSUME run.status = "RUNNING", ~failed' PROVE \E x \in Requests : work'[x].at \in Working
    BY <1>3, <2>2 DEF StatusInv
  <2>3. QED
    BY <1>3, <2>1, <2>2 DEF StatusInv
<1>4. QED
  BY <1>1, <1>2, <1>3 DEF StatusInv, Settled, Worked, Agrees, EventsOf, Empty

LEMMA GetStatus ==
    ASSUME ReadInv, StatusInv, NEW q \in Requests, Get(q) PROVE StatusInv'
<1>1. PICK w : w = work[q]
  OBVIOUS
<1>2. PICK v : v = [w EXCEPT !.at = "start", !.strategy = strategy, !.start = run.start,
                             !.end = run.end, !.cursor = run.start]
  OBVIOUS
<1>3. /\ work' = [work EXCEPT ![q] = v] /\ UNCHANGED <<strategy, run, failed>>
      /\ w.at = "idle" /\ run # None
  BY <1>1, <1>2 DEF Get, At
<1>4. WorkShape(w)
  BY <1>1 DEF ReadInv, Reading
<1>5. v.at = "start" /\ v.strategy = strategy
  BY <1>2, <1>4 DEF WorkShape
<1>6. work'[q] = v /\ \A x \in Requests : x # q => work'[x] = work[x]
  BY <1>3, OneMoves
<1>7. work[q].at \notin Working /\ work'[q].at \notin Working
  BY <1>1, <1>3, <1>5, <1>6 DEF Working
<1>8. QED
  BY <1>3, <1>6, <1>7, QuietStatus

LEMMA StartReadStatus ==
    ASSUME ReadInv, StatusInv, NEW q \in Requests, StartRead(q) PROVE StatusInv'
<1>1. work[q].at = "started" /\ UNCHANGED <<strategy, run, failed>>
  BY DEF StartRead, At
<1>2. CASE run = None
  <2>1. work'[q].at = "ended" /\ \A x \in Requests : x # q => work'[x] = work[x]
    BY <1>2, EndsWork DEF StartRead
  <2>2. QED
    BY <1>1, <1>2, <2>1, QuietStatus DEF Working
<1>3. CASE run # None
  <2>1. PICK w : w = work[q]
    OBVIOUS
  <2>2. PICK v : v = [w EXCEPT !.at = "load",
                       !.had = {t \in DOMAIN stored : Within(t, work[q].start, work[q].end)}]
    OBVIOUS
  <2>3. work' = [work EXCEPT ![q] = v]
    BY <1>3, <2>1, <2>2 DEF StartRead
  <2>4. v.at = "load" /\ v.strategy = w.strategy
    <3>1. WorkShape(w)
      BY <2>1 DEF ReadInv, Reading
    <3>2. QED
      BY <2>2, <3>1 DEF WorkShape
  <2>5. work'[q] = v /\ \A x \in Requests : x # q => work'[x] = work[x]
    BY <2>3, OneMoves
  <2>6. QED
    BY <1>1, <1>3, <2>4, <2>5, QuietStatus DEF Working
<1>4. QED
  BY <1>2, <1>3

LEMMA LoadStatus ==
    ASSUME ReadInv, StatusInv, NEW q \in Requests, Load(q) PROVE StatusInv'
<1>1. PICK w : w = work[q]
  OBVIOUS
<1>2. WorkShape(w) /\ w.at = "load" /\ UNCHANGED <<strategy, run, failed>>
  BY <1>1 DEF Load, At, ReadInv, Reading
<1>3. PICK m, c, r :
        \/ work' = [work EXCEPT ![q] = [w EXCEPT !.candles = c, !.cursor = m]]
        \/ work' = [work EXCEPT ![q] = [w EXCEPT !.at = "fail", !.candles = c]]
        \/ work' = [work EXCEPT ![q] = [w EXCEPT !.at = "persist", !.candles = c, !.result = r]]
  BY <1>1, Zenon DEF Load
<1>4. PICK v : work' = [work EXCEPT ![q] = v] /\ v.at \in {"load", "persist", "fail"}
  <2>1. ASSUME NEW v, v \in {[w EXCEPT !.candles = c, !.cursor = m],
                             [w EXCEPT !.at = "fail", !.candles = c],
                             [w EXCEPT !.at = "persist", !.candles = c, !.result = r]}
        PROVE  v.at \in {"load", "persist", "fail"}
    BY <1>2, <2>1 DEF WorkShape
  <2>2. QED
    BY <1>3, <2>1
<1>5. work'[q] = v /\ \A x \in Requests : x # q => work'[x] = work[x]
  BY <1>4, OneMoves
<1>6. /\ work[q].at \in Working /\ work[q].at # "complete" /\ work[q].at # "idle"
      /\ work'[q].at \in Working /\ work'[q].at # "complete"
  BY <1>1, <1>2, <1>4, <1>5 DEF Working
<1>7. QED
  BY <1>2, <1>5, <1>6, QuietStatus

LEMMA StartRunStatus ==
    ASSUME NoneIsNoRow, ReadInv, StatusInv, NEW q \in Requests, StartRun(q) PROVE StatusInv'
<1>1. PICK r : r = [run EXCEPT !.status = "RUNNING"]
  OBVIOUS
<1>2. /\ work[q].at = "start" /\ run # None /\ run.status = "PENDING" /\ run' = r
      /\ UNCHANGED <<strategy, failed>> /\ Goto(q, "started")
  BY <1>1 DEF StartRun, At, Startable
<1>3. /\ work'[q].at = "started" /\ work'[q].strategy = work[q].strategy
      /\ \A x \in Requests : x # q => work'[x] = work[x]
  BY <1>2, GoesToWork
<1>4. /\ RunShape(r) /\ r.status = "RUNNING" /\ r.result = run.result /\ r.events = run.events
      /\ RunShape(run)
  BY <1>1, <1>2, RunGoesOn DEF ReadInv
<1>5. r # None
  BY <1>4 DEF RunShape, NoneIsNoRow
<1>6. \A x \in Requests : work[x].at \notin Working
  BY <1>2 DEF StatusInv, Worked
<1>7. Empty(r)
  BY <1>2, <1>4 DEF StatusInv, Settled, Empty
<1>8. \A x \in Requests : work'[x].at \in Working => x = q
  BY <1>3, <1>6
<1>9. Owned' /\ OneWorks'
  BY <1>2, <1>5, <1>8 DEF StatusInv, Owned, OneWorks
<1>10. /\ Settled(r)
       /\ \A x \in Requests : work'[x].at \in Working => Worked(r, work'[x])
       /\ \E x \in Requests : work'[x].at \in Working
  BY <1>3, <1>4, <1>7, <1>8 DEF Settled, Worked, Empty, Working
<1>11. QED
  BY <1>2, <1>4, <1>9, <1>10
     DEF StatusInv, Settled, Worked, Agrees, EventsOf, Empty

LEMMA PersistStatus ==
    ASSUME NoneIsNoRow, ReadInv, StatusInv, NEW q \in Requests, Persist(q) PROVE StatusInv'
<1>1. work[q].at = "persist" /\ UNCHANGED <<strategy, failed>>
  BY DEF Persist, At
<1>2. CASE run = None
  <2>1. work'[q].at = "ended" /\ \A x \in Requests : x # q => work'[x] = work[x]
    BY <1>2, EndsWork DEF Persist
  <2>2. UNCHANGED run
    BY <1>2 DEF Persist
  <2>3. QED
    BY <1>1, <1>2, <2>1, <2>2, QuietStatus DEF Working
<1>3. CASE run # None
  <2>1. PICK e : e = EventsOf(work[q].result)
    OBVIOUS
  <2>2. PICK r : r = [run EXCEPT !.events = e]
    OBVIOUS
  <2>3. run' = r /\ Goto(q, "complete") /\ RunShape(run)
    BY <1>3, <2>1, <2>2 DEF Persist, EventsOf, ReadInv
  <2>4. /\ work'[q].at = "complete" /\ work'[q].result = work[q].result
        /\ \A x \in Requests : x # q => work'[x] = work[x]
    BY <2>3, GoesToWork
  <2>5. RunShape(r) /\ r.status = run.status /\ r.result = run.result /\ r.events = e
    BY <2>2, <2>3 DEF RunShape
  <2>6. r # None
    BY <2>5 DEF RunShape, NoneIsNoRow
  <2>7. work[q].at \in Working
    BY <1>1 DEF Working
  <2>8. r.status = "RUNNING" /\ r.result = NoResult
    BY <1>3, <2>5, <2>7 DEF StatusInv, Worked
  <2>9. \A x \in Requests : work'[x].at \in Working => x = q
    BY <2>4, <2>7 DEF StatusInv, OneWorks
  <2>10. Owned' /\ OneWorks'
    BY <1>1, <1>3, <2>3, <2>6, <2>9 DEF StatusInv, Owned, OneWorks
  <2>11. /\ Settled(r)
         /\ \A x \in Requests : work'[x].at \in Working => Worked(r, work'[x])
         /\ \E x \in Requests : work'[x].at \in Working
    BY <2>1, <2>4, <2>5, <2>8, <2>9 DEF Settled, Worked, Working
  <2>12. QED
    BY <2>3, <2>8, <2>10, <2>11
       DEF StatusInv, Settled, Worked, Agrees, EventsOf, Empty
<1>4. QED
  BY <1>2, <1>3

LEMMA ResultAgrees ==
    ASSUME ReadInv, SimulationInv, NEW q \in Requests, work[q].at = "complete"
    PROVE  Agrees(work[q].result, EventsOf(work[q].result))
<1>1. PICK w : w = work[q]
  OBVIOUS
<1>2. /\ w.strategy \in Strategies /\ ~Refused(w.strategy) /\ w.candles # <<>>
      /\ w.result = Simulate(w.strategy, w.candles)
  BY <1>1 DEF SimulationInv, Simulates
<1>3. w.candles \in Seq(Row)
  BY <1>1 DEF ReadInv, Reading, WorkShape
<1>4. w.strategy.maxEntries \in Nat
  BY <1>2, RunAssumption DEF Refused
<1>5. QED
  BY <1>1, <1>2, <1>3, <1>4, SimulationsAgree

LEMMA CompleteStatus ==
    ASSUME NoneIsNoRow, ReadInv, SimulationInv, StatusInv, NEW q \in Requests, Complete(q) PROVE StatusInv'
<1>1. /\ work[q].at = "complete" /\ UNCHANGED <<strategy, failed>>
      /\ work'[q].at = "ended" /\ \A x \in Requests : x # q => work'[x] = work[x]
  BY EndsWork DEF Complete, At
<1>2. CASE run = None
  BY <1>1, <1>2, QuietStatus DEF Complete, Working
<1>3. CASE run # None
  <2>1. PICK v : v = [c \in DOMAIN NoResult |-> work[q].result[c]]
    OBVIOUS
  <2>2. PICK r : r = [run EXCEPT !.status = "COMPLETED", !.result = v]
    OBVIOUS
  <2>3. Worked(run, work[q]) /\ work[q].at \in Working
    BY <1>1, <1>3 DEF StatusInv, Working
  <2>4. run' = r /\ RunShape(run)
    BY <1>3, <2>1, <2>2, <2>3 DEF Complete, Worked, ReadInv
  <2>5. RunShape(r) /\ r.status = "COMPLETED" /\ r.result = v /\ r.events = run.events
    BY <2>2, <2>4 DEF RunShape
  <2>6. r # None
    BY <2>5 DEF RunShape, NoneIsNoRow
  <2>7. Agrees(r.result, r.events)
    <3>1. r.events = EventsOf(work[q].result) /\ Agrees(work[q].result, EventsOf(work[q].result))
      BY <1>1, <2>3, <2>5, ResultAgrees DEF Worked
    <3>2. /\ v.tradeCount = work[q].result.tradeCount /\ v.ending = work[q].result.ending
          /\ v.drawdown = work[q].result.drawdown
      BY <2>1 DEF NoResult
    <3>3. QED
      BY <2>5, <3>1, <3>2 DEF Agrees
  <2>8. \A x \in Requests : work'[x].at \notin Working
    BY <1>1, <2>3 DEF StatusInv, OneWorks, Working
  <2>9. Owned' /\ OneWorks'
    BY <1>1, <1>3, <2>4, <2>6, <2>8 DEF StatusInv, Owned, OneWorks
  <2>10. QED
    BY <2>4, <2>5, <2>7, <2>8, <2>9
       DEF StatusInv, Settled, Worked, Agrees, EventsOf, Empty
<1>4. QED
  BY <1>2, <1>3

LEMMA FailRunStatus ==
    ASSUME NoneIsNoRow, ReadInv, StatusInv, NEW q \in Requests, FailRun(q) PROVE StatusInv'
<1>1. /\ work[q].at = "fail" /\ UNCHANGED <<strategy, failed>>
      /\ work'[q].at = "ended" /\ \A x \in Requests : x # q => work'[x] = work[x]
  BY EndsWork DEF FailRun, At
<1>2. CASE run = None
  BY <1>1, <1>2, QuietStatus DEF FailRun, Working
<1>3. CASE run # None
  <2>1. PICK r : r = [run EXCEPT !.status = "FAILED"]
    OBVIOUS
  <2>2. Worked(run, work[q]) /\ work[q].at \in Working
    BY <1>1, <1>3 DEF StatusInv, Working
  <2>3. run' = r /\ RunShape(run)
    BY <1>3, <2>1, <2>2 DEF FailRun, Worked, ReadInv
  <2>4. RunShape(r) /\ r.status = "FAILED" /\ r.result = run.result /\ r.events = run.events
    BY <2>1, <2>3, RunGoesOn
  <2>5. r # None
    BY <2>4 DEF RunShape, NoneIsNoRow
  <2>6. Empty(r)
    BY <1>1, <2>2, <2>4 DEF Worked, Empty
  <2>7. \A x \in Requests : work'[x].at \notin Working
    BY <1>1, <2>2 DEF StatusInv, OneWorks, Working
  <2>8. Owned' /\ OneWorks'
    BY <1>1, <1>3, <2>3, <2>5, <2>7 DEF StatusInv, Owned, OneWorks
  <2>9. QED
    BY <2>3, <2>4, <2>6, <2>7, <2>8
       DEF StatusInv, Settled, Worked, Agrees, EventsOf, Empty
<1>4. QED
  BY <1>2, <1>3

LEMMA CallFailsStatus ==
    ASSUME ReadInv, StatusInv, NEW q \in Requests, CallFails(q) PROVE StatusInv'
<1>1. work[q].at \notin {"idle", "ended"} /\ UNCHANGED <<strategy, run>> /\ failed' = TRUE
  BY DEF CallFails
<1>2. CASE At(q, "load")
  <2>1. /\ work[q].at = "load" /\ work'[q].at = "fail"
        /\ \A x \in Requests : x # q => work'[x] = work[x]
    BY <1>2, GoesToWork DEF CallFails, At
  <2>2. QED
    BY <1>1, <2>1, QuietStatus DEF Working
<1>3. CASE ~At(q, "load")
  <2>1. work'[q].at = "ended" /\ \A x \in Requests : x # q => work'[x] = work[x]
    BY <1>3, EndsWork DEF CallFails
  <2>2. QED
    BY <1>1, <2>1, QuietStatus DEF Working
<1>4. QED
  BY <1>2, <1>3

LEMMA StartRefusedStatus ==
    ASSUME ReadInv, StatusInv, NEW q \in Requests, StartRefused(q) PROVE StatusInv'
<1>1. work[q].at = "start" /\ UNCHANGED <<strategy, run, failed>>
  BY DEF StartRefused, At
<1>2. work'[q].at = "ended" /\ \A x \in Requests : x # q => work'[x] = work[x]
  BY EndsWork DEF StartRefused
<1>3. QED
  BY <1>1, <1>2, QuietStatus DEF Working

\* Nobody works any more, and it is known that something failed.
LEMMA CrashStatus == ASSUME ReadInv, StatusInv, Crash PROVE StatusInv'
<1>1. PICK v : v = [NoWork EXCEPT !.at = "ended"]
  OBVIOUS
<1>2. v.at = "ended"
  BY <1>1, EndsReading
<1>3. /\ work' = [q \in Requests |-> IF At(q, "idle") THEN work[q] ELSE v]
      /\ UNCHANGED <<strategy, run>> /\ failed' = TRUE
  BY <1>1 DEF Crash
<1>4. \A x \in Requests : work'[x].at = IF work[x].at = "idle" THEN "idle" ELSE "ended"
  BY <1>2, <1>3 DEF At
<1>5. \A x \in Requests : work'[x].at \notin Working
  BY <1>4 DEF Working
<1>6. Owned' /\ OneWorks'
  BY <1>3, <1>4, <1>5 DEF StatusInv, Owned, OneWorks
<1>7. QED
  BY <1>3, <1>5, <1>6 DEF StatusInv, Settled, Worked, Agrees, EventsOf, Empty

\* Its owner creates the run, changes its strategy or removes both.
LEMMA OwnerStatus ==
    ASSUME NoneIsNoRow, StatusInv, CreateRun \/ UpdateStrategy \/ RemoveStrategy PROVE StatusInv'
<1>1. UNCHANGED <<work, failed>>
  BY DEF CreateRun, UpdateStrategy, RemoveStrategy
<1>2. OneWorks'
  BY <1>1 DEF StatusInv, OneWorks
<1>3. CASE CreateRun
  <2>1. PICK start, end \in Times :
          run' = [status |-> "PENDING", start |-> start, end |-> end,
                  result |-> NoResult, events |-> NoEvents]
    BY <1>3 DEF CreateRun
  <2>2. UNCHANGED strategy /\ run = None /\ strategy # None
    BY <1>3 DEF CreateRun
  <2>3. run' # None
    BY <2>1 DEF NoneIsNoRow
  <2>4. \A x \in Requests : work'[x].at \notin Working
    BY <1>1, <2>2 DEF StatusInv, Owned, Working
  <2>5. Owned'
    BY <2>2, <2>3 DEF StatusInv, Owned
  <2>6. run'.status = "PENDING" /\ run'.result = NoResult /\ run'.events = NoEvents
    BY <2>1
  <2>7. QED
    BY <1>2, <2>4, <2>5, <2>6
       DEF StatusInv, Settled, Worked, Agrees, EventsOf, Empty
<1>4. CASE UpdateStrategy
  <2>1. UNCHANGED run /\ strategy # None /\ strategy' \in Strategies
    BY <1>4 DEF UpdateStrategy
  <2>2. Owned'
    BY <1>1, <2>1, RunAssumption DEF StatusInv, Owned
  <2>3. QED
    BY <1>1, <1>2, <2>1, <2>2
       DEF StatusInv, Settled, Worked, Agrees, EventsOf, Empty
<1>5. CASE RemoveStrategy
  BY <1>2, <1>5 DEF RemoveStrategy, StatusInv, Owned, Agrees, EventsOf
<1>6. QED
  BY <1>3, <1>4, <1>5

LEMMA StatusSteps ==
    ASSUME NoneIsNoRow, ReadInv, SimulationInv, StatusInv, [Next]_vars
    PROVE  StatusInv'
<1>1. CASE \E q \in Requests : RequestStep(q)
  <2>1. PICK q \in Requests : RequestStep(q)
    BY <1>1
  <2>2. CASE Get(q)
    BY <2>2, GetStatus
  <2>3. CASE StartRun(q)
    BY <2>3, StartRunStatus
  <2>4. CASE StartRefused(q)
    BY <2>4, StartRefusedStatus
  <2>5. CASE StartRead(q)
    BY <2>5, StartReadStatus
  <2>6. CASE Load(q)
    BY <2>6, LoadStatus
  <2>7. CASE Persist(q)
    BY <2>7, PersistStatus
  <2>8. CASE Complete(q)
    BY <2>8, CompleteStatus
  <2>9. CASE FailRun(q)
    BY <2>9, FailRunStatus
  <2>10. CASE CallFails(q)
    BY <2>10, CallFailsStatus
  <2>11. QED
    BY <2>1, <2>2, <2>3, <2>4, <2>5, <2>6, <2>7, <2>8, <2>9, <2>10 DEF RequestStep
<1>2. CASE Crash
  BY <1>2, CrashStatus
<1>3. CASE CreateRun \/ UpdateStrategy \/ RemoveStrategy
  BY <1>3, OwnerStatus
<1>4. CASE ImportStep \/ UNCHANGED vars
  <2>1. UNCHANGED <<strategy, run, work, failed>>
    BY <1>4 DEF ImportStep, vars, runVars
  <2>2. QED
    BY <2>1 DEF StatusInv, Owned, OneWorks, Settled, Worked, Agrees, EventsOf, Empty
<1>5. QED
  BY <1>1, <1>2, <1>3, <1>4 DEF Next

\* Whatever requests start, read, and end in the midst of it, and whatever their owner
\* removes: no result without its events, none of another simulation, and no run that is said
\* to be running and is nobody's, unless something failed.
THEOREM RunStatusesTrue ==
    ASSUME NoneIsNoRow
    PROVE  Spec => []RunStatusTrue
<1>1. Init => ImportInv /\ ReadInv /\ SimulationInv /\ StatusInv
  BY InitImports, FirstReads, FirstSimulation, FirstStatus DEF Init
<1>2. ImportInv /\ ReadInv /\ SimulationInv /\ StatusInv /\ [Next]_vars
        => (ImportInv /\ ReadInv /\ SimulationInv /\ StatusInv)'
  BY ImportSteps, ReadSteps, SimulationSteps, StatusSteps
<1>3. ReadInv /\ StatusInv => RunStatusTrue
  BY StatusIsTrue
<1>4. QED
  BY <1>1, <1>2, <1>3, PTL DEF Spec
=============================================================================
