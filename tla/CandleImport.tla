---------------------------- MODULE CandleImport ----------------------------
(* binance-historical-candle-importer.service.ts pages candles from Binance *)
(* into the HistoricalCandle table, which historical-candle-query.service   *)
(* reads. The candle of slot t opens at Opens(t) and closes at Closes(t);   *)
(* the newest one is still forming, so that its close differs per answer.   *)
EXTENDS Integers, FiniteSets, FiniteSetsExt, Functions

CONSTANTS None,         \* null and undefined
          Slots,        \* Bound: the exchange lists candles 1..Slots
          Prices,       \* closing prices
          Histories,    \* the courses of the market under an import
          Interim,      \* closes a candle may show while it is forming
          Times,        \* times a request may name
          Limit,        \* limit: candles per page
          MaxPages,     \* Bound: the largest maxPages a request names
          MaxImports    \* Bound: imports requested

ASSUME ImportAssumption == /\ {Slots, Limit, MaxPages} \subseteq Nat \ {0}
                           /\ MaxImports \in Nat
                           /\ Prices \cup Interim \subseteq Nat \ {0}
                           /\ Histories \subseteq [1..Slots -> Prices]
                           /\ Times \subseteq Nat /\ None \notin Nat

Opens(t) == 2 * t
Closes(t) == Opens(t) + 1

VARIABLES history,      \* the close each candle ends with
          listed,       \* the newest candle of the exchange
          stored,       \* the table: slot |-> close
          import,       \* the import in flight, or the last one
          imports       \* how many were requested

importVars == <<history, listed, stored, import, imports>>

Idle == [at |-> "done", start |-> None, end |-> None, cursor |-> None, pages |-> 0,
         maxPages |-> 1, page |-> <<>>, listed |-> 0, whole |-> FALSE]

(* Either nothing is stored yet, or everything was imported before, over    *)
(* any course of the market.                                                *)
InitImport ==
  /\ import = Idle
  /\ \/ /\ history \in Histories
        /\ listed \in 1..Slots
        /\ stored = <<>>
        /\ imports = 0
     \/ /\ history \in [1..Slots -> Prices]
        /\ listed = Slots
        /\ stored = history
        /\ imports = MaxImports

Within(t, start, end) == /\ start # None => Opens(t) >= start
                         /\ end # None => Opens(t) <= end

(* What /api/v3/klines answers: with a start the oldest candles from it,    *)
(* without one the newest.                                                  *)
Klines(start, end) ==
  LET offered == {t \in 1..listed : Within(t, start, end)}
      Older(t) == {u \in offered : u < t}
      Newer(t) == {u \in offered : u > t}
  IN {t \in offered : Cardinality(IF start # None THEN Older(t) ELSE Newer(t)) < Limit}

Quotes(slots) ==
  {[t \in slots |-> IF t = listed THEN close ELSE history[t]] :
     close \in Interim \cup {history[listed]}}

RequestImport ==
  /\ import.at = "done"
  /\ imports < MaxImports
  /\ \E start, end \in Times \cup {None}, pages \in 1..MaxPages :
       import' = [Idle EXCEPT !.at = "fetch", !.start = start, !.end = end,
                              !.cursor = start, !.maxPages = pages, !.listed = listed]
  /\ imports' = imports + 1
  /\ UNCHANGED <<history, listed, stored>>

Fetch ==
  /\ import.at = "fetch"
  /\ import.cursor # None /\ import.end # None => import.cursor <= import.end
  /\ \E page \in Quotes(Klines(import.cursor, import.end)) :
       import' = IF page = <<>> THEN [import EXCEPT !.at = "done", !.whole = TRUE]
                 ELSE [import EXCEPT !.at = "store", !.page = page]
  /\ UNCHANGED <<history, listed, stored, imports>>

(* Binance refuses, cannot be reached, or getKlines refuses the range; or   *)
(* the transaction of upsertMany rolls back. Pages stored before stay.      *)
ImportFails ==
  /\ import.at \in {"fetch", "store"}
  /\ import' = [import EXCEPT !.at = "done", !.page = <<>>]
  /\ UNCHANGED <<history, listed, stored, imports>>

NextCursor(page) == Closes(Max(DOMAIN page)) + 1

\* Fault: a candle that opens at the end of the range is taken to lie beyond it.
Beyond_Exclusive(next, end) == end # None /\ next >= end
Beyond(next, end) == end # None /\ next > end

NoProgress(next, cursor) == cursor # None /\ next <= cursor

Exhausted(i) == \/ Cardinality(DOMAIN i.page) < Limit
                \/ NoProgress(NextCursor(i.page), i.cursor)
                \/ Beyond(NextCursor(i.page), i.end)

(* What upsertMany makes of the table: a candle that is there is replaced.  *)
Upserted(page, table) ==
  [t \in DOMAIN page \cup DOMAIN table |-> IF t \in DOMAIN page THEN page[t] ELSE table[t]]

(* upsertMany writes the whole page in one transaction; then the loop ends  *)
(* or goes on behind the last candle.                                       *)
Store ==
  /\ import.at = "store"
  /\ stored' = Upserted(import.page, stored)
  /\ LET ends == Exhausted(import) \/ import.pages + 1 = import.maxPages
     IN import' = [import EXCEPT
          !.at = IF ends THEN "done" ELSE "fetch",
          !.whole = Exhausted(import),
          !.pages = @ + 1,
          !.cursor = IF ends THEN @ ELSE NextCursor(import.page),
          !.page = <<>>]
  /\ UNCHANGED <<history, listed, imports>>

(* The forming candle closes and the next one begins.                       *)
NextCandle ==
  /\ listed < Slots
  /\ listed' = listed + 1
  /\ UNCHANGED <<history, stored, import, imports>>

(* historical-candle-query.service.ts: list.                                *)
List(start, end, limit) ==
  LET found == {t \in DOMAIN stored : Within(t, start, end)}
  IN {t \in found : Cardinality({u \in found : u < t}) < limit}

-----------------------------------------------------------------------------
(* An import that names its start and was not cut off by maxPages has       *)
(* stored every candle of its range that existed when it was requested: no  *)
(* hole at the boundary of two pages, and none at the end of the range.     *)
ImportLeavesNoHole ==
  import.at = "done" /\ import.whole /\ import.start # None =>
    \A t \in 1..import.listed : Within(t, import.start, import.end) => t \in DOMAIN stored
=============================================================================
