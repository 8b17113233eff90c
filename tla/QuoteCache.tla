------------------------------ MODULE QuoteCache ------------------------------
(***************************************************************************)
(* MarketDataService.getQuote and its cache, in one process.  A price is   *)
(* known by the time at which the exchange looked it up.  A fetch is a     *)
(* request, the exchange's look at its book and the arrival of the answer, *)
(* so answers may arrive in another order than they were made.             *)
(***************************************************************************)
EXTENDS Naturals

CONSTANTS
    Readers,   \* concurrent callers of getQuote
    Keys,      \* environment and symbol
    Ttl,       \* defaultTtlMs
    MaxTime    \* bound: how far the clock goes

ASSUME TtlAssumption == Ttl \in Nat \ {0} /\ MaxTime \in Nat \ {0}

VARIABLES
    now,      \* the process's clock
    cache,    \* cached quotes, by key
    fetch,    \* what each caller awaits
    served    \* the quote each caller was given last (history)

qvars == <<now, cache, fetch, served>>

\* A CachedQuote: fetched is fetchedAt, asOf when the exchange made the price.
Quote == [asOf : Nat, fetched : Nat, expires : Nat]
NoQuote == [asOf |-> 0, fetched |-> 0, expires |-> 0]
Fetch == [key : Keys, stage : {"idle", "asked", "answered"}, asOf : Nat]
Service == [key : Keys, asOf : Nat, fetched : Nat, at : Nat, source : {"none", "cache", "binance"}]

\* Fault: an entry is good up to and including the instant it expires.
Fresh_Inclusive(q) == q.expires >= now

Fresh(q) == q.expires > now
Serve(r, k, q, source) ==
    served' = [served EXCEPT ![r] = [key |-> k, asOf |-> q.asOf, fetched |-> q.fetched,
                                     at |-> now, source |-> source]]

QInit ==
    /\ now = 1
    /\ cache = [k \in Keys |-> NoQuote]
    /\ \E k \in Keys :
          /\ fetch = [r \in Readers |-> [key |-> k, stage |-> "idle", asOf |-> 0]]
          /\ served = [r \in Readers |-> [key |-> k, asOf |-> 0, fetched |-> 0, at |-> 0,
                                          source |-> "none"]]

FromCache(r, k) ==
    /\ fetch[r].stage = "idle" /\ Fresh(cache[k])
    /\ Serve(r, k, cache[k], "cache")
    /\ UNCHANGED <<now, cache, fetch>>

\* The cache has nothing fresh, or the caller wants a fresh price by all means.
Ask(r, k, forceRefresh) ==
    /\ fetch[r].stage = "idle"
    /\ forceRefresh \/ ~Fresh(cache[k])
    /\ fetch' = [fetch EXCEPT ![r] = [key |-> k, stage |-> "asked", asOf |-> 0]]
    /\ UNCHANGED <<now, cache, served>>

\* The exchange looks the price up.
LookUp(r) ==
    /\ fetch[r].stage = "asked"
    /\ fetch' = [fetch EXCEPT ![r].stage = "answered", ![r].asOf = now]
    /\ UNCHANGED <<now, cache, served>>

\* The answer is entered whatever the cache holds by now.
Fill(r) ==
    /\ fetch[r].stage = "answered"
    /\ LET q == [asOf |-> fetch[r].asOf, fetched |-> now, expires |-> now + Ttl]
       IN /\ cache' = [cache EXCEPT ![fetch[r].key] = q]
          /\ Serve(r, fetch[r].key, q, "binance")
    /\ fetch' = [fetch EXCEPT ![r].stage = "idle"]
    /\ UNCHANGED now

\* The request fails, or the price is not a positive number: the cache stays.
FetchFails(r) ==
    /\ fetch[r].stage # "idle"
    /\ fetch' = [fetch EXCEPT ![r].stage = "idle"]
    /\ UNCHANGED <<now, cache, served>>

\* clearCache, of everything or of what matches a symbol or an environment.
ClearCache(ks) ==
    /\ \E k \in ks : cache[k] # NoQuote
    /\ cache' = [k \in Keys |-> IF k \in ks THEN NoQuote ELSE cache[k]]
    /\ UNCHANGED <<now, fetch, served>>

Elapse ==
    /\ now < MaxTime
    /\ now' = now + 1
    /\ UNCHANGED <<cache, fetch, served>>

QNext ==
    \/ \E r \in Readers : \/ \E k \in Keys : FromCache(r, k) \/ \E b \in BOOLEAN : Ask(r, k, b)
                          \/ LookUp(r) \/ Fill(r) \/ FetchFails(r)
    \/ \E ks \in SUBSET Keys : ClearCache(ks)
    \/ Elapse

-----------------------------------------------------------------------------
(* Properties *)

QuoteTypeOK ==
    /\ now \in 1..MaxTime
    /\ cache \in [Keys -> Quote]
    /\ fetch \in [Readers -> Fetch]
    /\ served \in [Readers -> Service]

\* However fetches overtake each other and the cache is cleared, a caller is
\* never given a price older than the time to live plus what the fetch that
\* brought it took; and it knows, from fetchedAt, when that fetch ended.
QuotesAreFresh ==
    \A r \in Readers : served[r].source # "none" =>
        /\ served[r].asOf <= served[r].fetched /\ served[r].fetched <= served[r].at
        /\ served[r].at < served[r].fetched + Ttl
=============================================================================
