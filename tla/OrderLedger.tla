---------------------------- MODULE OrderLedger -----------------------------
(***************************************************************************)
(* What the bookkeeping of orders promises, without positions, actions,    *)
(* snapshots or processes: the exchange executes orders, and the books     *)
(* follow it, order by order, forwards only and never ahead.               *)
(***************************************************************************)
EXTENDS Naturals

VARIABLES executed,   \* lots executed, of each order the exchange accepted
          accounted   \* lots booked, of each order that has a row

LedgerInit == executed = <<>> /\ accounted = <<>>

\* The exchange accepts order o, which may be executed at once ...
Accept(o) ==
    /\ o \notin DOMAIN executed
    /\ DOMAIN executed' = DOMAIN executed \union {o}
    /\ executed'[o] \in Nat
    /\ \A x \in DOMAIN executed : executed'[x] = executed[x]
    /\ UNCHANGED accounted

\* ... and executes more of an order it accepted.
Execute(o) ==
    /\ executed'[o] \in Nat /\ executed'[o] > executed[o]
    /\ executed' = [executed EXCEPT ![o] = executed'[o]]
    /\ UNCHANGED accounted

\* Lots are booked for an order, the first time with its row.
Book(o) ==
    /\ \E n \in 0..executed[o] :
          /\ o \in DOMAIN accounted => n >= accounted[o]
          /\ accounted' = [x \in DOMAIN accounted \union {o} |-> IF x = o THEN n ELSE accounted[x]]
    /\ UNCHANGED executed

LedgerNext ==
    \/ \E o \in DOMAIN executed' : Accept(o)
    \/ \E o \in DOMAIN executed : Execute(o) \/ Book(o)

Spec == LedgerInit /\ [][LedgerNext]_<<executed, accounted>>
=============================================================================
