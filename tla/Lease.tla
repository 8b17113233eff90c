-------------------------------- MODULE Lease --------------------------------
(***************************************************************************)
(* What a fixed-TTL lock promises to the jobs that run under it.  A job    *)
(* that was granted the lease is active until it ends.  The lease may      *)
(* lapse under an active job (its TTL is never renewed): that job is then  *)
(* late, and it no longer keeps others out.  Only a late job may overlap   *)
(* another one.                                                            *)
(***************************************************************************)
CONSTANT Jobs      \* whatever may hold the lease

VARIABLES active,  \* the jobs working under a lease they were granted
          late     \* those whose lease lapsed while they worked

Init == active = {} /\ late = {}

\* Only when every active job is late may another job be granted the lease.
Grant(j) == /\ j \notin active
            /\ active \subseteq late
            /\ active' = active \union {j}
            /\ UNCHANGED late

\* The lease of one job reaches its TTL.
Lapse(j) == /\ j \in active
            /\ late' = late \union {j}
            /\ UNCHANGED active

\* Jobs end, on time or late: by returning, or with the instance that ran them.
End(gone) == /\ gone \subseteq active
             /\ active' = active \ gone
             /\ late' = late \ gone

Next == \/ \E j \in Jobs : Grant(j) \/ Lapse(j)
        \/ \E gone \in SUBSET Jobs : End(gone)

Spec == Init /\ [][Next]_<<active, late>>

\* At most one job that is still within its lease works at any time.
Exclusive == \A i, j \in active \ late : i = j
=============================================================================
