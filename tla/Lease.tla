------------------------------- MODULE Lease -------------------------------
(***************************************************************************)
(* What a database lease promises its clients, without clocks or columns.  *)
(*                                                                         *)
(* dali-api serialises background work by writing an expiry time into a    *)
(* row with a compare-and-set UPDATE (ScheduledJob.lockedUntil,            *)
(* OutboundMessage.nextAttemptAt).  Such a lease is not a mutex: a holder  *)
(* that outlives it can be joined by a second one.  The promise is that    *)
(* this is the ONLY way two clients hold one resource: a resource has a    *)
(* second holder only if its lease lapsed while it was held.               *)
(*                                                                         *)
(* JobRunner and Outbox implement this specification.                      *)
(***************************************************************************)
CONSTANTS Resources,   \* what is leased: jobs, outbox rows
          Clients      \* who leases it: ticks, manual runs, workers

VARIABLES holders,     \* holders[r]: the clients working on r now
          lapsed       \* resources whose lease ran out, or was lost, while
                       \* held, and that have had a holder ever since

leaseVars == <<holders, lapsed>>

Init ==
    /\ holders = [r \in Resources |-> {}]
    /\ lapsed = {}

\* Client c starts working on r.  The lease may be too old already when it is
\* written, so r may lapse in the same step.
Acquire(c, r) ==
    /\ c \notin holders[r]
    /\ holders[r] = {} \/ r \in lapsed
    /\ holders' = [holders EXCEPT ![r] = @ \cup {c}]
    /\ lapsed' \in {lapsed, lapsed \cup {r}}

\* The clients C stop: one of them finishes, or a whole machine dies.  A
\* resource nobody holds any more starts afresh.
Release(C) ==
    /\ holders' = [r \in Resources |-> holders[r] \ C]
    /\ lapsed' = {r \in lapsed : holders[r] \ C # {}}

\* The leases of some held resources run out, or their rows are deleted.
Expire(R) ==
    /\ \A r \in R : holders[r] # {}
    /\ lapsed' = lapsed \cup R
    /\ UNCHANGED holders

Next ==
    \/ \E c \in Clients, r \in Resources : Acquire(c, r)
    \/ \E C \in SUBSET Clients : Release(C)
    \/ \E R \in SUBSET Resources : Expire(R)

Spec == Init /\ [][Next]_leaseVars
=============================================================================
