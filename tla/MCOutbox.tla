------------------------------ MODULE MCOutbox ------------------------------
(***************************************************************************)
(* Instances of Outbox for TLC: two workers, one on each machine.          *)
(***************************************************************************)
EXTENDS Outbox

CONSTANTS m1, m2, w1, w2, p1, p2

MCProcessOf == [w \in Workers |-> IF w = w1 THEN p1 ELSE p2]
MCEmail == [m \in Messages |-> "email"]
MCThread == [m \in Messages |-> "thread"]
MCEither == [m \in Messages |-> IF m = m1 THEN "email" ELSE "thread"]
MCBackoff == [n \in 1..MaxAttempts |-> 2 ^ (n - 1)]

-----------------------------------------------------------------------------
(***************************************************************************)
(* Time without end.  Outbox compares moments with one another and with    *)
(* midnight, so a day can be taken off all of them once it has passed: the *)
(* clock goes round, and nothing is ever out of its reach.  What lies more *)
(* than a day back is as good as 0, and attempts above MaxAttempts are as  *)
(* good as MaxAttempts.  With RETAIN above MaxTime no row is purged.       *)
(***************************************************************************)
Ago(t) == IF t < DAY THEN 0 ELSE t - DAY
Capped(n) == IF n > MaxAttempts THEN MaxAttempts ELSE n

DayOver ==
    /\ clock = MaxTime
    /\ clock' = clock - DAY
    /\ row' = [m \in Messages |-> [row[m] EXCEPT !.nextAt = Ago(@), !.createdAt = Ago(@),
                                                 !.attempts = Capped(@)]]
    /\ usage' = [d \in Days |-> IF d + 1 \in Days THEN usage[d + 1] ELSE 0]
    /\ saw' = [w \in Workers |-> [saw[w] EXCEPT !.deferUntil = Ago(@), !.attempts = Capped(@)]]
    /\ until' = [w \in Workers |-> Ago(until[w])]
    /\ UNCHANGED <<exists, pc, msg, crashes, retries, history>>

\* One message at a time, of either kind.
Alone == Cardinality(exists') <= 1

EndlessSpec == Init /\ [][(Next /\ Alone) \/ DayOver]_vars /\ WF_vars(DayOver) /\ Fairness
=============================================================================
