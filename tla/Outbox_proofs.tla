--------------------------- MODULE Outbox_proofs ---------------------------
(***************************************************************************)
(* Outbox, for every set of messages, workers and machines, every lock,    *)
(* cap, backoff and bound.                                                 *)
(***************************************************************************)
EXTENDS Outbox, FiniteSetTheorems, TLAPS

PCs == {"idle", "read", "check", "send", "count", "save", "upload",
        "mark", "cancel", "defer", "fail"}
SawType == [attempts : Nat, posted : BOOLEAN, deferUntil : Nat]

-----------------------------------------------------------------------------
\* Division by a day's length: what the days rest on.
LEMMA DivType == ASSUME NEW a \in Nat, NEW b \in Nat, b > 0 PROVE a \div b \in Nat
BY SMT

LEMMA DivMonotone ==
    ASSUME NEW a \in Nat, NEW c \in Nat, NEW b \in Nat, b > 0, a <= c
    PROVE  a \div b <= c \div b
BY SMT

LEMMA ProductType == ASSUME NEW a \in Nat, NEW b \in Nat PROVE (a + 1) * b \in Nat
BY SMT

\* Days are numbered from 0 and come in order.
LEMMA DayType == ASSUME NEW t \in Nat PROVE Day(t) \in Nat
<1>1. DAY \in Nat /\ DAY > 0
  BY OutboxAssumption
<1> QED BY <1>1, DivType DEF Day

LEMMA DayMonotone ==
    ASSUME NEW s \in Nat, NEW t \in Nat, s <= t
    PROVE  Day(s) <= Day(t)
<1>1. DAY \in Nat /\ DAY > 0
  BY OutboxAssumption
<1> QED BY <1>1, DivMonotone DEF Day

LEMMA MidnightType == ASSUME NEW t \in Nat PROVE NextMidnight(t) \in Nat
BY DayType, ProductType, OutboxAssumption DEF NextMidnight

-----------------------------------------------------------------------------
\* The rows the actions write are rows.
LEMMA RowTypes ==
    ASSUME clock \in Nat
    PROVE  /\ Blank \in RowType /\ NewRow \in RowType
           /\ \A r \in RowType : /\ [r EXCEPT !.posted = TRUE] \in RowType
                                 /\ [r EXCEPT !.status = "Sent"] \in RowType
                                 /\ [r EXCEPT !.status = "Canceled"] \in RowType
           /\ \A r \in RowType, n \in Nat :
                /\ [r EXCEPT !.status = "Sending", !.nextAt = n] \in RowType
                /\ [r EXCEPT !.status = "Pending", !.nextAt = n] \in RowType
                /\ [r EXCEPT !.status = "Dead", !.attempts = n] \in RowType
           /\ \A r \in RowType, n, k \in Nat :
                [r EXCEPT !.status = "Pending", !.attempts = n, !.nextAt = k] \in RowType
           /\ \A r \in RowType, k \in Nat :
                [r EXCEPT !.status = "Pending", !.nextAt = k, !.attempts = 0] \in RowType
BY DEF RowType, Blank, NewRow

LEMMA SawTypes ==
    /\ Nothing \in SawType
    /\ \A r \in RowType :
         [Nothing EXCEPT !.attempts = r.attempts, !.posted = r.posted] \in SawType
    /\ \A s \in SawType, n \in Nat : [s EXCEPT !.deferUntil = n] \in SawType
BY DEF SawType, Nothing, RowType

\* A worker that has nothing left to do keeps to its types.
LEMMA LeaveTypes ==
    ASSUME TypeOK, NEW w \in Workers, Leave(w)
    PROVE  /\ pc' \in [Workers -> PCs]
           /\ msg' \in [Workers -> Messages \cup {NoMessage}]
           /\ saw' \in [Workers -> SawType]
           /\ until' \in [Workers -> Nat]
<1>1. PCs = {"idle", "read", "check", "send", "count", "save", "upload",
             "mark", "cancel", "defer", "fail"} /\ "idle" \in PCs
  BY DEF PCs
<1>2. saw \in [Workers -> SawType]
  BY DEF TypeOK, SawType
<1> QED BY <1>1, <1>2, SawTypes DEF Leave, TypeOK

\* History variables range over messages by their definitions.
LEMMA HistoryTypes ==
    ASSUME TypeOK, History
    PROVE  lapsed' \subseteq Messages /\ doubt' \subseteq Messages
BY DEF History, TypeOK

\* Every row keeps its type, whichever call writes it (outbound.server.ts).
LEMMA RowStep ==
    ASSUME TypeOK, Act
    PROVE  row' \in [Messages -> RowType]
<1>0. /\ clock \in Nat /\ row \in [Messages -> RowType] /\ exists \subseteq Messages
      /\ saw \in [Workers -> SawType]
  BY DEF TypeOK, SawType
<1>1. ASSUME NEW m \in Messages, NEW r \in RowType, row' = [row EXCEPT ![m] = r]
      PROVE  row' \in [Messages -> RowType]
  BY <1>0, <1>1
<1>2. ASSUME NEW m \in Messages, Enqueue(m) PROVE row' \in [Messages -> RowType]
  BY <1>0, <1>2, RowTypes DEF Enqueue
<1>3. ASSUME NEW m \in Messages, Retry(m) PROVE row' \in [Messages -> RowType]
  <2>1. [row[m] EXCEPT !.status = "Pending", !.nextAt = clock, !.attempts = 0] \in RowType
    BY <1>0, RowTypes
  <2> QED BY <1>0, <1>3, <2>1 DEF Retry
<1>4. ASSUME NEW m \in Messages, Cancel(m) PROVE row' \in [Messages -> RowType]
  <2>1. [row[m] EXCEPT !.status = "Canceled"] \in RowType
    BY <1>0, RowTypes
  <2> QED BY <1>0, <1>4, <2>1 DEF Cancel
<1>5. ASSUME NEW w \in Workers, NEW m \in Messages, Claim(w, m)
      PROVE  row' \in [Messages -> RowType]
  <2>1. LockEnd \in Nat
    BY <1>0, OutboxAssumption DEF LockEnd
  <2>2. [row[m] EXCEPT !.status = "Sending", !.nextAt = LockEnd] \in RowType
    BY <1>0, <2>1, RowTypes
  <2> QED BY <1>0, <1>5, <2>2 DEF Claim
<1>6. ASSUME NEW w \in Workers, SaveSlackTs(w) PROVE row' \in [Messages -> RowType]
  <2>1. [row[msg[w]] EXCEPT !.posted = TRUE] \in RowType
    BY <1>0, <1>6, RowTypes DEF SaveSlackTs
  <2> QED BY <1>0, <1>6, <2>1 DEF SaveSlackTs
<1>7. ASSUME NEW w \in Workers, Outcome(w) PROVE row' \in [Messages -> RowType]
  <2>0. msg[w] \in Messages /\ row[msg[w]] \in RowType /\ saw[w].deferUntil \in Nat
    BY <1>0, <1>7 DEF Outcome, SawType
  <2>1. /\ [row[msg[w]] EXCEPT !.status = "Sent"] \in RowType
        /\ [row[msg[w]] EXCEPT !.status = "Canceled"] \in RowType
        /\ [row[msg[w]] EXCEPT !.status = "Pending", !.nextAt = saw[w].deferUntil] \in RowType
    BY <1>0, <2>0, RowTypes
  <2> QED BY <1>0, <1>7, <2>0, <2>1 DEF Outcome
<1>8. ASSUME NEW w \in Workers, Fail(w) PROVE row' \in [Messages -> RowType]
  <2> DEFINE n == saw[w].attempts + 1
  <2>0. msg[w] \in Messages /\ row[msg[w]] \in RowType /\ n \in Nat \ {0}
    BY <1>0, <1>8 DEF Fail, SawType
  <2>1. CASE n >= MaxAttempts
    <3>1. [row[msg[w]] EXCEPT !.status = "Dead", !.attempts = n] \in RowType
      BY <1>0, <2>0, RowTypes
    <3> QED BY <1>0, <1>8, <2>0, <2>1, <3>1 DEF Fail
  <2>2. CASE ~(n >= MaxAttempts)
    <3>1. n \in 1..MaxAttempts
      BY <2>0, <2>2, OutboxAssumption
    <3>2. clock + Backoff[n] \in Nat
      BY <1>0, <3>1, OutboxAssumption
    <3>3. [row[msg[w]] EXCEPT !.status = "Pending", !.attempts = n,
                              !.nextAt = clock + Backoff[n]] \in RowType
      BY <1>0, <2>0, <3>2, RowTypes
    <3> QED BY <1>0, <1>8, <2>0, <2>2, <3>3 DEF Fail
  <2> QED BY <2>1, <2>2
<1>9. CASE Purge
  BY <1>0, <1>9, RowTypes DEF Purge
<1>10. CASE row' = row
  BY <1>0, <1>10
<1> QED
  BY <1>2, <1>3, <1>4, <1>5, <1>6, <1>7, <1>8, <1>9, <1>10
  DEF Act, Work, Read, CheckCap, Send, CountUsage, Upload, Throw, Abandon, Crash, Advance

\* So do the worker's variables.
LEMMA WorkerStep ==
    ASSUME TypeOK, Act
    PROVE  /\ pc' \in [Workers -> PCs]
           /\ msg' \in [Workers -> Messages \cup {NoMessage}]
           /\ saw' \in [Workers -> SawType]
           /\ until' \in [Workers -> Nat]
<1> DEFINE Typed == /\ pc' \in [Workers -> PCs]
                    /\ msg' \in [Workers -> Messages \cup {NoMessage}]
                    /\ saw' \in [Workers -> SawType]
                    /\ until' \in [Workers -> Nat]
<1>0. /\ clock \in Nat /\ row \in [Messages -> RowType] /\ exists \subseteq Messages
      /\ pc \in [Workers -> PCs] /\ msg \in [Workers -> Messages \cup {NoMessage}]
      /\ saw \in [Workers -> SawType] /\ until \in [Workers -> Nat]
  BY DEF TypeOK, SawType, PCs
<1>1. ASSUME NEW w \in Workers, NEW l \in PCs, Goto(w, l), msg' = msg, saw' = saw, until' = until
      PROVE  Typed
  BY <1>0, <1>1 DEF Goto
<1>2. ASSUME NEW w \in Workers, Leave(w) PROVE Typed
  BY <1>2, LeaveTypes
<1>3. ASSUME NEW w \in Workers, NEW m \in Messages, Claim(w, m) PROVE Typed
  <2>1. clock + LOCK \in Nat /\ "read" \in PCs
    BY <1>0, OutboxAssumption DEF PCs
  <2> QED BY <1>0, <1>3, <2>1 DEF Claim, Goto
<1>4. ASSUME NEW w \in Workers, Read(w) PROVE Typed
  <2> DEFINE r == row[msg[w]]
  <2>1. r \in RowType
    BY <1>0, <1>4 DEF Read
  <2>2. FirstStep(w, msg[w], r.posted) \in PCs
    BY DEF FirstStep, PCs
  <2>3. [Nothing EXCEPT !.attempts = r.attempts, !.posted = r.posted] \in SawType
    BY <2>1, SawTypes
  <2> QED BY <1>0, <1>4, <2>2, <2>3 DEF Read, Goto
<1>5. ASSUME NEW w \in Workers, CheckCap(w) PROVE Typed
  <2>1. CASE OverCap
    <3>1. saw' = [saw EXCEPT ![w] = [saw[w] EXCEPT !.deferUntil = NextMidnight(clock)]]
      BY <1>0, <1>5, <2>1 DEF CheckCap
    <3>2. [saw[w] EXCEPT !.deferUntil = NextMidnight(clock)] \in SawType
      BY <1>0, MidnightType, SawTypes
    <3> QED BY <1>0, <1>5, <2>1, <3>1, <3>2 DEF CheckCap, Goto, PCs
  <2>2. CASE ~OverCap
    BY <1>0, <1>5, <2>2 DEF CheckCap, Goto, PCs
  <2> QED BY <2>1, <2>2
<1>6. ASSUME NEW w \in Workers, NEW accepted \in BOOLEAN, NEW answered \in BOOLEAN,
             Send(w, accepted, answered)
      PROVE  Typed
  BY <1>0, <1>6 DEF Send, Goto, PCs
<1>7. ASSUME NEW w \in Workers, CountUsage(w) \/ SaveSlackTs(w) \/ Upload(w) \/ Throw(w)
      PROVE  Typed
  BY <1>0, <1>7 DEF CountUsage, SaveSlackTs, Upload, Throw, Goto, PCs
<1>8. ASSUME NEW w \in Workers, Outcome(w) \/ Fail(w) \/ Abandon(w) PROVE Typed
  BY <1>2, <1>8 DEF Outcome, Fail, Abandon
<1>9. ASSUME NEW p \in Processes, Crash(p) PROVE Typed
  BY <1>0, <1>9, SawTypes DEF Crash, PCs
<1>10. CASE UNCHANGED workerVars
  BY <1>0, <1>10 DEF workerVars
<1> QED
  BY <1>3, <1>4, <1>5, <1>6, <1>7, <1>8, <1>9, <1>10
  DEF Act, Work, Enqueue, Retry, Cancel, Purge, Advance

\* And the counters.
LEMMA CounterStep ==
    ASSUME TypeOK, Act
    PROVE  /\ clock' \in Nat /\ exists' \subseteq Messages
           /\ usage' \in [Days -> Nat]
           /\ crashes' \in Nat /\ retries' \in Nat
           /\ delivered' \in [Messages -> 0..2]
<1> DEFINE Typed == /\ clock' \in Nat /\ exists' \subseteq Messages
                    /\ usage' \in [Days -> Nat]
                    /\ crashes' \in Nat /\ retries' \in Nat
                    /\ delivered' \in [Messages -> 0..2]
<1>0. /\ clock \in Nat /\ exists \subseteq Messages /\ usage \in [Days -> Nat]
      /\ crashes \in Nat /\ retries \in Nat /\ delivered \in [Messages -> 0..2]
  BY DEF TypeOK
<1>1. ASSUME NEW m \in Messages, Enqueue(m) \/ Retry(m) \/ Cancel(m) PROVE Typed
  BY <1>0, <1>1 DEF Enqueue, Retry, Cancel
<1>2. ASSUME NEW w \in Workers, NEW m \in Messages, Claim(w, m) PROVE Typed
  BY <1>0, <1>2 DEF Claim
<1>3. ASSUME NEW w \in Workers, CountUsage(w) PROVE Typed
  <2>1. \A n \in Nat : n + 1 \in Nat
    OBVIOUS
  <2>2. usage' = [usage EXCEPT ![Day(clock)] = usage[Day(clock)] + 1]
    BY <1>3 DEF CountUsage
  <2>3. usage' \in [Days -> Nat]
    BY <1>0, <2>1, <2>2
  <2> QED BY <1>0, <1>3, <2>3 DEF CountUsage
<1>4. ASSUME NEW w \in Workers, NEW accepted \in BOOLEAN, NEW answered \in BOOLEAN,
             Send(w, accepted, answered)
      PROVE  Typed
  <2>1. \A n \in 0..2 : n < 2 => n + 1 \in 0..2
    OBVIOUS
  <2>2. \/ delivered' = delivered
        \/ /\ delivered[msg[w]] < 2
           /\ delivered' = [delivered EXCEPT ![msg[w]] = delivered[msg[w]] + 1]
    BY <1>4 DEF Send
  <2>3. delivered' \in [Messages -> 0..2]
    BY <1>0, <2>1, <2>2
  <2> QED BY <1>0, <1>4, <2>3 DEF Send
<1>5. CASE Purge
  BY <1>0, <1>5 DEF Purge
<1>6. CASE Advance
  BY <1>0, <1>6 DEF Advance
<1>7. ASSUME NEW p \in Processes, Crash(p) PROVE Typed
  BY <1>0, <1>7 DEF Crash
<1> QED
  BY <1>0, <1>1, <1>2, <1>3, <1>4, <1>5, <1>6, <1>7
  DEF Act, Work, Read, CheckCap, SaveSlackTs, Upload, Outcome, Throw, Fail, Abandon

LEMMA InitTypes == ASSUME Init PROVE TypeOK
<1>1. Blank \in RowType /\ Nothing \in SawType
  BY RowTypes, SawTypes DEF Init
<1> QED BY <1>1 DEF Init, TypeOK, SawType

\* Every reachable state is well typed: every call writes columns of their types
\* and a date that exists (outbound.server.ts).
THEOREM TypeCorrect == Spec => []TypeOK
<1>1. Init => TypeOK
  BY InitTypes
<1>2. TypeOK /\ [Next]_vars => TypeOK'
  <2> SUFFICES ASSUME TypeOK, [Next]_vars PROVE TypeOK'
    OBVIOUS
  <2>1. CASE UNCHANGED vars
    BY <2>1 DEF vars, history, TypeOK
  <2>2. CASE Next
    <3>1. Act /\ History
      BY <2>2 DEF Next
    <3> QED
      BY <3>1, RowStep, WorkerStep, CounterStep, HistoryTypes DEF TypeOK, SawType, PCs
  <2> QED BY <2>1, <2>2
<1> QED BY <1>1, <1>2, PTL DEF Spec

-----------------------------------------------------------------------------
(* The lease.  A step changes a held message's row only by its holder.      *)

\* What a call of a worker that keeps its message does to the lease's part of
\* the state.
StaysPut(w) ==
    /\ msg' = msg /\ until' = until
    /\ pc[w] # "idle" /\ \E l \in PCs \ {"idle"} : pc' = [pc EXCEPT ![w] = l]
    /\ \A m \in Messages : row'[m].status = row[m].status /\ row'[m].nextAt = row[m].nextAt

LEMMA WorkCases ==
    ASSUME TypeOK, NEW w \in Workers, Work(w)
    PROVE  \/ StaysPut(w)
           \/ pc[w] # "idle" /\ Leave(w) /\ \A m \in Messages \ {msg[w]} : row'[m] = row[m]
<1>0. row \in [Messages -> RowType] /\ exists \subseteq Messages
  BY DEF TypeOK
<1>1. ASSUME Read(w) \/ CheckCap(w) \/ CountUsage(w) \/ Upload(w) \/ Throw(w)
             \/ \E accepted, answered \in BOOLEAN : Send(w, accepted, answered)
      PROVE  StaysPut(w)
  <2>1. row' = row /\ msg' = msg /\ until' = until /\ pc[w] # "idle"
    BY <1>1 DEF Read, CheckCap, CountUsage, Upload, Throw, Send
  <2>2. \E l \in PCs \ {"idle"} : pc' = [pc EXCEPT ![w] = l]
    BY <1>1 DEF Read, CheckCap, CountUsage, Upload, Throw, Send, Goto, FirstStep, PCs
  <2> QED BY <2>1, <2>2 DEF StaysPut
<1>2. ASSUME SaveSlackTs(w) PROVE StaysPut(w)
  <2>1. row' = [row EXCEPT ![msg[w]] = [row[msg[w]] EXCEPT !.posted = TRUE]]
    BY <1>0, <1>2 DEF SaveSlackTs
  <2>2. \A r \in RowType : /\ [r EXCEPT !.posted = TRUE].status = r.status
                           /\ [r EXCEPT !.posted = TRUE].nextAt = r.nextAt
    BY DEF RowType
  <2>3. \A m \in Messages : row'[m].status = row[m].status /\ row'[m].nextAt = row[m].nextAt
    BY <1>0, <2>1, <2>2
  <2>4. "upload" \in PCs \ {"idle"}
    BY DEF PCs
  <2> QED BY <1>2, <2>3, <2>4 DEF SaveSlackTs, StaysPut, Goto
<1>3. ASSUME Outcome(w) \/ Fail(w) \/ Abandon(w)
      PROVE  pc[w] # "idle" /\ Leave(w) /\ \A m \in Messages \ {msg[w]} : row'[m] = row[m]
  BY <1>0, <1>3 DEF Outcome, Fail, Abandon
<1> QED BY <1>1, <1>2, <1>3 DEF Work

\* A worker has a message exactly while it works.
LEMMA BusyStep ==
    ASSUME TypeOK, BusyInv, Act
    PROVE  BusyInv'
<1> SUFFICES ASSUME NEW w \in Workers PROVE pc'[w] = "idle" <=> msg'[w] = NoMessage
  BY DEF BusyInv
<1>0. /\ pc \in [Workers -> PCs] /\ msg \in [Workers -> Messages \cup {NoMessage}]
      /\ pc[w] = "idle" <=> msg[w] = NoMessage
  BY DEF TypeOK, PCs, BusyInv
<1>1. ASSUME NEW v \in Workers, NEW m \in Messages, Claim(v, m)
      PROVE  pc'[w] = "idle" <=> msg'[w] = NoMessage
  BY <1>0, <1>1, OutboxAssumption DEF Claim, Goto
<1>2. ASSUME NEW v \in Workers, Work(v) PROVE pc'[w] = "idle" <=> msg'[w] = NoMessage
  <2>1. CASE StaysPut(v)
    BY <1>0, <2>1 DEF StaysPut, BusyInv
  <2>2. CASE Leave(v)
    BY <1>0, <2>2 DEF Leave
  <2> QED BY <1>2, <2>1, <2>2, WorkCases
<1>3. ASSUME NEW p \in Processes, Crash(p) PROVE pc'[w] = "idle" <=> msg'[w] = NoMessage
  BY <1>0, <1>3 DEF Crash
<1>4. CASE UNCHANGED workerVars
  BY <1>0, <1>4 DEF workerVars
<1> QED BY <1>1, <1>2, <1>3, <1>4 DEF Act, Enqueue, Retry, Cancel, Purge, Advance

\* The steps that leave a message's holders and lock alone, or take holders away.
LEMMA LockFrame ==
    ASSUME LeaseInv, NEW m \in Messages \ lapsed, NEW w \in Workers,
           msg'[w] = m, Holders(m)' \subseteq Holders(m), until'[w] = until[w],
           row'[m].status = row[m].status, row'[m].nextAt = row[m].nextAt
    PROVE  Holders(m)' = {w} /\ row'[m].status = "Sending" /\ row'[m].nextAt = until'[w]
<1>1. w \in Holders(m)'
  BY DEF Holders
<1>2. Holders(m) = {w} /\ row[m].status = "Sending" /\ row[m].nextAt = until[w]
  BY <1>1 DEF LeaseInv
<1> QED BY <1>1, <1>2

LEMMA LeaseInvStep ==
    ASSUME TypeOK, LeaseInv, Next
    PROVE  LeaseInv'
<1>0. /\ pc \in [Workers -> PCs] /\ msg \in [Workers -> Messages \cup {NoMessage}]
      /\ row \in [Messages -> RowType] /\ exists \subseteq Messages /\ clock \in Nat
      /\ until \in [Workers -> Nat] /\ Act /\ History
  BY DEF TypeOK, PCs, Next
<1>1. \A w \in Workers : pc'[w] = "idle" <=> msg'[w] = NoMessage
  BY <1>0, BusyStep DEF BusyInv, LeaseInv
<1>2. ASSUME NEW m \in Messages \ lapsed', NEW w \in Workers, msg'[w] = m
      PROVE  m \notin lapsed /\ m \in exists' /\ clock' < until'[w]
  <2>1. m \notin lapsed /\ ~(until'[w] <= clock') /\ m \in exists'
    BY <1>0, <1>2 DEF History
  <2>2. until'[w] \in Nat /\ clock' \in Nat
    BY <1>0, WorkerStep, CounterStep
  <2> QED BY <2>1, <2>2
<1>3. ASSUME NEW m \in Messages \ lapsed', NEW w \in Workers, msg'[w] = m
      PROVE  Holders(m)' = {w} /\ row'[m].status = "Sending" /\ row'[m].nextAt = until'[w]
  <2> DEFINE Goal == Holders(m)' = {w} /\ row'[m].status = "Sending" /\ row'[m].nextAt = until'[w]
  <2>0. m \in Messages \ lapsed
    BY <1>2, <1>3
  <2>1. ASSUME NEW k \in Messages, Enqueue(k) PROVE Goal
    <3>1. Holders(m)' = Holders(m) /\ w \in Holders(m) /\ until' = until
      BY <1>3, <2>1 DEF Enqueue, workerVars, Holders
    <3>2. m \in exists
      BY <2>0, <3>1 DEF LeaseInv
    <3>3. row'[m] = row[m]
      BY <1>0, <2>1, <3>2 DEF Enqueue
    <3> QED BY <1>3, <2>0, <3>1, <3>3, LockFrame
  <2>2. ASSUME NEW k \in Messages, Retry(k) \/ Cancel(k) PROVE Goal
    <3>1. Holders(m)' = Holders(m) /\ w \in Holders(m) /\ until' = until
      BY <1>3, <2>2 DEF Retry, Cancel, workerVars, Holders
    <3>2. row[m].status = "Sending"
      BY <2>0, <3>1 DEF LeaseInv
    <3>3. row'[m] = row[m]
      BY <1>0, <2>2, <3>2 DEF Retry, Cancel
    <3> QED BY <1>3, <2>0, <3>1, <3>3, LockFrame
  <2>3. ASSUME NEW v \in Workers, NEW k \in Messages, Claim(v, k) PROVE Goal
    <3>1. msg[v] = NoMessage
      BY <2>3 DEF Claim, LeaseInv, BusyInv
    <3>2. CASE k = m
      <4>1. Holders(m) = {}
        <5> SUFFICES ASSUME NEW x \in Holders(m) PROVE FALSE
          OBVIOUS
        <5>1. row[m].nextAt = until[x] /\ clock < until[x] /\ until[x] \in Nat
          BY <1>0, <2>0 DEF LeaseInv, Holders
        <5> QED BY <1>0, <2>3, <3>2, <5>1 DEF Claim, Due
      <4>2. Holders(m)' = {v}
        BY <1>0, <2>3, <3>2, <4>1 DEF Claim, Holders
      <4>3. w = v
        BY <1>3, <4>2 DEF Holders
      <4>4. row'[m] = [row[m] EXCEPT !.status = "Sending", !.nextAt = LockEnd]
        BY <1>0, <2>3, <3>2 DEF Claim
      <4>5. row'[m].status = "Sending" /\ row'[m].nextAt = LockEnd
        BY <1>0, <4>4 DEF RowType
      <4>6. until'[w] = LockEnd
        BY <1>0, <2>3, <4>3 DEF Claim, LockEnd
      <4> QED BY <4>2, <4>3, <4>5, <4>6
    <3>3. CASE k # m
      <4>1. row'[m] = row[m]
        BY <1>0, <2>3, <3>3 DEF Claim
      <4>2. w # v /\ until'[w] = until[w]
        BY <1>0, <1>3, <2>3, <3>3 DEF Claim
      <4>3. Holders(m)' \subseteq Holders(m)
        BY <1>0, <2>3, <3>3 DEF Claim, Holders
      <4> QED BY <1>3, <2>0, <4>1, <4>2, <4>3, LockFrame
    <3> QED BY <3>2, <3>3
  <2>4. ASSUME NEW v \in Workers, Work(v) PROVE Goal
    <3>1. CASE StaysPut(v)
      <4>1. Holders(m)' = Holders(m) /\ until'[w] = until[w]
        BY <3>1 DEF StaysPut, Holders
      <4>2. row'[m].status = row[m].status /\ row'[m].nextAt = row[m].nextAt
        BY <2>0, <3>1 DEF StaysPut
      <4> QED BY <1>3, <2>0, <4>1, <4>2, LockFrame
    <3>2. CASE Leave(v) /\ \A k \in Messages \ {msg[v]} : row'[k] = row[k]
      <4>1. w # v /\ until'[w] = until[w] /\ Holders(m)' \subseteq Holders(m) /\ msg[w] = m
        BY <1>0, <1>3, <3>2, OutboxAssumption DEF Leave, Holders
      <4>2. Holders(m) = {w}
        BY <2>0, <4>1 DEF LeaseInv, Holders
      <4>3. msg[v] # m
        BY <4>1, <4>2 DEF Holders
      <4> QED BY <1>3, <2>0, <3>2, <4>1, <4>3, LockFrame
    <3> QED BY <2>4, <3>1, <3>2, WorkCases
  <2>5. CASE Purge
    <3>1. Holders(m)' = Holders(m) /\ until' = until
      BY <2>5 DEF Purge, workerVars, Holders
    <3>2. row'[m] = row[m]
      BY <1>2, <1>3, <2>5 DEF Purge
    <3> QED BY <1>3, <2>0, <3>1, <3>2, LockFrame
  <2>6. ASSUME NEW p \in Processes, Crash(p) PROVE Goal
    <3>1. Holders(m)' \subseteq Holders(m) /\ until'[w] = until[w]
      BY <1>0, <1>3, <2>6, OutboxAssumption DEF Crash, Holders
    <3>2. row' = row
      BY <2>6 DEF Crash
    <3> QED BY <1>3, <2>0, <3>1, <3>2, LockFrame
  <2>7. CASE Advance
    <3>1. Holders(m)' = Holders(m) /\ until' = until /\ row' = row
      BY <2>7 DEF Advance, workerVars, Holders
    <3> QED BY <1>3, <2>0, <3>1, LockFrame
  <2> QED BY <1>0, <2>1, <2>2, <2>3, <2>4, <2>5, <2>6, <2>7 DEF Act
<1> QED BY <1>1, <1>2, <1>3 DEF LeaseInv, BusyInv, Holders

LEMMA LeaseInvariant == Spec => []LeaseInv
<1>1. Init => LeaseInv
  BY OutboxAssumption DEF Init, LeaseInv, BusyInv, Holders
<1>2. TypeOK /\ LeaseInv /\ [Next]_vars => LeaseInv'
  <2>1. LeaseInv /\ UNCHANGED vars => LeaseInv'
    BY DEF vars, history, LeaseInv, BusyInv, Holders
  <2> QED BY <2>1, LeaseInvStep
<1> QED BY <1>1, <1>2, TypeCorrect, PTL DEF Spec

\* Nothing writes the status of a row that is Sent or Canceled: operators and
\* claims do not take it, and a worker only holds rows that are Sending.
LEMMA FinalStep ==
    ASSUME TypeOK, LeaseInv, Act, NEW m \in exists \ lapsed,
           row[m].status \in {"Sent", "Canceled"}, m \in exists'
    PROVE  row'[m].status = row[m].status
<1>0. /\ row \in [Messages -> RowType] /\ exists \subseteq Messages /\ m \in Messages
      /\ msg \in [Workers -> Messages \cup {NoMessage}]
  BY DEF TypeOK
<1>1. \A w \in Workers : msg[w] # m
  BY <1>0 DEF LeaseInv, Holders
<1>2. ASSUME NEW k \in Messages, Enqueue(k) \/ Retry(k) \/ Cancel(k)
      PROVE  row'[m] = row[m]
  BY <1>0, <1>2 DEF Enqueue, Retry, Cancel
<1>3. ASSUME NEW w \in Workers, NEW k \in Messages, Claim(w, k) PROVE row'[m] = row[m]
  BY <1>0, <1>3 DEF Claim, Queued
<1>4. ASSUME NEW w \in Workers, Work(w) PROVE row'[m].status = row[m].status
  BY <1>0, <1>1, <1>4, WorkCases DEF StaysPut
<1>5. CASE Purge
  BY <1>0, <1>5 DEF Purge
<1>6. CASE row' = row
  BY <1>6
<1> QED BY <1>0, <1>2, <1>3, <1>4, <1>5, <1>6 DEF Act, Crash, Advance

\* Sent and Canceled are final while no lock lapses: the unconditional writes of
\* sendOne and handleFailure (outbound.server.ts:245-258, 373-380) never meet one.
THEOREM Finality == Spec => TerminalStays
<1>1. TypeOK /\ LeaseInv /\ [Next]_vars =>
        [\A m \in exists \ lapsed : row[m].status \in {"Sent", "Canceled"} =>
           m \notin exists' \/ row'[m].status = row[m].status]_vars
  BY FinalStep DEF Next, vars
<1> QED BY <1>1, TypeCorrect, LeaseInvariant, PTL DEF Spec, TerminalStays

-----------------------------------------------------------------------------
(* The refinement.                                                          *)

\* Somebody holds every lapsed message.
LapsedHeldInv == \A m \in lapsed : m \in Messages /\ Holders(m) # {}

LEMMA LapsedHeld == Spec => []LapsedHeldInv
<1>1. Init => LapsedHeldInv
  BY DEF Init, LapsedHeldInv
<1>2. LapsedHeldInv /\ [Next]_vars => LapsedHeldInv'
  <2>1. Next => LapsedHeldInv'
    BY DEF Next, History, LapsedHeldInv, Holders
  <2>2. LapsedHeldInv /\ UNCHANGED vars => LapsedHeldInv'
    BY DEF vars, history, LapsedHeldInv, Holders
  <2> QED BY <2>1, <2>2
<1> QED BY <1>1, <1>2, PTL DEF Spec

\* A step in which no worker takes or leaves a message only lets locks lapse.
LEMMA ExpireStep ==
    ASSUME LapsedHeldInv, History, msg' = msg
    PROVE  AbstractLease!Next
<1>1. lapsed \subseteq lapsed' /\ lapsed' \subseteq Messages
  BY DEF History, LapsedHeldInv, Holders
<1>2. \A m \in lapsed' : Holders(m) # {}
  BY DEF History, Holders
<1>3. [m \in Messages |-> Holders(m)]' = [m \in Messages |-> Holders(m)]
  BY DEF Holders
<1>4. AbstractLease!Expire(lapsed' \ lapsed)
  BY <1>1, <1>2, <1>3 DEF AbstractLease!Expire
<1> QED BY <1>1, <1>4 DEF AbstractLease!Next

\* A claim acquires.
LEMMA AcquireStep ==
    ASSUME TypeOK, LeaseInv, LapsedHeldInv, History,
           NEW w \in Workers, NEW m \in Messages, Claim(w, m)
    PROVE  AbstractLease!Next
<1>0. /\ msg \in [Workers -> Messages \cup {NoMessage}] /\ until \in [Workers -> Nat]
      /\ row \in [Messages -> RowType] /\ clock \in Nat /\ lapsed \subseteq Messages
  BY DEF TypeOK
<1>1. msg[w] = NoMessage
  BY DEF Claim, LeaseInv, BusyInv
<1>2. /\ msg' = [msg EXCEPT ![w] = m] /\ clock' = clock /\ exists' = exists
      /\ \A v \in Workers \ {w} : until'[v] = until[v]
  BY <1>0 DEF Claim
<1>3. \A k \in Messages : Holders(k)' = IF k = m THEN Holders(k) \cup {w} ELSE Holders(k)
  BY <1>0, <1>1, <1>2, OutboxAssumption DEF Holders
<1>4. Holders(m) = {} \/ m \in lapsed
  <2> SUFFICES ASSUME NEW v \in Holders(m), m \notin lapsed PROVE FALSE
    OBVIOUS
  <2>1. row[m].nextAt = until[v] /\ clock < until[v] /\ until[v] \in Nat
    BY <1>0 DEF LeaseInv, Holders
  <2> QED BY <1>0, <2>1 DEF Claim, Due
<1>5. \A k \in Messages \ {m} : k \in lapsed' <=> k \in lapsed
  <2> SUFFICES ASSUME NEW k \in Messages \ {m} PROVE k \in lapsed' <=> k \in lapsed
    OBVIOUS
  <2>1. ASSUME k \in lapsed PROVE k \in lapsed'
    <3>1. PICK v \in Holders(k) : TRUE
      BY <2>1 DEF LapsedHeldInv
    <3>2. v \in Workers /\ msg'[v] = k
      BY <1>3, <3>1 DEF Holders
    <3> QED BY <2>1, <3>2 DEF History
  <2>2. ASSUME k \in lapsed', k \notin lapsed PROVE FALSE
    <3>1. PICK v \in Workers : msg'[v] = k /\ (until'[v] <= clock' \/ k \notin exists')
      BY <2>2 DEF History
    <3>2. v # w /\ v \in Holders(k)
      BY <1>0, <1>2, <3>1 DEF Holders
    <3>3. k \in exists /\ clock < until[v] /\ until[v] \in Nat
      BY <1>0, <2>2, <3>2 DEF LeaseInv, Holders
    <3> QED BY <1>0, <1>2, <3>1, <3>2, <3>3
  <2> QED BY <2>1, <2>2
<1>6. m \in lapsed => m \in lapsed'
  BY <1>0, <1>2 DEF History
<1>7. lapsed' \subseteq Messages
  BY DEF History
<1>8. lapsed' \in {lapsed, lapsed \cup {m}}
  BY <1>0, <1>5, <1>6, <1>7
<1>9. AbstractLease!Acquire(w, m)
  <2> DEFINE H == [k \in Messages |-> Holders(k)]
  <2>1. w \notin H[m] /\ H[m] = Holders(m)
    BY <1>1, OutboxAssumption DEF Holders
  <2>2. H' = [H EXCEPT ![m] = H[m] \cup {w}]
    <3>1. H' = [k \in Messages |-> Holders(k)']
      OBVIOUS
    <3>2. \A k \in Messages : H[k] = Holders(k)
      OBVIOUS
    <3>3. [H EXCEPT ![m] = H[m] \cup {w}]
            = [k \in Messages |-> IF k = m THEN Holders(m) \cup {w} ELSE Holders(k)]
      BY <3>2
    <3>4. \A k \in Messages : Holders(k)' = IF k = m THEN Holders(m) \cup {w} ELSE Holders(k)
      BY <1>3
    <3> QED BY <3>1, <3>3, <3>4
  <2> QED BY <1>4, <1>8, <2>1, <2>2 DEF AbstractLease!Acquire
<1> QED BY <1>9 DEF AbstractLease!Next

\* A worker that is done, or a machine that dies, releases.
LEMMA ReleaseStep ==
    ASSUME TypeOK, LeaseInv, LapsedHeldInv, History, NEW C \in SUBSET Workers,
           \A w \in C : msg'[w] = NoMessage,
           \A w \in Workers \ C : msg'[w] = msg[w] /\ until'[w] = until[w],
           clock' = clock, exists' = exists
    PROVE  AbstractLease!Next
<1>0. until \in [Workers -> Nat] /\ clock \in Nat /\ lapsed \subseteq Messages
  BY DEF TypeOK
<1>1. \A m \in Messages : Holders(m)' = Holders(m) \ C
  BY OutboxAssumption DEF Holders
<1>2. \A m \in Messages : m \in lapsed' <=> m \in lapsed /\ Holders(m) \ C # {}
  <2> SUFFICES ASSUME NEW m \in Messages
               PROVE  m \in lapsed' <=> m \in lapsed /\ Holders(m) \ C # {}
    OBVIOUS
  <2>1. ASSUME m \in lapsed, Holders(m) \ C # {} PROVE m \in lapsed'
    <3>1. PICK v \in Workers : msg'[v] = m
      BY <1>1, <2>1 DEF Holders
    <3> QED BY <2>1, <3>1 DEF History
  <2>2. ASSUME m \in lapsed' PROVE m \in lapsed /\ Holders(m) \ C # {}
    <3>1. PICK v \in Workers : /\ msg'[v] = m
                               /\ m \in lapsed \/ until'[v] <= clock' \/ m \notin exists'
      BY <2>2 DEF History
    <3>2. v \in Holders(m) \ C
      BY <1>1, <3>1 DEF Holders
    <3>3. m \notin lapsed => m \in exists /\ clock < until[v]
      BY <3>2 DEF LeaseInv
    <3>4. v \in Workers /\ until'[v] = until[v] /\ until[v] \in Nat
      BY <1>0, <3>2
    <3> QED BY <1>0, <3>1, <3>2, <3>3, <3>4
  <2> QED BY <2>1, <2>2
<1>3. lapsed' \subseteq Messages
  BY DEF History
<1>4. AbstractLease!Release(C)
  <2>1. [m \in Messages |-> Holders(m)]' = [m \in Messages |-> Holders(m) \ C]
    BY <1>1
  <2> QED BY <1>0, <1>2, <1>3, <2>1 DEF AbstractLease!Release
<1> QED BY <1>4 DEF AbstractLease!Next

\* The outbox implements the abstract lease: nextAttemptAt as a lock (231-233)
\* lets a second worker take a message only after the first one's lock lapsed.
THEOREM Refinement == Spec => ImplementsLease
<1>1. Init => AbstractLease!Init
  BY OutboxAssumption DEF Init, AbstractLease!Init, Holders
<1>2. TypeOK /\ LeaseInv /\ LapsedHeldInv /\ [Next]_vars
        => [AbstractLease!Next]_AbstractLease!leaseVars
  <2> SUFFICES ASSUME TypeOK, LeaseInv, LapsedHeldInv, [Next]_vars
               PROVE  [AbstractLease!Next]_AbstractLease!leaseVars
    OBVIOUS
  <2>1. CASE UNCHANGED vars
    BY <2>1 DEF vars, history, AbstractLease!leaseVars, Holders
  <2>2. CASE Next
    <3>0. Act /\ History
      BY <2>2 DEF Next
    <3>1. CASE msg' = msg
      BY <3>0, <3>1, ExpireStep
    <3>2. ASSUME NEW w \in Workers, NEW m \in Messages, Claim(w, m) PROVE AbstractLease!Next
      BY <3>0, <3>2, AcquireStep
    <3>3. ASSUME NEW w \in Workers, Outcome(w) \/ Fail(w) \/ Abandon(w)
          PROVE  AbstractLease!Next
      <4> DEFINE C == {w}
      <4>1. /\ C \in SUBSET Workers
            /\ \A v \in C : msg'[v] = NoMessage
            /\ \A v \in Workers \ C : msg'[v] = msg[v] /\ until'[v] = until[v]
            /\ clock' = clock /\ exists' = exists
        BY <3>3 DEF Outcome, Fail, Abandon, Leave, TypeOK
      <4> HIDE DEF C
      <4> QED BY <3>0, <4>1, ReleaseStep
    <3>4. ASSUME NEW p \in Processes, Crash(p) PROVE AbstractLease!Next
      <4> DEFINE C == {w \in Workers : ProcessOf[w] = p}
      <4>1. /\ C \in SUBSET Workers
            /\ \A w \in C : msg'[w] = NoMessage
            /\ \A w \in Workers \ C : msg'[w] = msg[w] /\ until'[w] = until[w]
            /\ clock' = clock /\ exists' = exists
        BY <3>4 DEF Crash
      <4> HIDE DEF C
      <4> QED BY <3>0, <4>1, ReleaseStep
    <3> QED
      BY <3>0, <3>1, <3>2, <3>3, <3>4
      DEF Act, Work, workerVars, Enqueue, Retry, Cancel, Purge, Advance,
          Read, CheckCap, Send, CountUsage, SaveSlackTs, Upload, Throw
  <2> QED BY <2>1, <2>2
<1> QED
  BY <1>1, <1>2, TypeCorrect, LeaseInvariant, LapsedHeld, PTL
  DEF Spec, ImplementsLease, AbstractLease!Spec

-----------------------------------------------------------------------------
(* Delivered once.                                                          *)

\* Only SaveSlackTs sets posted, and only a new or a purged row has it reset.
LEMMA PostedStep ==
    ASSUME TypeOK, Act, NEW k \in Messages
    PROVE  \/ row'[k].posted = row[k].posted
           \/ row'[k].posted = FALSE /\ (k \notin exists \/ k \notin exists')
           \/ \E w \in Workers : SaveSlackTs(w) /\ msg[w] = k
<1> DEFINE Goal == \/ row'[k].posted = row[k].posted
                   \/ row'[k].posted = FALSE /\ (k \notin exists \/ k \notin exists')
                   \/ \E w \in Workers : SaveSlackTs(w) /\ msg[w] = k
<1>0. row \in [Messages -> RowType] /\ exists \subseteq Messages
  BY DEF TypeOK
<1>1. ASSUME NEW m \in Messages, Enqueue(m) PROVE Goal
  <2>1. row'[k] = row[k] \/ (row'[k] = NewRow /\ k \notin exists)
    BY <1>0, <1>1 DEF Enqueue
  <2> QED BY <2>1 DEF NewRow
<1>2. ASSUME NEW r \in RowType, NEW m \in Messages, row' = [row EXCEPT ![m] = r],
             r.posted = row[m].posted
      PROVE  Goal
  BY <1>0, <1>2
<1>3. ASSUME NEW m \in Messages, Retry(m) PROVE Goal
  BY <1>0, <1>3 DEF Retry, RowType
<1>4. ASSUME NEW m \in Messages, Cancel(m) PROVE Goal
  BY <1>0, <1>4 DEF Cancel, RowType
<1>5. ASSUME NEW w \in Workers, NEW m \in Messages, Claim(w, m) PROVE Goal
  BY <1>0, <1>5 DEF Claim, RowType
<1>6. ASSUME NEW w \in Workers, SaveSlackTs(w) PROVE Goal
  BY <1>0, <1>6 DEF SaveSlackTs
<1>7. ASSUME NEW w \in Workers, Outcome(w) PROVE Goal
  <2>1. CASE pc[w] = "mark"
    BY <1>0, <1>7, <2>1 DEF Outcome, RowType
  <2>2. CASE pc[w] = "cancel"
    BY <1>0, <1>7, <2>2 DEF Outcome, RowType
  <2>3. CASE pc[w] = "defer"
    BY <1>0, <1>7, <2>3 DEF Outcome, RowType
  <2> QED BY <1>7, <2>1, <2>2, <2>3 DEF Outcome
<1>8. ASSUME NEW w \in Workers, Fail(w) PROVE Goal
  BY <1>0, <1>8 DEF Fail, RowType
<1>9. CASE Purge
  BY <1>9 DEF Purge, Blank
<1>10. CASE row' = row
  BY <1>10
<1> QED
  BY <1>1, <1>3, <1>4, <1>5, <1>6, <1>7, <1>8, <1>9, <1>10
  DEF Act, Work, Read, CheckCap, Send, CountUsage, Upload, Throw, Abandon, Crash, Advance

\* A worker in a step of a kind's own keeps to that kind.
CallInv ==
    \A w \in Workers : /\ pc[w] \in {"check", "count"} => Kind[msg[w]] = "email"
                       /\ pc[w] = "save" => Kind[msg[w]] = "thread"

LEMMA CallStep ==
    ASSUME TypeOK, CallInv, Act
    PROVE  CallInv'
<1> SUFFICES ASSUME NEW v \in Workers
             PROVE  /\ pc'[v] \in {"check", "count"} => Kind[msg'[v]] = "email"
                    /\ pc'[v] = "save" => Kind[msg'[v]] = "thread"
  BY DEF CallInv
<1> DEFINE Goal == /\ pc'[v] \in {"check", "count"} => Kind[msg'[v]] = "email"
                   /\ pc'[v] = "save" => Kind[msg'[v]] = "thread"
<1>0. /\ pc \in [Workers -> PCs] /\ msg \in [Workers -> Messages \cup {NoMessage}]
      /\ pc[v] \in {"check", "count"} => Kind[msg[v]] = "email"
      /\ pc[v] = "save" => Kind[msg[v]] = "thread"
  BY DEF TypeOK, PCs, CallInv
<1>1. ASSUME NEW w \in Workers, NEW l, pc' = [pc EXCEPT ![w] = l], msg' = msg,
             l \in {"check", "count"} => Kind[msg[w]] = "email",
             l = "save" => Kind[msg[w]] = "thread"
      PROVE  Goal
  <2>1. CASE v = w
    BY <1>0, <1>1, <2>1
  <2>2. CASE v # w
    BY <1>0, <1>1, <2>2
  <2> QED BY <2>1, <2>2
<1>2. ASSUME NEW w \in Workers, NEW m \in Messages, Claim(w, m) PROVE Goal
  BY <1>0, <1>2 DEF Claim, Goto
<1>3. ASSUME NEW w \in Workers, Read(w) PROVE Goal
  <2> DEFINE l == FirstStep(w, msg[w], row[msg[w]].posted)
  <2>1. msg' = msg /\ pc' = [pc EXCEPT ![w] = l]
    BY <1>3 DEF Read, Goto
  <2>2. l \in {"check", "cancel", "upload", "send"} /\ (l = "check" => Kind[msg[w]] = "email")
    BY DEF FirstStep
  <2> HIDE DEF l
  <2> QED BY <1>1, <2>1, <2>2
<1>4. ASSUME NEW w \in Workers, Send(w, TRUE, TRUE) PROVE Goal
  <2> DEFINE l == CASE Kind[msg[w]] = "email" -> "count"
                    [] Kind[msg[w]] = "thread" -> "save"
                    [] OTHER -> "mark"
  <2>1. msg' = msg /\ pc' = [pc EXCEPT ![w] = l]
    BY <1>4 DEF Send, Goto
  <2>2. /\ l \in {"count", "save", "mark"}
        /\ l = "count" => Kind[msg[w]] = "email"
        /\ l = "save" => Kind[msg[w]] = "thread"
    OBVIOUS
  <2> HIDE DEF l
  <2> QED BY <1>1, <2>1, <2>2
<1>5. ASSUME NEW w \in Workers, msg' = msg,
             NEW l \in {"defer", "send", "mark", "fail", "upload"}, pc' = [pc EXCEPT ![w] = l]
      PROVE  Goal
  BY <1>1, <1>5
<1>6. ASSUME NEW w \in Workers, Leave(w) PROVE Goal
  BY <1>0, <1>6 DEF Leave
<1>7. ASSUME NEW p \in Processes, Crash(p) PROVE Goal
  BY <1>0, <1>7 DEF Crash
<1>8. CASE UNCHANGED workerVars
  BY <1>0, <1>8 DEF workerVars
<1>9. ASSUME NEW w \in Workers, NEW accepted \in BOOLEAN, NEW answered \in BOOLEAN,
             Send(w, accepted, answered)
      PROVE  Goal
  <2>1. CASE accepted /\ answered
    <3>1. Send(w, TRUE, TRUE)
      BY <1>9, <2>1 DEF Send
    <3> QED BY <1>4, <3>1
  <2>2. CASE ~(accepted /\ answered)
    BY <1>5, <1>9, <2>2 DEF Send, Goto
  <2> QED BY <2>1, <2>2
<1>10. ASSUME NEW w \in Workers, CheckCap(w) \/ CountUsage(w) \/ SaveSlackTs(w)
                                   \/ Upload(w) \/ Throw(w)
       PROVE  Goal
  <2>1. msg' = msg /\ \E l \in {"defer", "send", "mark", "fail", "upload"} :
                         pc' = [pc EXCEPT ![w] = l]
    BY <1>10 DEF CheckCap, CountUsage, SaveSlackTs, Upload, Throw, Goto
  <2> QED BY <1>5, <2>1
<1> QED
  BY <1>2, <1>3, <1>6, <1>7, <1>8, <1>9, <1>10
  DEF Act, Work, Outcome, Fail, Abandon, Enqueue, Retry, Cancel, Purge, Advance

LEMMA KindInvariant == Spec => []KindInv
<1>1. Init => KindInv
  BY DEF Init, KindInv, Blank
<1>2. TypeOK /\ KindInv /\ [Next]_vars => KindInv'
  <2>1. KindInv /\ UNCHANGED vars => KindInv'
    BY DEF vars, KindInv
  <2>2. ASSUME TypeOK, KindInv, Act PROVE KindInv'
    <3>1. CallInv'
      <4>1. CallInv
        BY <2>2 DEF KindInv, CallInv
      <4> QED BY <2>2, <4>1, CallStep
    <3>2. ASSUME NEW m \in Messages, row'[m].posted PROVE Kind[m] = "thread"
      <4>1. CASE row'[m].posted = row[m].posted
        BY <2>2, <3>2, <4>1 DEF KindInv
      <4>2. CASE \E w \in Workers : SaveSlackTs(w) /\ msg[w] = m
        BY <2>2, <4>2 DEF SaveSlackTs, KindInv
      <4>3. row'[m].posted # FALSE
        BY <3>2
      <4> QED BY <2>2, <4>1, <4>2, <4>3, PostedStep
    <3> QED BY <3>1, <3>2 DEF KindInv, CallInv
  <2> QED BY <2>1, <2>2 DEF Next
<1> QED BY <1>1, <1>2, TypeCorrect, PTL DEF Spec

\* A call of a worker can end it only where it throws, writes an outcome, gives
\* up, or dies with its machine.
LEMMA UnrecordedStep ==
    ASSUME TypeOK, LeaseInv, KindInv, Act, NEW w \in Workers, NEW m \in Messages \ lapsed,
           msg[w] = m, Unrecorded(w), ~(pc'[w] \in {"fail", "idle"} /\ row'[m].status # "Sent")
    PROVE  \/ msg'[w] = m /\ Unrecorded(w)'
           \/ row'[m].status = "Sent"
           \/ row'[m].posted = TRUE
<1> DEFINE Goal == \/ msg'[w] = m /\ Unrecorded(w)'
                   \/ row'[m].status = "Sent"
                   \/ row'[m].posted = TRUE
<1>0. /\ pc \in [Workers -> PCs] /\ msg \in [Workers -> Messages \cup {NoMessage}]
      /\ row \in [Messages -> RowType]
      /\ pc[w] \in {"count", "save", "mark"} /\ (pc[w] = "mark" => Kind[m] # "thread")
      /\ (pc[w] = "count" => Kind[m] = "email")
  BY DEF TypeOK, PCs, Unrecorded, KindInv
<1>1. CASE pc'[w] = pc[w] /\ msg'[w] = msg[w]
  BY <1>0, <1>1 DEF Unrecorded
<1>2. ASSUME NEW v \in Workers, v # w, Work(v) PROVE Goal
  BY <1>0, <1>1, <1>2, WorkCases DEF StaysPut, Leave
<1>3. ASSUME NEW v \in Workers, NEW k \in Messages, Claim(v, k) PROVE Goal
  BY <1>0, <1>1, <1>3 DEF Claim, Goto
<1>4. ASSUME CountUsage(w) PROVE Goal
  <2>1. msg' = msg /\ pc[w] = "count" /\ pc'[w] \in {"mark", "fail"}
    BY <1>0, <1>4 DEF CountUsage, Goto
  <2> QED BY <1>0, <2>1 DEF Unrecorded
<1>5. ASSUME SaveSlackTs(w) PROVE Goal
  BY <1>0, <1>5 DEF SaveSlackTs
<1>6. ASSUME Outcome(w) PROVE Goal
  <2>1. pc[w] = "mark"
    BY <1>0, <1>6 DEF Outcome
  <2> QED BY <1>0, <1>6, <2>1 DEF Outcome
<1>7. ASSUME NEW p \in Processes, Crash(p) PROVE Goal
  BY <1>0, <1>1, <1>7 DEF Crash
<1>8. CASE UNCHANGED workerVars
  BY <1>1, <1>8 DEF workerVars
<1>9. ASSUME Throw(w) PROVE Goal
  BY <1>0, <1>9 DEF Throw, Goto
<1>10. ASSUME Read(w) \/ CheckCap(w) \/ Upload(w) \/ Fail(w) \/ Abandon(w)
              \/ \E accepted, answered \in BOOLEAN : Send(w, accepted, answered)
       PROVE  FALSE
  BY <1>0, <1>10 DEF Read, CheckCap, Upload, Fail, Abandon, Send
<1> QED
  BY <1>2, <1>3, <1>4, <1>5, <1>6, <1>7, <1>8, <1>9, <1>10
  DEF Act, Work, Enqueue, Retry, Cancel, Purge, Advance

\* Only a send changes what the provider has, by at most the one message.
LEMMA DeliveredStep ==
    ASSUME TypeOK, Act, NEW m \in Messages, delivered'[m] # delivered[m]
    PROVE  \E w \in Workers, accepted, answered \in BOOLEAN :
             /\ Send(w, accepted, answered) /\ msg[w] = m
             /\ delivered'[m] = delivered[m] + 1
<1>0. delivered \in [Messages -> 0..2] /\ msg \in [Workers -> Messages \cup {NoMessage}]
  BY DEF TypeOK
<1>1. PICK w \in Workers, accepted \in BOOLEAN, answered \in BOOLEAN : Send(w, accepted, answered)
  BY DEF Act, Enqueue, Retry, Cancel, Claim, Work, Read, CheckCap, CountUsage, SaveSlackTs,
         Upload, Outcome, Throw, Fail, Abandon, Purge, Crash, Advance
<1>2. msg[w] = m /\ delivered'[m] = delivered[m] + 1
  BY <1>0, <1>1 DEF Send
<1> QED BY <1>1, <1>2

\* A worker is about to send only after a check, or after it read a row with
\* nothing posted.
LEMMA ToSendStep ==
    ASSUME TypeOK, BusyInv, KindInv, Act, NEW w \in Workers, pc'[w] \in {"check", "send"}
    PROVE  /\ msg'[w] = msg[w]
           /\ \/ pc[w] \in {"check", "send"}
              \/ pc[w] = "read" /\ ~row[msg[w]].posted /\ msg[w] \in exists
<1> DEFINE Goal == /\ msg'[w] = msg[w]
                   /\ \/ pc[w] \in {"check", "send"}
                      \/ pc[w] = "read" /\ ~row[msg[w]].posted /\ msg[w] \in exists
<1>0. /\ pc \in [Workers -> PCs] /\ msg \in [Workers -> Messages \cup {NoMessage}]
      /\ row \in [Messages -> RowType] /\ exists \subseteq Messages
  BY DEF TypeOK, PCs
<1>1. CASE pc'[w] = pc[w] /\ msg'[w] = msg[w]
  BY <1>1
<1>2. ASSUME NEW v \in Workers, v # w, Work(v) PROVE Goal
  BY <1>0, <1>1, <1>2, WorkCases DEF StaysPut, Leave
<1>3. ASSUME NEW v \in Workers, NEW k \in Messages, Claim(v, k) PROVE Goal
  BY <1>0, <1>1, <1>3 DEF Claim, Goto
<1>4. CASE Read(w)
  <2>1. /\ pc[w] = "read" /\ msg[w] \in exists /\ msg' = msg
        /\ FirstStep(w, msg[w], row[msg[w]].posted) \in {"check", "send"}
    BY <1>0, <1>4 DEF Read, Goto
  <2>2. row[msg[w]].posted => Kind[msg[w]] = "thread"
    BY <1>0, <2>1 DEF KindInv
  <2>3. ~row[msg[w]].posted
    BY <2>1, <2>2 DEF FirstStep
  <2> QED BY <2>1, <2>3
<1>5. CASE CheckCap(w)
  BY <1>5 DEF CheckCap
<1>6. ASSUME NEW accepted \in BOOLEAN, NEW answered \in BOOLEAN, Send(w, accepted, answered)
      PROVE  Goal
  BY <1>6 DEF Send
<1>7. CASE CountUsage(w) \/ SaveSlackTs(w) \/ Upload(w) \/ Throw(w)
  BY <1>0, <1>7 DEF CountUsage, SaveSlackTs, Upload, Throw, Goto
<1>8. CASE Outcome(w) \/ Fail(w) \/ Abandon(w)
  BY <1>0, <1>8 DEF Outcome, Fail, Abandon, Leave
<1>9. ASSUME NEW p \in Processes, Crash(p) PROVE Goal
  BY <1>0, <1>1, <1>9 DEF Crash
<1>10. CASE UNCHANGED workerVars
  BY <1>1, <1>10 DEF workerVars
<1> QED
  BY <1>2, <1>3, <1>4, <1>5, <1>6, <1>7, <1>8, <1>9, <1>10
  DEF Act, Work, Enqueue, Retry, Cancel, Purge, Advance

\* What a step leaves without doubt was without doubt, keeps its row, and has no
\* holder that forgets what the provider took.
LEMMA DoubtStep ==
    ASSUME TypeOK, DeliveryInv, History, NEW m \in Messages \ doubt'
    PROVE  /\ m \notin doubt /\ m \notin lapsed
           /\ m \in exists => m \in exists'
           /\ \A w \in Workers : msg[w] = m /\ pc'[w] \in {"fail", "idle"} =>
                /\ ~(Unrecorded(w) /\ row'[m].status # "Sent")
                /\ ~(delivered' # delivered /\ pc[w] = "send")
BY DEF History, DeliveryInv

\* A send that the provider took: the row is locked by its sender, who is now at
\* the step that records it.
LEMMA SendStep ==
    ASSUME TypeOK, LeaseInv, DeliveryInv, Act, History, NEW m \in Messages \ doubt',
           delivered'[m] # delivered[m]
    PROVE  /\ delivered'[m] = 1 /\ m \in exists'
           /\ \E w \in Workers : Holders(m)' = {w} /\ Unrecorded(w)'
<1>0. /\ m \notin doubt /\ m \notin lapsed
      /\ pc \in [Workers -> PCs] /\ delivered \in [Messages -> 0..2]
  BY DoubtStep DEF TypeOK, PCs
<1>1. PICK w \in Workers, accepted \in BOOLEAN, answered \in BOOLEAN :
        Send(w, accepted, answered) /\ msg[w] = m /\ delivered'[m] = delivered[m] + 1
  BY DeliveredStep
<1>2. pc[w] = "send" /\ msg' = msg /\ exists' = exists
  BY <1>1 DEF Send
<1>3. Holders(m) = {w} /\ m \in exists
  BY <1>0, <1>1 DEF LeaseInv, Holders
<1>4. delivered[m] = 0
  BY <1>0, <1>1, <1>2 DEF DeliveryInv, Holders
<1>5. pc'[w] \notin {"fail", "idle"}
  BY <1>0, <1>1, <1>2, DoubtStep
<1>6. pc'[w] = CASE Kind[m] = "email" -> "count"
                 [] Kind[m] = "thread" -> "save"
                 [] OTHER -> "mark"
  BY <1>0, <1>1, <1>5 DEF Send, Goto
<1>7. Unrecorded(w)'
  BY <1>1, <1>2, <1>6 DEF Unrecorded
<1>8. Holders(m)' = {w}
  BY <1>2, <1>3 DEF Holders
<1> QED BY <1>1, <1>2, <1>3, <1>4, <1>7, <1>8

\* What was on record stays so, or its holder goes on to record it.
LEMMA RecordStep ==
    ASSUME TypeOK, LeaseInv, KindInv, DeliveryInv, Act, History, NEW m \in Messages \ doubt',
           delivered[m] = 1
    PROVE  /\ m \in exists'
           /\ \/ row'[m].status = "Sent" \/ row'[m].posted
              \/ \E w \in Holders(m)' : Unrecorded(w)'
<1>0. /\ m \notin doubt /\ m \notin lapsed /\ m \in exists /\ m \in exists'
  BY DoubtStep DEF DeliveryInv
<1>1. CASE row[m].status = "Sent"
  BY <1>0, <1>1, FinalStep
<1>2. CASE row[m].posted
  <2>1. ASSUME NEW w \in Workers, SaveSlackTs(w), msg[w] = m PROVE row'[m].posted
    BY <2>1 DEF SaveSlackTs, TypeOK, RowType
  <2> QED BY <1>0, <1>2, <2>1, PostedStep
<1>3. ASSUME NEW w \in Holders(m), Unrecorded(w)
      PROVE  \/ row'[m].status = "Sent" \/ row'[m].posted
             \/ \E v \in Holders(m)' : Unrecorded(v)'
  <2>1. w \in Workers /\ msg[w] = m
    BY DEF Holders
  <2>2. ~(pc'[w] \in {"fail", "idle"} /\ row'[m].status # "Sent")
    BY <1>3, <2>1, DoubtStep
  <2>3. \/ msg'[w] = m /\ Unrecorded(w)'
        \/ row'[m].status = "Sent"
        \/ row'[m].posted = TRUE
    BY <1>0, <1>3, <2>1, <2>2, UnrecordedStep
  <2> QED BY <2>1, <2>3 DEF Holders
<1> QED BY <1>0, <1>1, <1>2, <1>3 DEF DeliveryInv

LEMMA DeliveryStep ==
    ASSUME TypeOK, LeaseInv, KindInv, DeliveryInv, Act, History
    PROVE  DeliveryInv'
<1>1. lapsed' \subseteq doubt'
  BY DEF History
<1>2. ASSUME NEW m \in Messages \ doubt', delivered'[m] # delivered[m]
      PROVE  /\ delivered'[m] \in {0, 1}
             /\ m \in exists' /\ \E w \in Holders(m)' : Unrecorded(w)'
             /\ \A w \in Holders(m)' : pc'[w] \notin {"check", "send"}
  BY <1>2, SendStep DEF Unrecorded
<1>3. ASSUME NEW m \in Messages \ doubt', delivered'[m] = delivered[m]
      PROVE  /\ delivered'[m] \in {0, 1}
             /\ delivered'[m] = 1 =>
                  /\ m \in exists'
                  /\ \/ row'[m].status = "Sent" \/ row'[m].posted
                     \/ \E w \in Holders(m)' : Unrecorded(w)'
             /\ \A w \in Holders(m)' : pc'[w] \in {"check", "send"} => delivered'[m] = 0
  <2>0. m \notin doubt /\ m \notin lapsed /\ delivered[m] \in {0, 1}
    BY DoubtStep DEF DeliveryInv
  <2>1. ASSUME NEW w \in Holders(m)', pc'[w] \in {"check", "send"} PROVE delivered[m] = 0
    <3>1. w \in Workers /\ msg'[w] = m /\ BusyInv
      BY DEF Holders, LeaseInv
    <3>2. /\ w \in Holders(m)
          /\ pc[w] \in {"check", "send"} \/ (pc[w] = "read" /\ ~row[m].posted)
      BY <2>1, <3>1, ToSendStep DEF Holders
    <3>3. Holders(m) = {w} /\ row[m].status # "Sent"
      BY <2>0, <3>2 DEF LeaseInv
    <3>4. CASE pc[w] \in {"check", "send"}
      BY <2>0, <3>2, <3>4 DEF DeliveryInv
    <3>5. CASE pc[w] = "read" /\ ~row[m].posted
      BY <2>0, <3>3, <3>5 DEF DeliveryInv, Unrecorded
    <3> QED BY <3>2, <3>4, <3>5
  <2> QED BY <1>3, <2>0, <2>1, RecordStep
<1> QED BY <1>1, <1>2, <1>3 DEF DeliveryInv

LEMMA DeliveryInvariant == Spec => []DeliveryInv
<1>1. Init => DeliveryInv
  BY OutboxAssumption DEF Init, DeliveryInv, Holders
<1>2. TypeOK /\ LeaseInv /\ KindInv /\ DeliveryInv /\ [Next]_vars => DeliveryInv'
  <2>1. DeliveryInv /\ UNCHANGED vars => DeliveryInv'
    BY DEF vars, history, DeliveryInv, Holders, Unrecorded
  <2> QED BY <2>1, DeliveryStep DEF Next
<1> QED BY <1>1, <1>2, TypeCorrect, LeaseInvariant, KindInvariant, PTL DEF Spec

\* Whatever fails, defers, retries or is cancelled, for any numbers of messages
\* and workers: without a lapsed lock, a call cut short after the send, an
\* unanswered acceptance or a purged claim, no message goes out twice
\* (outbound.server.ts:4-5, 348-352).
THEOREM Once == Spec => []DeliveredOnce
<1>1. DeliveryInv => DeliveredOnce
  BY DEF DeliveryInv, DeliveredOnce
<1> QED BY <1>1, DeliveryInvariant, PTL

-----------------------------------------------------------------------------
(* The daily cap.                                                           *)

\* Today has a usage.
LEMMA Today ==
    ASSUME TypeOK, clock <= MaxTime
    PROVE  Day(clock) \in Days /\ usage[Day(clock)] \in Nat
<1>1. clock \in Nat /\ MaxTime \in Nat /\ usage \in [Days -> Nat]
  BY OutboxAssumption DEF TypeOK
<1>2. Day(clock) \in Nat /\ Day(MaxTime) \in Nat /\ Day(clock) <= Day(MaxTime)
  BY <1>1, DayType, DayMonotone
<1>3. Day(clock) \in Days
  BY <1>2 DEF Days
<1> QED BY <1>1, <1>3

\* An e-mail passes the cap only at a check that found the day below it.
LEMMA PassStep ==
    ASSUME TypeOK, clock <= MaxTime, Act, NEW v \in Workers, v \in InFlight'
    PROVE  v \in InFlight \/ (CheckCap(v) /\ usage[Day(clock)] < Cap)
<1> DEFINE Flying(l, k) == l \in {"send", "count"} /\ Kind[k] = "email"
           Goal == v \in InFlight \/ (CheckCap(v) /\ usage[Day(clock)] < Cap)
<1>0. /\ pc \in [Workers -> PCs] /\ msg \in [Workers -> Messages \cup {NoMessage}]
      /\ Flying(pc'[v], msg'[v])
  BY DEF TypeOK, PCs, InFlight
<1>1. CASE pc'[v] = pc[v] /\ msg'[v] = msg[v]
  BY <1>0, <1>1 DEF InFlight
<1>2. ASSUME NEW w \in Workers, w # v, Work(w) PROVE Goal
  BY <1>0, <1>1, <1>2, WorkCases DEF StaysPut, Leave
<1>3. ASSUME NEW w \in Workers, NEW k \in Messages, Claim(w, k) PROVE Goal
  BY <1>0, <1>1, <1>3 DEF Claim, Goto
<1>4. CASE Read(v)
  <2>1. msg' = msg /\ pc'[v] = FirstStep(v, msg[v], row[msg[v]].posted)
    BY <1>0, <1>4 DEF Read, Goto
  <2> QED BY <1>0, <2>1 DEF FirstStep
<1>5. CASE CheckCap(v)
  <2>1. ~OverCap
    BY <1>0, <1>5 DEF CheckCap, Goto
  <2>2. usage[Day(clock)] \in Nat /\ Cap \in Nat
    BY Today, OutboxAssumption
  <2> QED BY <1>5, <2>1, <2>2 DEF OverCap
<1>6. ASSUME NEW accepted \in BOOLEAN, NEW answered \in BOOLEAN, Send(v, accepted, answered)
      PROVE  Goal
  BY <1>0, <1>6 DEF Send, InFlight
<1>7. CASE CountUsage(v) \/ SaveSlackTs(v) \/ Upload(v) \/ Throw(v)
  BY <1>0, <1>7 DEF CountUsage, SaveSlackTs, Upload, Throw, Goto
<1>8. CASE Outcome(v) \/ Fail(v) \/ Abandon(v)
  BY <1>0, <1>8 DEF Outcome, Fail, Abandon, Leave
<1>9. ASSUME NEW p \in Processes, Crash(p) PROVE Goal
  BY <1>0, <1>1, <1>9 DEF Crash
<1>10. CASE UNCHANGED workerVars
  BY <1>1, <1>10 DEF workerVars
<1> QED
  BY <1>2, <1>3, <1>4, <1>5, <1>6, <1>7, <1>8, <1>9, <1>10
  DEF Act, Work, Enqueue, Retry, Cancel, Purge, Advance

\* Usage grows by the one e-mail that stops being in flight.
LEMMA CountStep ==
    ASSUME TypeOK, KindInv, NEW w \in Workers, CountUsage(w)
    PROVE  /\ w \in InFlight /\ w \notin InFlight'
           /\ clock' = clock /\ usage' = [usage EXCEPT ![Day(clock)] = @ + 1]
<1>0. pc \in [Workers -> PCs]
  BY DEF TypeOK, PCs
<1>1. pc[w] = "count" /\ Kind[msg[w]] = "email"
  BY DEF CountUsage, KindInv
<1>2. pc'[w] \in {"mark", "fail"} /\ clock' = clock
      /\ usage' = [usage EXCEPT ![Day(clock)] = @ + 1]
  BY <1>0 DEF CountUsage, Goto
<1> QED BY <1>1, <1>2 DEF InFlight

LEMMA UsageStep ==
    ASSUME Act
    PROVE  \/ \E w \in Workers : CountUsage(w)
           \/ usage' = usage /\ clock' = clock
           \/ usage' = usage /\ clock < MaxTime /\ clock' = clock + 1 /\ InFlight' = InFlight
BY DEF Act, Enqueue, Retry, Cancel, Claim, Work, Read, CheckCap, Send, SaveSlackTs,
       Upload, Outcome, Throw, Fail, Abandon, Purge, Crash, Advance, InFlight, workerVars

LEMMA FlightSize ==
    ASSUME NEW S \in SUBSET Workers, NEW T \in SUBSET S
    PROVE  /\ Cardinality(S) \in Nat /\ Cardinality(T) \in Nat
           /\ Cardinality(T) <= Cardinality(S)
           /\ \A w \in S \ T : Cardinality(T) + 1 <= Cardinality(S)
<1>1. IsFiniteSet(S) /\ IsFiniteSet(T) /\ Cardinality(T) <= Cardinality(S)
  BY FS_Subset, OutboxAssumption
<1>2. Cardinality(S) \in Nat /\ Cardinality(T) \in Nat
  BY <1>1, FS_CardinalityType
<1>3. ASSUME NEW w \in S \ T PROVE Cardinality(T) + 1 <= Cardinality(S)
  <2>1. T \subseteq S \ {w} /\ IsFiniteSet(S \ {w}) /\ Cardinality(S \ {w}) = Cardinality(S) - 1
    BY <1>1, <1>3, FS_RemoveElement
  <2>2. Cardinality(T) <= Cardinality(S \ {w})
    BY <2>1, FS_Subset
  <2> QED BY <1>2, <2>1, <2>2
<1> QED BY <1>1, <1>2, <1>3

LEMMA CapStep ==
    ASSUME TypeOK, KindInv, CapInv, Act
    PROVE  CapInv'
<1> DEFINE W == Cardinality(Workers)
           F == Cardinality(InFlight)
           G == Cardinality(InFlight')
           today == Day(clock)
<1>0. /\ clock \in Nat /\ MaxTime \in Nat /\ Cap \in Nat /\ clock <= MaxTime
      /\ usage \in [Days -> Nat] /\ today \in Days /\ usage[today] \in Nat
      /\ W \in Nat /\ W > 0 /\ F \in Nat /\ G \in Nat /\ G <= W
      /\ InFlight \in SUBSET Workers /\ InFlight' \in SUBSET Workers
  <2>1. InFlight \in SUBSET Workers /\ InFlight' \in SUBSET Workers
    BY DEF InFlight
  <2>2. W \in Nat /\ F \in Nat /\ G \in Nat /\ G <= W
    BY <2>1, FlightSize
  <2>3. W # 0
    BY FS_EmptySet, OutboxAssumption
  <2>4. W > 0
    <3> HIDE DEF W
    <3> QED BY <2>2, <2>3
  <2>5. /\ clock \in Nat /\ MaxTime \in Nat /\ Cap \in Nat /\ clock <= MaxTime
        /\ usage \in [Days -> Nat]
    BY OutboxAssumption DEF TypeOK, CapInv
  <2>6. today \in Days /\ usage[today] \in Nat
    BY <2>5, Today
  <2> QED BY <2>1, <2>2, <2>4, <2>5, <2>6
<1>1. clock' \in Nat /\ Day(clock') \in Nat /\ today <= Day(clock') /\ clock' <= MaxTime
  <2>1. clock' = clock \/ (clock < MaxTime /\ clock' = clock + 1)
    BY UsageStep DEF CountUsage
  <2>2. clock' \in Nat /\ clock <= clock' /\ clock' <= MaxTime
    BY <1>0, <2>1
  <2> QED BY <1>0, <2>2, DayType, DayMonotone
\* Who passed the cap now did so below it; who did before is counted in CapInv.
<1>2. \/ InFlight' \subseteq InFlight
      \/ usage[today] < Cap
  BY <1>0, PassStep
<1>3. Cap = 0 => InFlight' = {}
  BY <1>0, <1>2 DEF CapInv
<1>4. usage'[today] + G < Cap + W /\ \A d \in Days \ {today} : usage'[d] = usage[d]
  <2>1. ASSUME NEW w \in Workers, CountUsage(w)
        PROVE  usage'[today] + G < Cap + W /\ \A d \in Days \ {today} : usage'[d] = usage[d]
    <3>1. w \in InFlight \ InFlight' /\ usage' = [usage EXCEPT ![today] = @ + 1]
      BY <2>1, CountStep
    <3>2. InFlight' \subseteq InFlight
      BY <2>1 DEF CountUsage, InFlight, Goto, TypeOK
    <3>3. G + 1 <= F
      BY <1>0, <3>1, <3>2, FlightSize
    <3> HIDE DEF W, F, G, today
    <3>4. usage'[today] = usage[today] + 1 /\ \A d \in Days \ {today} : usage'[d] = usage[d]
      BY <1>0, <3>1
    <3>5. usage[today] + F < Cap + W
      BY DEF CapInv, W, F, today
    <3> QED BY <1>0, <3>3, <3>4, <3>5
  <2>2. ASSUME usage' = usage PROVE usage'[today] + G < Cap + W
    <3>1. CASE InFlight' \subseteq InFlight
      <4>1. G <= F
        BY <1>0, <3>1, FlightSize
      <4> HIDE DEF W, F, G, today
      <4>2. usage[today] + F < Cap + W
        BY DEF CapInv, W, F, today
      <4> QED BY <1>0, <2>2, <4>1, <4>2
    <3>2. CASE usage[today] < Cap
      <4> HIDE DEF W, F, G, today
      <4> QED BY <1>0, <2>2, <3>2
    <3> QED BY <1>2, <3>1, <3>2
  <2> QED BY <2>1, <2>2, UsageStep
<1>5. \A d \in Days : d > today => usage'[d] = 0
  <2> SUFFICES ASSUME NEW d \in Days, d > today PROVE usage'[d] = 0
    OBVIOUS
  <2>1. d # today
    BY <1>0 DEF Days
  <2> QED BY <1>4, <2>1 DEF CapInv
<1>6. usage'[Day(clock')] + G < Cap + W
  <2>1. CASE Day(clock') = today
    BY <1>4, <2>1
  <2>2. CASE Day(clock') # today
    <3>1. Day(clock') \in Days /\ Day(clock') > today
      <4>1. Day(MaxTime) \in Nat /\ Day(clock') <= Day(MaxTime)
        BY <1>0, <1>1, DayType, DayMonotone
      <4>2. today \in Nat
        BY <1>0 DEF Days
      <4> HIDE DEF today
      <4> QED BY <1>1, <2>2, <4>1, <4>2 DEF Days
    <3>2. usage'[Day(clock')] = 0
      BY <1>5, <3>1
    <3>3. Cap = 0 => G = 0
      BY <1>3, FS_EmptySet
    <3> HIDE DEF W, G
    <3> QED BY <1>0, <3>2, <3>3
  <2> QED BY <2>1, <2>2
<1>7. \A d \in Days : usage'[d] < Cap + W
  <2> SUFFICES ASSUME NEW d \in Days PROVE usage'[d] < Cap + W
    OBVIOUS
  <2>1. CASE d = today
    <3>1. usage' \in [Days -> Nat]
      BY CounterStep
    <3>2. usage'[today] \in Nat
      BY <1>0, <3>1
    <3> HIDE DEF W, G, today
    <3> QED BY <1>0, <1>4, <2>1, <3>2
  <2>2. CASE d # today
    BY <1>4, <2>2 DEF CapInv, CapOvershoot
  <2> QED BY <2>1, <2>2
<1>8. \A d \in Days : d > Day(clock') => usage'[d] = 0
  <2> SUFFICES ASSUME NEW d \in Days, d > Day(clock') PROVE usage'[d] = 0
    OBVIOUS
  <2>1. d > today
    <3>1. today \in Nat /\ d \in Nat
      BY <1>0 DEF Days
    <3> HIDE DEF today
    <3> QED BY <1>1, <3>1
  <2> QED BY <1>5, <2>1
<1>9. Day(clock)' = Day(clock')
  BY DEF Day
<1> QED BY <1>1, <1>3, <1>6, <1>7, <1>8, <1>9 DEF CapInv, CapOvershoot

LEMMA CapInvariant == Spec => []CapInv
<1>1. Init => CapInv
  <2> SUFFICES ASSUME Init PROVE CapInv
    OBVIOUS
  <2>1. clock = 0 /\ usage = [d \in Days |-> 0] /\ InFlight = {}
    BY DEF Init, InFlight
  <2>2. Cap \in Nat /\ MaxTime \in Nat /\ Cardinality(InFlight) = 0
    BY <2>1, FS_EmptySet, OutboxAssumption
  <2>3. Cardinality(Workers) \in Nat /\ Cardinality(Workers) > 0
    <3>1. Cardinality(Workers) \in Nat
      BY FS_CardinalityType, OutboxAssumption
    <3>2. Cardinality(Workers) # 0
      BY FS_EmptySet, OutboxAssumption
    <3> QED BY <3>1, <3>2
  <2>4. TypeOK
    BY InitTypes
  <2>5. clock <= MaxTime /\ Day(clock) \in Days
    BY <2>1, <2>2, <2>4, Today
  <2>6. usage[Day(clock)] = 0
    BY <2>1, <2>5
  <2>7. \A d \in Days : usage[d] = 0
    BY <2>1
  <2> QED BY <2>1, <2>2, <2>3, <2>5, <2>6, <2>7 DEF CapInv, CapOvershoot
<1>2. TypeOK /\ KindInv /\ CapInv /\ [Next]_vars => CapInv'
  <2>1. CapInv /\ UNCHANGED vars => CapInv'
    BY DEF vars, CapInv, CapOvershoot, InFlight, Day
  <2> QED BY <2>1, CapStep DEF Next
<1> QED BY <1>1, <1>2, TypeCorrect, KindInvariant, PTL DEF Spec

\* For every cap, day length and number of workers: a day's usage stays below
\* the cap plus the workers, which check before they send and count after
\* (outbound.server.ts:304-307, 328).
THEOREM Capped == Spec => []CapOvershoot
<1>1. CapInv => CapOvershoot
  BY DEF CapInv
<1> QED BY <1>1, CapInvariant, PTL
=============================================================================
