-------------------------- MODULE JobRunner_proofs --------------------------
(***************************************************************************)
(* JobRunner, for every set of machines, jobs and executions, every        *)
(* registry, lease and interval.                                           *)
(***************************************************************************)
EXTENDS JobRunner, TLAPS

USE DEF Threads, Runs, Holders

\* The rows the actions build are rows.
LEMMA RowTypes ==
    ASSUME clock \in Nat
    PROVE  /\ Blank \in RowType /\ NoRow \in ClaimedRowType
           /\ \A on \in BOOLEAN : Seed(on) \in RowType
           /\ \A r \in RowType : ClaimedRow(r) \in ClaimedRowType
BY JobRunnerAssumption DEF Null, Time, RowType, ClaimedRowType, Blank, NoRow, Seed, ClaimedRow

LEMMA SeedRowsType ==
    ASSUME clock \in Nat, exists \subseteq Jobs, row \in [Jobs -> RowType],
           NEW J \in SUBSET Jobs, NEW On, SeedRows(J, On)
    PROVE  exists' \subseteq Jobs /\ row' \in [Jobs -> RowType]
<1>1. \A j \in Jobs : (j \in On) \in BOOLEAN
  OBVIOUS
<1>2. \A j \in Jobs : (IF j \in J \ exists THEN Seed(j \in On) ELSE row[j]) \in RowType
  BY <1>1, RowTypes
<1> QED BY <1>2 DEF SeedRows

\* So are the rows they update.
LEMMA RowUpdates ==
    ASSUME NEW r \in RowType
    PROVE  /\ \A u \in Time : [r EXCEPT !.lockedUntil = u] \in RowType
           /\ \A on \in BOOLEAN, i \in Nat \ {0} :
                [r EXCEPT !.enabled = on, !.interval = i] \in RowType
           /\ \A n \in Nat, u, v, w \in Time :
                [r EXCEPT !.nextRunAt = n, !.lockedUntil = u,
                          !.lastRunAt = v, !.lastSuccessAt = w] \in RowType
BY DEF RowType, Time, Null

\* A thread that ends a run, or comes to rest, stays within its types.
LEMMA RestTypes ==
    ASSUME TypeOK, NEW t \in Threads, Rest(t)
    PROVE  /\ pc' \in [Threads -> {"idle", "seed", "scan", "loop", "ensure", "read", "claim", "run"}]
           /\ now' \in [Threads -> Nat]
           /\ todo' \in [Threads -> SUBSET Jobs]
           /\ seen' \in [Threads -> [Jobs -> ClaimedRowType]]
<1>1. NoSnapshot \in [Jobs -> ClaimedRowType]
  BY RowTypes DEF NoSnapshot, TypeOK
<1> QED BY <1>1 DEF Rest, TypeOK

LEMMA ResumeTypes ==
    ASSUME TypeOK, NEW t \in Threads, Resume(t)
    PROVE  /\ pc' \in [Threads -> {"idle", "seed", "scan", "loop", "ensure", "read", "claim", "run"}]
           /\ now' \in [Threads -> Nat]
           /\ todo' \in [Threads -> SUBSET Jobs]
           /\ seen' \in [Threads -> [Jobs -> ClaimedRowType]]
           /\ job' \in [Threads -> Jobs \cup {NoJob}]
<1>1. job' \in [Threads -> Jobs \cup {NoJob}]
  BY DEF Resume, TypeOK
<1>2. CASE t \in Tickers
  BY <1>1, <1>2 DEF Resume, TypeOK
<1>3. CASE t \notin Tickers
  <2>1. Rest(t)
    BY <1>3 DEF Resume
  <2> QED BY <1>1, <2>1, RestTypes
<1> QED BY <1>2, <1>3

\* Every variable stays within its type.
LEMMA TypeCorrect == Spec => []TypeOK
<1> USE JobRunnerAssumption
<1>1. Init => TypeOK
  BY RowTypes DEF Init, TypeOK, NoSnapshot
<1>2. TypeOK /\ [Next]_vars => TypeOK'
  <2> SUFFICES ASSUME TypeOK, [Next]_vars
               PROVE  TypeOK'
    OBVIOUS
  <2> USE DEF TypeOK
  <2>0. NoSnapshot \in [Jobs -> ClaimedRowType]
    BY RowTypes DEF NoSnapshot
  <2>1. CASE UNCHANGED vars
    BY <2>1 DEF vars
  <2>2. CASE Next
    <3>0. lapsed' \subseteq Jobs
      BY <2>2 DEF Next, Lapse
    <3>1. ASSUME NEW t \in Threads, StartTick(t) PROVE TypeOK'
      BY <3>0, <3>1 DEF StartTick, db
    <3>2. ASSUME NEW t \in Threads, Scan(t) PROVE TypeOK'
      <4>1. CASE pc[t] = "seed"
        <5>1. exists' \subseteq Jobs /\ row' \in [Jobs -> RowType]
          BY <3>2, <4>1, SeedRowsType DEF Scan
        <5> QED BY <3>0, <3>2, <4>1, <5>1 DEF Scan
      <4>2. CASE pc[t] # "seed"
        <5> DEFINE due == {j \in exists : row[j].enabled /\ row[j].nextRunAt <= now[t]}
        <5>1. /\ todo' = [todo EXCEPT ![t] = due]
              /\ seen' = [seen EXCEPT ![t] =
                            [j \in Jobs |-> IF j \in due THEN ClaimedRow(row[j]) ELSE NoRow]]
          BY <3>2, <4>2 DEF Scan
        <5>2. due \subseteq Jobs
          OBVIOUS
        <5>3. [j \in Jobs |-> IF j \in due THEN ClaimedRow(row[j]) ELSE NoRow]
                \in [Jobs -> ClaimedRowType]
          BY RowTypes
        <5> HIDE DEF due
        <5>4. /\ todo' \in [Threads -> SUBSET Jobs]
              /\ seen' \in [Threads -> [Jobs -> ClaimedRowType]]
          BY <5>1, <5>2, <5>3
        <5> QED BY <3>0, <3>2, <4>2, <5>4 DEF Scan, db
      <4> QED BY <4>1, <4>2
    <3>3. ASSUME NEW t \in Threads, TickClaim(t) PROVE TypeOK'
      <4>1. PICK j \in Jobs : Claim(t, j)
        BY <3>3 DEF TickClaim
      <4>2. row' \in [Jobs -> RowType]
        <5>1. now[t] + LEASE \in Time
          BY DEF Time
        <5>2. row[j] \in RowType
          OBVIOUS
        <5>3. [row[j] EXCEPT !.lockedUntil = now[t] + LEASE] \in RowType
          BY <5>1, <5>2, RowUpdates
        <5> QED BY <4>1, <5>3 DEF Claim
      <4> QED BY <3>0, <4>1, <4>2 DEF Claim
    <3>4. ASSUME NEW t \in Threads, TickSkip(t) PROVE TypeOK'
      BY <3>0, <3>4 DEF TickSkip, db
    <3>5. ASSUME NEW t \in Threads, EndTick(t) PROVE TypeOK'
      BY <2>0, <3>0, <3>5 DEF EndTick, Rest, db
    <3>6. ASSUME NEW t \in Threads, NEW j \in Jobs, StartRunNow(t, j) PROVE TypeOK'
      BY <3>0, <3>6 DEF StartRunNow, db
    <3>7. ASSUME NEW t \in Threads, RunNowRead(t) PROVE TypeOK'
      <4>1. CASE pc[t] = "ensure"
        <5>1. exists' \subseteq Jobs /\ row' \in [Jobs -> RowType]
          BY <3>7, <4>1, SeedRowsType DEF RunNowRead
        <5> QED BY <3>0, <3>7, <4>1, <5>1 DEF RunNowRead
      <4>2. CASE pc[t] = "read" /\ todo[t] \subseteq exists
        <5>1. [j \in Jobs |-> IF j \in todo[t] THEN ClaimedRow(row[j]) ELSE NoRow]
                \in [Jobs -> ClaimedRowType]
          BY RowTypes
        <5>2. seen' \in [Threads -> [Jobs -> ClaimedRowType]]
          BY <3>7, <4>2, <5>1 DEF RunNowRead
        <5> QED BY <3>0, <3>7, <4>2, <5>2 DEF RunNowRead, db
      <4>3. CASE pc[t] = "read" /\ ~(todo[t] \subseteq exists)
        BY <3>0, <3>7, <4>3, RestTypes DEF RunNowRead, db
      <4> QED BY <3>7, <4>1, <4>2, <4>3 DEF RunNowRead
    <3>8. ASSUME NEW t \in Threads, RunNowClaim(t) PROVE TypeOK'
      <4>1. PICK j \in Jobs : Claim(t, j)
        BY <3>8 DEF RunNowClaim
      <4>2. row' \in [Jobs -> RowType]
        <5>1. now[t] + LEASE \in Time
          BY DEF Time
        <5>2. row[j] \in RowType
          OBVIOUS
        <5>3. [row[j] EXCEPT !.lockedUntil = now[t] + LEASE] \in RowType
          BY <5>1, <5>2, RowUpdates
        <5> QED BY <4>1, <5>3 DEF Claim
      <4> QED BY <3>0, <4>1, <4>2 DEF Claim
    <3>9. ASSUME NEW t \in Threads, RunNowRefused(t) PROVE TypeOK'
      BY <2>0, <3>0, <3>9 DEF RunNowRefused, Rest, db
    <3>10. ASSUME NEW t \in Threads, NEW success \in BOOLEAN, Bookkeep(t, success)
           PROVE  TypeOK'
      <4>1. row' \in [Jobs -> RowType]
        <5>1. CASE job[t] \in exists
          <6>1. job[t] \in Jobs
            BY <5>1
          <6>2. seen[t][job[t]].interval \in Nat
            BY <6>1 DEF ClaimedRowType
          <6>3. /\ now[t] + seen[t][job[t]].interval \in Nat
                /\ now[t] \in Time /\ Null \in Time
                /\ row[job[t]].lastSuccessAt \in Time
            BY <6>1, <6>2 DEF RowType, Time
          <6> DEFINE r == [row[job[t]] EXCEPT
                             !.nextRunAt = now[t] + seen[t][job[t]].interval,
                             !.lockedUntil = Null,
                             !.lastRunAt = now[t],
                             !.lastSuccessAt = IF success THEN now[t]
                                               ELSE row[job[t]].lastSuccessAt]
          <6>4. r \in RowType
            BY <6>1, <6>3, RowUpdates
          <6>5. row' = [row EXCEPT ![job[t]] = r]
            BY <3>10, <5>1 DEF Bookkeep
          <6> QED BY <6>4, <6>5
        <5> QED BY <3>10, <5>1 DEF Bookkeep
      <4> QED BY <3>0, <3>10, <4>1, ResumeTypes DEF Bookkeep
    <3>11. ASSUME NEW t \in Threads, BookkeepingLost(t) PROVE TypeOK'
      BY <3>0, <3>11, ResumeTypes DEF BookkeepingLost, db
    <3>12. ASSUME NEW m \in Machines, Crash(m) PROVE TypeOK'
      BY <2>0, <3>0, <3>12 DEF Crash, db
    <3>13. ASSUME NEW m \in Machines, Boot(m) PROVE TypeOK'
      BY <3>0, <3>13 DEF Boot, db, threadVars
    <3>14. ASSUME NEW m \in Machines, SyncRegistry(m) PROVE TypeOK'
      <4>1. exists' \subseteq Jobs /\ row' \in [Jobs -> RowType]
        <5>1. CASE machine[m] = "syncing"
          BY <3>14, <5>1, SeedRowsType, JobRunnerAssumption DEF SyncRegistry
        <5>2. CASE machine[m] # "syncing"
          <6>1. \A k \in Jobs : row[k] \in RowType /\ Blank \in RowType
            BY RowTypes
          <6> QED BY <3>14, <5>2, <6>1 DEF SyncRegistry
        <5> QED BY <5>1, <5>2
      <4> QED BY <3>0, <3>14, <4>1 DEF SyncRegistry, threadVars
    <3>15. ASSUME NEW m \in Machines, SyncFails(m) PROVE TypeOK'
      BY <3>0, <3>15 DEF SyncFails, db, threadVars
    <3>16. ASSUME NEW j \in Jobs, NEW on \in BOOLEAN, NEW i \in Intervals, SetConfig(j, on, i)
           PROVE  TypeOK'
      <4>1. row' \in [Jobs -> RowType]
        <5>1. [row[j] EXCEPT !.enabled = on, !.interval = i] \in RowType
          BY RowUpdates
        <5> QED BY <3>16, <5>1 DEF SetConfig
      <4> QED BY <3>0, <3>16, <4>1 DEF SetConfig, threadVars
    <3>17. CASE Advance
      BY <3>0, <3>17 DEF Advance, db, threadVars
    <3> QED
      BY <2>2, <3>1, <3>2, <3>3, <3>4, <3>5, <3>6, <3>7, <3>8, <3>9, <3>10, <3>11,
         <3>12, <3>13, <3>14, <3>15, <3>16, <3>17 DEF Next, Act, Step
  <2> QED BY <2>1, <2>2
<1> QED BY <1>1, <1>2, PTL DEF Spec

\* A step that leaves every thread's job, and the rows of the running jobs, as
\* they were keeps the lease invariant: the history variable does the rest.
LEMMA LeaseInvFrame ==
    ASSUME TypeOK, TypeOK', LeaseInv, Lapse,
           \A t \in Threads : now'[t] <= clock',
           \A t \in Threads : job'[t] # NoJob => job'[t] = job[t] /\ pc'[t] = "run" /\ now'[t] = now[t],
           \A j \in Jobs \cap exists \cap exists' : row'[j].lockedUntil = row[j].lockedUntil
    PROVE  LeaseInv'
<1>1. ASSUME NEW j \in Jobs \ lapsed', NEW t \in Threads, job'[t] = j
      PROVE  /\ j \in Jobs \ lapsed /\ job[t] = j
             /\ j \in exists /\ j \in exists'
             /\ row'[j].lockedUntil = now'[t] + LEASE
             /\ clock' <= now'[t] + LEASE
  <2>1. job[t] = j /\ now'[t] = now[t] /\ j # NoJob
    BY <1>1, JobRunnerAssumption
  <2>2. ~(j \in lapsed) /\ ~(now'[t] + LEASE < clock') /\ ~(j \notin exists')
    BY <1>1 DEF Lapse
  <2>3. j \in exists /\ row[j].lockedUntil = now[t] + LEASE
    BY <2>1, <2>2 DEF LeaseInv
  <2> QED BY <2>1, <2>2, <2>3, JobRunnerAssumption DEF TypeOK
<1>2. ExclusiveUnlessLapsed'
  BY <1>1 DEF LeaseInv, ExclusiveUnlessLapsed
<1> QED BY <1>1, <1>2 DEF LeaseInv

\* A claim keeps it: the row of a job that has not lapsed is unleased only when
\* nobody runs the job.
LEMMA LeaseInvClaim ==
    ASSUME TypeOK, TypeOK', LeaseInv, Lapse,
           NEW t \in Threads, NEW j \in Jobs, pc[t] # "run",
           Unleased(t, j), Claim(t, j)
    PROVE  LeaseInv'
<1>1. job[t] = NoJob
  BY DEF LeaseInv
<1>2. ASSUME NEW k \in Jobs \ lapsed', NEW u \in Threads, job'[u] = k
      PROVE  /\ k \in Jobs \ lapsed
             /\ clock' <= now'[u] + LEASE /\ k \in exists'
             /\ k = j => u = t
             /\ k # j => u # t /\ job[u] = k
  <2>1. ~(k \in lapsed) /\ ~(now'[u] + LEASE < clock') /\ ~(k \notin exists')
    BY <1>2 DEF Lapse
  <2>2. CASE u = t
    BY <1>2, <2>1, <2>2, JobRunnerAssumption DEF Claim, TypeOK
  <2>3. CASE u # t
    <3>1. job[u] = k
      BY <1>2, <2>3 DEF Claim, TypeOK
    <3>2. row[k].lockedUntil = now[u] + LEASE /\ clock <= now[u] + LEASE /\ now[t] <= clock
      BY <2>1, <3>1 DEF LeaseInv
    <3>3. k # j
      BY <3>2, JobRunnerAssumption DEF Unleased, TypeOK, Null
    <3> QED BY <2>1, <2>3, <3>1, <3>3, JobRunnerAssumption DEF TypeOK
  <2> QED BY <2>2, <2>3
<1>3. ExclusiveUnlessLapsed'
  BY <1>2 DEF LeaseInv, ExclusiveUnlessLapsed
<1>4. \A u \in Threads : now'[u] <= clock' /\ (job'[u] # NoJob => pc'[u] = "run")
  BY DEF Claim, LeaseInv, TypeOK
<1>5. ASSUME NEW k \in Jobs \ lapsed', NEW u \in Threads, job'[u] = k
      PROVE  row'[k].lockedUntil = now'[u] + LEASE
  <2>1. CASE k = j
    BY <1>2, <1>5, <2>1 DEF Claim, TypeOK, RowType
  <2>2. CASE k # j
    <3>1. k \in Jobs \ lapsed /\ job[u] = k
      BY <1>2, <1>5, <2>2
    <3>2. row[k].lockedUntil = now[u] + LEASE
      BY <3>1 DEF LeaseInv
    <3> QED BY <2>2, <3>2 DEF Claim, TypeOK
  <2> QED BY <2>1, <2>2
<1> QED BY <1>2, <1>3, <1>4, <1>5 DEF LeaseInv

\* The end of a run keeps it: if the job has not lapsed, the lease cleared is
\* this thread's own.
LEMMA LeaseInvResume ==
    ASSUME TypeOK, TypeOK', LeaseInv, Lapse, NEW t \in Threads, Resume(t),
           pc[t] = "run", clock' = clock, exists' = exists,
           \A j \in Jobs : j # job[t] => row'[j] = row[j],
           row' = row \/ job[t] # NoJob
    PROVE  LeaseInv'
<1>1. \A u \in Threads : u # t => pc'[u] = pc[u] /\ now'[u] = now[u] /\ job'[u] = job[u]
  BY DEF Resume, Rest, TypeOK
<1>2. job'[t] = NoJob /\ now'[t] <= clock'
  BY DEF Resume, Rest, TypeOK, LeaseInv
<1>3. ASSUME NEW k \in Jobs \ lapsed', NEW u \in Threads, job'[u] = k
      PROVE  /\ k \in Jobs \ lapsed /\ u # t /\ job[u] = k /\ k # job[t]
             /\ clock' <= now'[u] + LEASE /\ k \in exists'
             /\ row'[k].lockedUntil = now'[u] + LEASE
  <2>1. ~(k \in lapsed) /\ ~(now'[u] + LEASE < clock') /\ ~(k \notin exists')
    BY <1>3 DEF Lapse
  <2>2. u # t /\ job[u] = k /\ now'[u] = now[u]
    BY <1>1, <1>2, <1>3, JobRunnerAssumption
  <2>3. k # job[t]
    BY <2>1, <2>2 DEF LeaseInv, ExclusiveUnlessLapsed
  <2>4. row[k].lockedUntil = now[u] + LEASE
    BY <2>1, <2>2 DEF LeaseInv
  <2> QED BY <2>1, <2>2, <2>3, <2>4, JobRunnerAssumption DEF TypeOK
<1>4. ExclusiveUnlessLapsed'
  BY <1>3 DEF LeaseInv, ExclusiveUnlessLapsed
<1>5. \A u \in Threads : now'[u] <= clock' /\ (job'[u] # NoJob => pc'[u] = "run")
  BY <1>1, <1>2 DEF LeaseInv
<1> QED BY <1>3, <1>4, <1>5 DEF LeaseInv

\* The inductive step of LeaseInv, action by action.
LEMMA LeaseInvStep == TypeOK /\ TypeOK' /\ LeaseInv /\ [Next]_vars => LeaseInv'
<1> SUFFICES ASSUME TypeOK, TypeOK', LeaseInv, [Next]_vars
             PROVE  LeaseInv'
  OBVIOUS
<1>0. \A t \in Threads : now[t] <= clock /\ (job[t] # NoJob => pc[t] = "run")
  BY DEF LeaseInv
<1>1. CASE UNCHANGED vars
  BY <1>1 DEF vars, LeaseInv, ExclusiveUnlessLapsed
<1>2. CASE Next
  <2>0. Lapse
    BY <1>2 DEF Next
  <2>1. ASSUME NEW t \in Threads, StartTick(t) PROVE LeaseInv'
    BY <1>0, <2>0, <2>1, LeaseInvFrame DEF StartTick, db, TypeOK
  <2>2. ASSUME NEW t \in Threads, Scan(t) PROVE LeaseInv'
    BY <1>0, <2>0, <2>2, LeaseInvFrame DEF Scan, SeedRows, db, TypeOK
  <2>3. ASSUME NEW t \in Threads, TickClaim(t) PROVE LeaseInv'
    BY <2>0, <2>3, LeaseInvClaim DEF TickClaim, Claimable, TypeOK
  <2>4. ASSUME NEW t \in Threads, TickSkip(t) PROVE LeaseInv'
    BY <1>0, <2>0, <2>4, LeaseInvFrame DEF TickSkip, db, TypeOK
  <2>5. ASSUME NEW t \in Threads, EndTick(t) PROVE LeaseInv'
    BY <1>0, <2>0, <2>5, LeaseInvFrame DEF EndTick, Rest, db, TypeOK
  <2>6. ASSUME NEW t \in Threads, NEW j \in Jobs, StartRunNow(t, j) PROVE LeaseInv'
    BY <1>0, <2>0, <2>6, LeaseInvFrame DEF StartRunNow, db, TypeOK
  <2>7. ASSUME NEW t \in Threads, RunNowRead(t) PROVE LeaseInv'
    BY <1>0, <2>0, <2>7, LeaseInvFrame DEF RunNowRead, SeedRows, Rest, db, TypeOK
  <2>8. ASSUME NEW t \in Threads, RunNowClaim(t) PROVE LeaseInv'
    BY <2>0, <2>8, LeaseInvClaim DEF RunNowClaim, TypeOK
  <2>9. ASSUME NEW t \in Threads, RunNowRefused(t) PROVE LeaseInv'
    BY <1>0, <2>0, <2>9, LeaseInvFrame DEF RunNowRefused, Rest, db, TypeOK
  <2>10. ASSUME NEW t \in Threads, NEW success \in BOOLEAN, Bookkeep(t, success)
         PROVE  LeaseInv'
    <3>1. \A j \in Jobs : j # job[t] => row'[j] = row[j]
      BY <2>10 DEF Bookkeep, TypeOK
    <3>2. row' = row \/ job[t] # NoJob
      BY <2>10, JobRunnerAssumption DEF Bookkeep, TypeOK
    <3> QED BY <2>0, <2>10, <3>1, <3>2, LeaseInvResume DEF Bookkeep
  <2>11. ASSUME NEW t \in Threads, BookkeepingLost(t) PROVE LeaseInv'
    BY <2>0, <2>11, LeaseInvResume DEF BookkeepingLost, db
  <2>12. ASSUME NEW m \in Machines, Crash(m) PROVE LeaseInv'
    BY <1>0, <2>0, <2>12, LeaseInvFrame DEF Crash, db, TypeOK
  <2>13. ASSUME NEW m \in Machines, Boot(m) PROVE LeaseInv'
    BY <1>0, <2>0, <2>13, LeaseInvFrame DEF Boot, db, threadVars, TypeOK
  <2>14. ASSUME NEW m \in Machines, SyncRegistry(m) PROVE LeaseInv'
    BY <1>0, <2>0, <2>14, LeaseInvFrame DEF SyncRegistry, SeedRows, threadVars, TypeOK
  <2>15. ASSUME NEW m \in Machines, SyncFails(m) PROVE LeaseInv'
    BY <1>0, <2>0, <2>15, LeaseInvFrame DEF SyncFails, db, threadVars, TypeOK
  <2>16. ASSUME NEW j \in Jobs, NEW on \in BOOLEAN, NEW i \in Intervals, SetConfig(j, on, i)
         PROVE  LeaseInv'
    BY <1>0, <2>0, <2>16, LeaseInvFrame DEF SetConfig, threadVars, TypeOK, RowType
  <2>17. CASE Advance
    BY <1>0, <2>0, <2>17, LeaseInvFrame DEF Advance, db, threadVars, TypeOK
  <2> QED
    BY <1>2, <2>1, <2>2, <2>3, <2>4, <2>5, <2>6, <2>7, <2>8, <2>9, <2>10, <2>11,
       <2>12, <2>13, <2>14, <2>15, <2>16, <2>17 DEF Next, Act, Step
<1> QED BY <1>1, <1>2

LEMMA LeaseInvariant == Spec => []LeaseInv
<1>1. Init => LeaseInv
  BY JobRunnerAssumption DEF Init, LeaseInv, ExclusiveUnlessLapsed
<1>2. QED
  BY <1>1, LeaseInvStep, TypeCorrect, PTL DEF Spec

\* Two executions of one job never overlap unless the job's lease lapsed while
\* it was being run.
THEOREM Exclusion == Spec => []ExclusiveUnlessLapsed
<1>1. LeaseInv => ExclusiveUnlessLapsed
  BY DEF LeaseInv
<1>2. QED
  BY <1>1, LeaseInvariant, PTL

\* What SlotServedOnce rests on: ticks and manual runs keep to their own code.
SlotInv ==
    /\ DueAfterLastRun
    /\ \A t \in Tickers : pc[t] \notin {"ensure", "read", "claim"}

LEMMA SlotInvariant == Spec => []SlotInv
<1>1. Init => SlotInv
  BY JobRunnerAssumption DEF Init, SlotInv, DueAfterLastRun, Blank, Null
<1>2. TypeOK /\ TypeOK' /\ SlotInv /\ [Next]_vars => SlotInv'
  <2> SUFFICES ASSUME TypeOK, TypeOK', SlotInv, [Next]_vars
               PROVE  SlotInv'
    OBVIOUS
  <2>0. \A on \in BOOLEAN : Seed(on).lastRunAt < Seed(on).nextRunAt
    BY DEF Seed, Blank, Null, TypeOK
  <2>1. DueAfterLastRun'
    <3> SUFFICES ASSUME NEW k \in Jobs PROVE row'[k].lastRunAt < row'[k].nextRunAt
      BY DEF DueAfterLastRun
    <3>0. row[k].lastRunAt < row[k].nextRunAt /\ row[k] \in RowType
      BY DEF SlotInv, DueAfterLastRun, TypeOK
    <3>1. ASSUME NEW J, NEW On, SeedRows(J, On)
          PROVE  row'[k].lastRunAt < row'[k].nextRunAt
      <4>1. (k \in On) \in BOOLEAN
        OBVIOUS
      <4> QED BY <2>0, <3>0, <3>1, <4>1 DEF SeedRows
    <3>2. ASSUME NEW t \in Threads, NEW j \in Jobs, Claim(t, j)
          PROVE  row'[k].lastRunAt < row'[k].nextRunAt
      BY <3>0, <3>2 DEF Claim, TypeOK, RowType
    <3>3. ASSUME NEW t \in Threads, NEW success \in BOOLEAN, Bookkeep(t, success)
          PROVE  row'[k].lastRunAt < row'[k].nextRunAt
      <4>1. CASE job[t] \in exists /\ k = job[t]
        <5>1. seen[t][k].interval \in Nat \ {0} /\ now[t] \in Nat
          BY DEF TypeOK, ClaimedRowType
        <5>2. row'[k].lastRunAt = now[t] /\ row'[k].nextRunAt = now[t] + seen[t][k].interval
          BY <3>3, <4>1 DEF Bookkeep, TypeOK, RowType
        <5> QED BY <5>1, <5>2
      <4>2. CASE ~(job[t] \in exists /\ k = job[t])
        BY <3>0, <3>3, <4>2 DEF Bookkeep, TypeOK
      <4> QED BY <4>1, <4>2
    <3>4. ASSUME NEW m \in Machines, SyncRegistry(m)
          PROVE  row'[k].lastRunAt < row'[k].nextRunAt
      <4>1. Blank.lastRunAt < Blank.nextRunAt
        BY DEF Blank, Null
      <4> QED BY <3>0, <3>1, <3>4, <4>1 DEF SyncRegistry
    <3>5. ASSUME NEW j \in Jobs, NEW on \in BOOLEAN, NEW i \in Intervals, SetConfig(j, on, i)
          PROVE  row'[k].lastRunAt < row'[k].nextRunAt
      BY <3>0, <3>5 DEF SetConfig, TypeOK, RowType
    <3>6. row' = row => row'[k].lastRunAt < row'[k].nextRunAt
      BY <3>0
    <3>7. ASSUME NEW t \in Threads, Step(t) PROVE row'[k].lastRunAt < row'[k].nextRunAt
      <4>1. ASSUME Scan(t) \/ RunNowRead(t) PROVE row'[k].lastRunAt < row'[k].nextRunAt
        BY <3>1, <3>6, <4>1 DEF Scan, RunNowRead, db
      <4>2. ASSUME TickClaim(t) \/ RunNowClaim(t)
            PROVE  row'[k].lastRunAt < row'[k].nextRunAt
        BY <3>2, <4>2 DEF TickClaim, RunNowClaim, TypeOK
      <4>3. ASSUME TickSkip(t) \/ EndTick(t) \/ RunNowRefused(t) \/ BookkeepingLost(t)
            PROVE  row'[k].lastRunAt < row'[k].nextRunAt
        BY <3>6, <4>3 DEF TickSkip, EndTick, RunNowRefused, BookkeepingLost, db
      <4> QED BY <3>3, <3>7, <4>1, <4>2, <4>3 DEF Step
    <3>8. CASE UNCHANGED vars
      BY <3>6, <3>8 DEF vars
    <3>9. ASSUME NEW t \in Threads, StartTick(t) \/ (\E j \in Jobs : StartRunNow(t, j))
          PROVE  row'[k].lastRunAt < row'[k].nextRunAt
      BY <3>6, <3>9 DEF StartTick, StartRunNow, db
    <3>10. ASSUME NEW m \in Machines, Crash(m) \/ Boot(m) \/ SyncFails(m)
           PROVE  row'[k].lastRunAt < row'[k].nextRunAt
      BY <3>6, <3>10 DEF Crash, Boot, SyncFails, db
    <3>11. CASE Advance
      BY <3>6, <3>11 DEF Advance, db
    <3> QED
      BY <3>4, <3>5, <3>7, <3>8, <3>9, <3>10, <3>11 DEF Next, Act
  <2>2. \A t \in Tickers : pc'[t] \notin {"ensure", "read", "claim"}
    <3> SUFFICES ASSUME NEW t \in Tickers PROVE pc'[t] \notin {"ensure", "read", "claim"}
      OBVIOUS
    <3>0. pc[t] \notin {"ensure", "read", "claim"} /\ t \in Threads /\ t \notin Runners
      BY JobRunnerAssumption DEF SlotInv
    <3>1. ASSUME NEW u \in Threads, Resume(u) PROVE pc'[t] \notin {"ensure", "read", "claim"}
      BY <3>0, <3>1 DEF Resume, Rest, TypeOK
    <3>2. ASSUME NEW u \in Threads, NEW j \in Jobs, StartRunNow(u, j)
          PROVE  pc'[t] \notin {"ensure", "read", "claim"}
      BY <3>0, <3>2 DEF StartRunNow, TypeOK
    <3>3. ASSUME NEW u \in Threads, RunNowRead(u) PROVE pc'[t] \notin {"ensure", "read", "claim"}
      BY <3>0, <3>3 DEF RunNowRead, Rest, TypeOK
    <3>4. ASSUME NEW u \in Threads,
                 \/ StartTick(u) \/ Scan(u) \/ TickClaim(u) \/ TickSkip(u) \/ EndTick(u)
                 \/ RunNowClaim(u) \/ RunNowRefused(u)
          PROVE  pc'[t] \notin {"ensure", "read", "claim"}
      BY <3>0, <3>4 DEF StartTick, Scan, TickClaim, TickSkip, EndTick, RunNowClaim,
                        RunNowRefused, Claim, Rest, TypeOK
    <3>5. ASSUME NEW m \in Machines, Crash(m) PROVE pc'[t] \notin {"ensure", "read", "claim"}
      BY <3>0, <3>5 DEF Crash, TypeOK
    <3>6. pc' = pc => pc'[t] \notin {"ensure", "read", "claim"}
      BY <3>0
    <3> QED
      BY <3>1, <3>2, <3>3, <3>4, <3>5, <3>6
      DEF Next, Act, Step, vars, threadVars, Bookkeep, BookkeepingLost, Boot,
          SyncRegistry, SyncFails, SetConfig, Advance
  <2> QED BY <2>1, <2>2 DEF SlotInv
<1> QED BY <1>1, <1>2, TypeCorrect, PTL DEF Spec

\* A tick never starts a job for a slot already served.
THEOREM OneRunPerSlot == Spec => SlotServedOnce
<1>1. TypeOK /\ SlotInv /\ [Next]_vars =>
        [\A t \in Tickers, j \in Jobs : TickStarts(t, j) => row[j].lastRunAt < now[t]]_vars
  <2> SUFFICES ASSUME TypeOK, SlotInv, Next,
                      NEW t \in Tickers, NEW j \in Jobs, TickStarts(t, j)
               PROVE  row[j].lastRunAt < now[t]
    OBVIOUS
  <2>0. t \in Threads /\ j # NoJob /\ job'[t] = j /\ job[t] # j
    BY JobRunnerAssumption DEF TickStarts
  <2>1. ASSUME NEW u \in Threads, TickClaim(u) PROVE row[j].lastRunAt < now[t]
    <3>1. PICK k \in Jobs : Claimable(u, k) /\ Claim(u, k)
      BY <2>1 DEF TickClaim, TypeOK
    <3>2. u = t /\ k = j
      BY <2>0, <3>1 DEF Claim, TypeOK
    <3> QED BY <3>1, <3>2 DEF Claimable, SlotInv, DueAfterLastRun, TypeOK, RowType, Time, Null
  <2>2. ASSUME NEW u \in Threads, RunNowClaim(u) PROVE FALSE
    BY <2>0, <2>2 DEF RunNowClaim, Claim, SlotInv, TypeOK
  <2>3. ASSUME NEW u \in Threads, Resume(u) PROVE FALSE
    BY <2>0, <2>3 DEF Resume, TypeOK
  <2>4. ASSUME NEW m \in Machines, Crash(m) PROVE FALSE
    BY <2>0, <2>4 DEF Crash
  <2> QED
    BY <2>0, <2>1, <2>2, <2>3, <2>4
    DEF Next, Act, Step, threadVars, StartTick, Scan, TickSkip, EndTick, StartRunNow,
        RunNowRead, RunNowRefused, Bookkeep, BookkeepingLost, Boot, SyncRegistry,
        SyncFails, SetConfig, Advance
<1> QED BY <1>1, TypeCorrect, SlotInvariant, PTL DEF Spec, SlotServedOnce

-----------------------------------------------------------------------------
\* The refinement.  Somebody runs every lapsed job.
LEMMA LapsedHeld == Spec => [](\A j \in lapsed : j \in Jobs /\ Holders(j) # {})
<1>1. Init => \A j \in lapsed : j \in Jobs /\ Holders(j) # {}
  BY DEF Init
<1>2. (\A j \in lapsed : j \in Jobs /\ Holders(j) # {}) /\ [Next]_vars
        => (\A j \in lapsed : j \in Jobs /\ Holders(j) # {})'
  <2>1. Next => (\A j \in lapsed : j \in Jobs /\ Holders(j) # {})'
    BY DEF Next, Lapse
  <2>2. (\A j \in lapsed : j \in Jobs /\ Holders(j) # {}) /\ UNCHANGED vars
          => (\A j \in lapsed : j \in Jobs /\ Holders(j) # {})'
    BY DEF vars
  <2> QED BY <2>1, <2>2
<1> QED BY <1>1, <1>2, PTL DEF Spec

\* A step in which no run starts or ends only lets leases lapse.
LEMMA ExpireStep ==
    ASSUME \A j \in lapsed : j \in Jobs /\ Holders(j) # {}, Lapse, job' = job
    PROVE  AbstractLease!Next
<1>1. lapsed \subseteq lapsed' /\ lapsed' \subseteq Jobs
  BY DEF Lapse
<1>2. \A j \in lapsed' : Holders(j) # {}
  BY DEF Lapse
<1>3. AbstractLease!Expire(lapsed' \ lapsed)
  BY <1>1, <1>2 DEF AbstractLease!Expire
<1> QED BY <1>1, <1>3 DEF AbstractLease!Next

\* A claim acquires.
LEMMA AcquireStep ==
    ASSUME TypeOK, LeaseInv, \A k \in lapsed : k \in Jobs /\ Holders(k) # {}, Lapse,
           NEW t \in Threads, NEW j \in Jobs, pc[t] # "run",
           Unleased(t, j), Claim(t, j)
    PROVE  AbstractLease!Next
<1>1. job[t] = NoJob /\ j # NoJob
  BY JobRunnerAssumption DEF LeaseInv
<1>2. job' = [job EXCEPT ![t] = j] /\ now' = now /\ clock' = clock /\ exists' = exists
  BY DEF Claim
<1>3. \A k \in Jobs : Holders(k)' = IF k = j THEN Holders(k) \cup {t} ELSE Holders(k)
  BY <1>1, <1>2, JobRunnerAssumption DEF TypeOK
<1>4. Holders(j) = {} \/ j \in lapsed
  <2> SUFFICES ASSUME NEW u \in Holders(j), j \notin lapsed PROVE FALSE
    OBVIOUS
  <2>1. row[j].lockedUntil = now[u] + LEASE /\ clock <= now[u] + LEASE /\ now[t] <= clock
    BY DEF LeaseInv
  <2> QED BY <2>1, JobRunnerAssumption DEF Unleased, TypeOK, Null
<1>5. \A k \in Jobs \ {j} : k \in lapsed' <=> k \in lapsed
  <2> SUFFICES ASSUME NEW k \in Jobs \ {j} PROVE k \in lapsed' <=> k \in lapsed
    OBVIOUS
  <2>1. ASSUME k \in lapsed PROVE k \in lapsed'
    BY <1>3, <2>1 DEF Lapse
  <2>2. ASSUME k \in lapsed', k \notin lapsed PROVE FALSE
    <3>1. PICK u \in Threads : job'[u] = k /\ (now'[u] + LEASE < clock' \/ k \notin exists')
      BY <2>2 DEF Lapse
    <3>2. u \in Holders(k)
      BY <1>3, <3>1
    <3>3. k \in exists /\ clock <= now[u] + LEASE
      BY <2>2, <3>2 DEF LeaseInv
    <3> QED BY <1>2, <3>1, <3>3, JobRunnerAssumption DEF TypeOK
  <2> QED BY <2>1, <2>2
<1>6. j \in lapsed => j \in lapsed'
  BY <1>3 DEF Lapse
<1>7. lapsed' \subseteq Jobs /\ lapsed \subseteq Jobs
  BY DEF Lapse
<1>8. lapsed' \in {lapsed, lapsed \cup {j}}
  BY <1>5, <1>6, <1>7
<1>9. AbstractLease!Acquire(t, j)
  <2> DEFINE H == [k \in Jobs |-> Holders(k)]
  <2>1. t \notin H[j] /\ H[j] = Holders(j)
    BY <1>1
  <2>2. H' = [H EXCEPT ![j] = H[j] \cup {t}]
    <3>1. H' = [k \in Jobs |-> Holders(k)']
      OBVIOUS
    <3>2. \A k \in Jobs : H[k] = Holders(k)
      OBVIOUS
    <3> HIDE DEF Holders, Runs
    <3>3. [H EXCEPT ![j] = H[j] \cup {t}]
            = [k \in Jobs |-> IF k = j THEN Holders(j) \cup {t} ELSE Holders(k)]
      BY <3>2
    <3>4. \A k \in Jobs :
             Holders(k)' = IF k = j THEN Holders(j) \cup {t} ELSE Holders(k)
      BY <1>3
    <3> QED BY <3>1, <3>3, <3>4
  <2> QED BY <1>4, <1>8, <2>1, <2>2 DEF AbstractLease!Acquire
<1> QED BY <1>9 DEF AbstractLease!Next

\* The end of some runs releases.
LEMMA ReleaseStep ==
    ASSUME TypeOK, LeaseInv, \A k \in lapsed : k \in Jobs /\ Holders(k) # {}, Lapse,
           NEW C \in SUBSET Threads,
           \A u \in C : job'[u] = NoJob,
           \A u \in Threads \ C : job'[u] = job[u] /\ now'[u] = now[u],
           clock' = clock, exists' = exists
    PROVE  AbstractLease!Next
<1>1. \A k \in Jobs : Holders(k)' = Holders(k) \ C
  BY JobRunnerAssumption
<1>2. \A k \in Jobs : k \in lapsed' <=> k \in lapsed /\ Holders(k) \ C # {}
  <2> SUFFICES ASSUME NEW k \in Jobs PROVE k \in lapsed' <=> k \in lapsed /\ Holders(k) \ C # {}
    OBVIOUS
  <2>1. ASSUME k \in lapsed, Holders(k) \ C # {} PROVE k \in lapsed'
    BY <1>1, <2>1 DEF Lapse
  <2>2. ASSUME k \in lapsed' PROVE k \in lapsed /\ Holders(k) \ C # {}
    <3>1. PICK u \in Threads : /\ job'[u] = k
                               /\ k \in lapsed \/ now'[u] + LEASE < clock' \/ k \notin exists'
      BY <2>2 DEF Lapse
    <3>2. u \in Holders(k) \ C
      BY <1>1, <3>1
    <3>3. k \notin lapsed => k \in exists /\ clock <= now[u] + LEASE
      BY <3>2 DEF LeaseInv
    <3> QED BY <3>1, <3>2, <3>3, JobRunnerAssumption DEF TypeOK
  <2> QED BY <2>1, <2>2
<1>3. lapsed' \subseteq Jobs /\ lapsed \subseteq Jobs
  BY DEF Lapse
<1>4. AbstractLease!Release(C)
  BY <1>1, <1>2, <1>3 DEF AbstractLease!Release
<1> QED BY <1>4 DEF AbstractLease!Next

\* The runner implements the abstract lease.
THEOREM Refinement == Spec => ImplementsLease
<1>1. Init => AbstractLease!Init
  BY JobRunnerAssumption DEF Init, AbstractLease!Init
<1>2. /\ TypeOK /\ LeaseInv /\ (\A j \in lapsed : j \in Jobs /\ Holders(j) # {})
      /\ [Next]_vars
      => [AbstractLease!Next]_AbstractLease!leaseVars
  <2> SUFFICES ASSUME TypeOK, LeaseInv, \A j \in lapsed : j \in Jobs /\ Holders(j) # {},
                      [Next]_vars
               PROVE  [AbstractLease!Next]_AbstractLease!leaseVars
    OBVIOUS
  <2>1. CASE UNCHANGED vars
    BY <2>1 DEF vars, AbstractLease!leaseVars
  <2>2. CASE Next
    <3>0. Lapse
      BY <2>2 DEF Next
    <3>1. CASE job' = job
      BY <3>0, <3>1, ExpireStep
    <3>2. ASSUME NEW t \in Threads, TickClaim(t) PROVE AbstractLease!Next
      BY <3>0, <3>2, AcquireStep DEF TickClaim, Claimable, TypeOK
    <3>3. ASSUME NEW t \in Threads, RunNowClaim(t) PROVE AbstractLease!Next
      BY <3>0, <3>3, AcquireStep DEF RunNowClaim, TypeOK
    <3>4. ASSUME NEW t \in Threads, Resume(t), clock' = clock, exists' = exists
          PROVE  AbstractLease!Next
      <4>1. \A u \in Threads \ {t} : job'[u] = job[u] /\ now'[u] = now[u]
        BY <3>4 DEF Resume, Rest, TypeOK
      <4>2. job'[t] = NoJob
        BY <3>4 DEF Resume, TypeOK
      <4>3. {t} \in SUBSET Threads /\ \A u \in {t} : job'[u] = NoJob
        BY <4>2
      <4> DEFINE C == {t}
      <4>4. /\ C \in SUBSET Threads
            /\ \A u \in C : job'[u] = NoJob
            /\ \A u \in Threads \ C : job'[u] = job[u] /\ now'[u] = now[u]
        BY <4>1, <4>3
      <4> HIDE DEF C
      <4> QED BY <3>0, <3>4, <4>4, ReleaseStep
    <3>5. ASSUME NEW m \in Machines, Crash(m) PROVE AbstractLease!Next
      <4> DEFINE C == {t \in Threads : MachineOf[t] = m}
      <4>1. /\ \A u \in C : job'[u] = NoJob
            /\ \A u \in Threads \ C : job'[u] = job[u] /\ now'[u] = now[u]
            /\ clock' = clock /\ exists' = exists
        BY <3>5 DEF Crash, db
      <4> HIDE DEF C
      <4>2. C \in SUBSET Threads
        BY DEF C
      <4> QED BY <3>0, <4>1, <4>2, ReleaseStep
    <3> QED
      BY <2>2, <3>1, <3>2, <3>3, <3>4, <3>5
      DEF Next, Act, Step, threadVars, StartTick, Scan, TickSkip, EndTick, StartRunNow,
          RunNowRead, RunNowRefused, Bookkeep, BookkeepingLost, db, Boot, SyncRegistry,
          SyncFails, SetConfig, Advance
  <2> QED BY <2>1, <2>2
<1>3. QED
  BY <1>1, <1>2, TypeCorrect, LeaseInvariant, LapsedHeld, PTL
  DEF Spec, ImplementsLease, AbstractLease!Spec
=============================================================================
