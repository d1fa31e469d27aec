----------------------------- MODULE JobRunner -----------------------------
(***************************************************************************)
(* The background job runner of dali-api (app/jobs/runner.server.ts).      *)
(*                                                                         *)
(* Every machine starts a tick each minute without waiting for the         *)
(* previous one (setInterval).  A tick captures `now` once, seeds missing  *)
(* ScheduledJob rows, reads the due ones, and for each of them tries to    *)
(* claim the row with a conditional UPDATE that sets lockedUntil to        *)
(* now + LEASE; a claimed job's handler runs and its bookkeeping is        *)
(* written back with an UNCONDITIONAL update that also clears lockedUntil. *)
(* "Run now" does the same for one job, ignoring enabled and nextRunAt.    *)
(*                                                                         *)
(* Each await of a tick or a run is a step of its own, so everything       *)
(* between two of them can be stale when it is used: `now`, the due list,  *)
(* and the row whose interval and lastSuccessAt the run goes by.           *)
(***************************************************************************)
EXTENDS Integers, FiniteSets

CONSTANTS Machines,        \* the always-on machines
          Tickers,         \* in-flight executions of tick()
          Runners,         \* in-flight executions of runJob(name, force)
          MachineOf,       \* the machine each of those executes on
          Jobs,            \* every job name any deployed version knows
          Registry,        \* Registry[m]: the JOBS of the code m runs
          SeedEnabled,     \* jobs not declared enabledByDefault: false
          DefaultInterval, \* interval a row is seeded with, in minutes
          Intervals,       \* intervals an operator may set
          LEASE,           \* LEASE_MS, in minutes
          MaxTime,         \* bound: the last minute explored
          MaxCrashes,      \* bound: machine deaths explored
          NoJob            \* what an idle thread runs

Threads == Tickers \cup Runners
Null == -1                 \* a NULL timestamp

ASSUME JobRunnerAssumption ==
    /\ Tickers \cap Runners = {}
    /\ MachineOf \in [Threads -> Machines]
    /\ Registry \in [Machines -> SUBSET Jobs]
    /\ SeedEnabled \subseteq Jobs
    /\ DefaultInterval \in Nat \ {0}
    /\ Intervals \subseteq Nat \ {0}
    /\ NoJob \notin Jobs
    /\ LEASE \in Nat \ {0}
    /\ MaxTime \in Nat
    /\ MaxCrashes \in Nat

VARIABLES clock,      \* the time all machines and the database agree on
          machine,    \* "down", "syncing", "pruning" (what its registry sync does next) or "up"
          crashes,    \* machine deaths so far (bound)
          exists,     \* jobs with a ScheduledJob row
          row,        \* row[j]: that row (Blank when there is none)
          pc,         \* where each thread is
          now,        \* the time it captured when it started
          todo,       \* tick: due rows not yet tried; run now: the job named
          seen,       \* the rows as the thread read them
          job,        \* the job it runs
          lapsed      \* history: see Lease

db == <<exists, row>>
threadVars == <<pc, now, todo, seen, job>>
vars == <<clock, machine, crashes, exists, row, pc, now, todo, seen, job, lapsed>>

Blank == [enabled |-> FALSE, interval |-> DefaultInterval, nextRunAt |-> 0,
          lockedUntil |-> Null, lastRunAt |-> Null, lastSuccessAt |-> Null]

\* Mutant: a new row is not given a time to run at.
SeedUnscheduled(enabled) == [Blank EXCEPT !.enabled = enabled, !.nextRunAt = Null]

\* A row created by createMany: nextRunAt defaults to the database's now().
Seed(enabled) == [Blank EXCEPT !.enabled = enabled, !.nextRunAt = clock]

\* createMany over a set of jobs with skipDuplicates.
SeedRows(J, On) ==
    /\ exists' = exists \cup J
    /\ row' = [j \in Jobs |-> IF j \in J \ exists THEN Seed(j \in On) ELSE row[j]]

Runs(t, j) == job[t] = j
Holders(j) == {t \in Threads : Runs(t, j)}
Alive(t) == machine[MachineOf[t]] # "down"

\* The part of a row a run goes by (ClaimedRow); settings are not told apart.
NoRow == [interval |-> DefaultInterval, lastSuccessAt |-> Null]
ClaimedRow(r) == [interval |-> r.interval, lastSuccessAt |-> r.lastSuccessAt]
NoSnapshot == [j \in Jobs |-> NoRow]

\* A thread with nothing to do carries nothing over.
Rest(t) ==
    /\ pc' = [pc EXCEPT ![t] = "idle"]
    /\ now' = [now EXCEPT ![t] = 0]
    /\ todo' = [todo EXCEPT ![t] = {}]
    /\ seen' = [seen EXCEPT ![t] = NoSnapshot]

\* After its run a tick goes on with its list; a manual run is over.
Resume(t) ==
    /\ IF t \in Tickers
       THEN /\ pc' = [pc EXCEPT ![t] = "loop"]
            /\ UNCHANGED <<now, todo, seen>>
       ELSE Rest(t)
    /\ job' = [job EXCEPT ![t] = NoJob]

------------------------------------------------------------------------------
Init ==
    /\ clock = 0
    /\ machine = [m \in Machines |-> "syncing"]
    /\ crashes = 0
    /\ exists = {}
    /\ row = [j \in Jobs |-> Blank]
    /\ pc = [t \in Threads |-> "idle"]
    /\ now = [t \in Threads |-> 0]
    /\ todo = [t \in Threads |-> {}]
    /\ seen = [t \in Threads |-> NoSnapshot]
    /\ job = [t \in Threads |-> NoJob]
    /\ lapsed = {}

\* tick(now = new Date()): the time is captured before the first await.
StartTick(t) ==
    /\ t \in Tickers /\ Alive(t) /\ pc[t] = "idle"
    /\ pc' = [pc EXCEPT ![t] = "seed"]
    /\ now' = [now EXCEPT ![t] = clock]
    /\ UNCHANGED <<clock, machine, crashes, db, todo, seen, job>>

\* Seed the missing rows, then read the enabled rows whose nextRunAt is past.
\* A row seeded here is due only if the clock had not moved since `now`.
Scan(t) ==
    /\ \/ /\ pc[t] = "seed"
          /\ SeedRows(Registry[MachineOf[t]], SeedEnabled)
          /\ pc' = [pc EXCEPT ![t] = "scan"]
          /\ UNCHANGED <<todo, seen>>
       \/ /\ pc[t] = "scan"
          /\ LET due == {j \in exists : row[j].enabled /\ row[j].nextRunAt <= now[t]}
             IN /\ todo' = [todo EXCEPT ![t] = due]
                /\ seen' = [seen EXCEPT ![t] = [j \in Jobs |-> IF j \in due THEN ClaimedRow(row[j])
                                                              ELSE NoRow]]
          /\ pc' = [pc EXCEPT ![t] = "loop"]
          /\ UNCHANGED db
    /\ UNCHANGED <<clock, machine, crashes, now, job>>

\* Mutants: the lease is not looked at; it ends a moment early; it never ends.
UnleasedAlways(t, j) == j \in exists
UnleasedEarly(t, j) ==
    /\ j \in exists
    /\ row[j].lockedUntil = Null \/ row[j].lockedUntil <= now[t]
UnleasedNever(t, j) == j \in exists /\ row[j].lockedUntil = Null

\* The lease half of both claims' WHERE clause.
Unleased(t, j) ==
    /\ j \in exists
    /\ row[j].lockedUntil = Null \/ row[j].lockedUntil < now[t]

\* Mutants: the claim trusts the list read before it, or only the lease.
ClaimableAsRead(t, j) == j \in exists /\ row[j].enabled /\ row[j].nextRunAt <= now[t]
ClaimableLeaseOnly(t, j) == Unleased(t, j) /\ row[j].enabled

\* The tick's WHERE clause: the row must still be enabled and due.
Claimable(t, j) ==
    /\ Unleased(t, j)
    /\ row[j].enabled
    /\ row[j].nextRunAt <= now[t]

\* The UPDATE matched: the lease runs from the captured `now`.
Claim(t, j) ==
    /\ row' = [row EXCEPT ![j].lockedUntil = now[t] + LEASE]
    /\ pc' = [pc EXCEPT ![t] = "run"]
    /\ job' = [job EXCEPT ![t] = j]
    /\ todo' = [todo EXCEPT ![t] = @ \ {j}]
    /\ UNCHANGED <<clock, machine, crashes, exists, now, seen>>

TickClaim(t) ==
    /\ pc[t] = "loop"
    /\ \E j \in todo[t] \cap Registry[MachineOf[t]] : Claimable(t, j) /\ Claim(t, j)

\* `continue`: the job is unknown to this code, or the UPDATE matched no row.
TickSkip(t) ==
    /\ pc[t] = "loop"
    /\ \E j \in todo[t] :
         /\ ~(j \in Registry[MachineOf[t]] /\ Claimable(t, j))
         /\ todo' = [todo EXCEPT ![t] = @ \ {j}]
    /\ UNCHANGED <<clock, machine, crashes, db, pc, now, seen, job>>

EndTick(t) ==
    /\ pc[t] = "loop" /\ todo[t] = {}
    /\ Rest(t)
    /\ UNCHANGED <<clock, machine, crashes, db, job>>

\* runJob(name, {force: true}), the only form any caller uses.
StartRunNow(t, j) ==
    /\ t \in Runners /\ Alive(t) /\ pc[t] = "idle"
    /\ j \in Registry[MachineOf[t]]
    /\ pc' = [pc EXCEPT ![t] = "ensure"]
    /\ now' = [now EXCEPT ![t] = clock]
    /\ todo' = [todo EXCEPT ![t] = {j}]
    /\ UNCHANGED <<clock, machine, crashes, db, seen, job>>

\* "Ensure the row exists (fresh DB) before claiming", then findUnique; a row
\* pruned in between is missing.  This createMany, unlike the tick's, does not
\* pass enabledByDefault on.
RunNowRead(t) ==
    /\ \/ /\ pc[t] = "ensure"
          /\ SeedRows(todo[t], Jobs)
          /\ pc' = [pc EXCEPT ![t] = "read"]
          /\ UNCHANGED <<now, todo, seen>>
       \/ /\ pc[t] = "read" /\ todo[t] \subseteq exists
          /\ seen' = [seen EXCEPT ![t] = [j \in Jobs |-> IF j \in todo[t] THEN ClaimedRow(row[j])
                                                        ELSE NoRow]]
          /\ pc' = [pc EXCEPT ![t] = "claim"]
          /\ UNCHANGED <<db, now, todo>>
       \/ /\ pc[t] = "read" /\ ~(todo[t] \subseteq exists)
          /\ Rest(t)
          /\ UNCHANGED db
    /\ UNCHANGED <<clock, machine, crashes, job>>

RunNowClaim(t) ==
    /\ pc[t] = "claim"
    /\ \E j \in todo[t] : Unleased(t, j) /\ Claim(t, j)

\* "Job is currently running or not due": the route answers 409.
RunNowRefused(t) ==
    /\ pc[t] = "claim"
    /\ \A j \in todo[t] : ~Unleased(t, j)
    /\ Rest(t)
    /\ UNCHANGED <<clock, machine, crashes, db, job>>

\* executeClaimed's last write.  The handler returned: lastSuccessAt moves to
\* this run's `now`.  It threw (or the success write did): it stays.  Both
\* advance nextRunAt by the interval READ with the row and clear the lease,
\* whoever holds it.  A row pruned meanwhile makes the update throw.
Bookkeep(t, success) ==
    /\ pc[t] = "run"
    /\ LET j == job[t] IN
         IF j \in exists
         THEN row' = [row EXCEPT
                 ![j].nextRunAt = now[t] + seen[t][j].interval,
                 ![j].lockedUntil = Null,
                 ![j].lastRunAt = now[t],
                 ![j].lastSuccessAt = IF success THEN now[t] ELSE @]
         ELSE UNCHANGED row
    /\ Resume(t)
    /\ UNCHANGED <<clock, machine, crashes, exists>>

\* The error write fails too and is swallowed: the lease is left to expire.
BookkeepingLost(t) ==
    /\ pc[t] = "run"
    /\ Resume(t)
    /\ UNCHANGED <<clock, machine, crashes, db>>

\* The process dies: all its ticks and manual runs are gone, the rows stay.
Crash(m) ==
    /\ machine[m] # "down" /\ crashes < MaxCrashes
    /\ machine' = [machine EXCEPT ![m] = "down"]
    /\ crashes' = crashes + 1
    /\ LET dead(t) == MachineOf[t] = m IN
         /\ pc' = [t \in Threads |-> IF dead(t) THEN "idle" ELSE pc[t]]
         /\ now' = [t \in Threads |-> IF dead(t) THEN 0 ELSE now[t]]
         /\ todo' = [t \in Threads |-> IF dead(t) THEN {} ELSE todo[t]]
         /\ seen' = [t \in Threads |-> IF dead(t) THEN NoSnapshot ELSE seen[t]]
         /\ job' = [t \in Threads |-> IF dead(t) THEN NoJob ELSE job[t]]
    /\ UNCHANGED <<clock, db>>

\* startJobRunner: the timer is set at once, the sync is fire-and-forget.
Boot(m) ==
    /\ machine[m] = "down"
    /\ machine' = [machine EXCEPT ![m] = "syncing"]
    /\ UNCHANGED <<clock, crashes, db, threadVars>>

\* syncJobRegistry: seed this code's jobs, then delete the rows of all others.
SyncRegistry(m) ==
    /\ \/ /\ machine[m] = "syncing"
          /\ machine' = [machine EXCEPT ![m] = "pruning"]
          /\ SeedRows(Registry[m], SeedEnabled)
       \/ /\ machine[m] = "pruning"
          /\ machine' = [machine EXCEPT ![m] = "up"]
          /\ exists' = exists \cap Registry[m]
          /\ row' = [j \in Jobs |-> IF j \in Registry[m] THEN row[j] ELSE Blank]
    /\ UNCHANGED <<clock, crashes, threadVars>>

\* A cold database: either call fails, is logged, and is not tried again.
SyncFails(m) ==
    /\ machine[m] \in {"syncing", "pruning"}
    /\ machine' = [machine EXCEPT ![m] = "up"]
    /\ UNCHANGED <<clock, crashes, db, threadVars>>

\* Admin -> Jobs (and the MCP manage-job tool): edit a row.
SetConfig(j, enabled, interval) ==
    /\ j \in exists
    /\ row' = [row EXCEPT ![j].enabled = enabled, ![j].interval = interval]
    /\ UNCHANGED <<clock, machine, crashes, exists, threadVars>>

Advance ==
    /\ clock < MaxTime
    /\ clock' = clock + 1
    /\ UNCHANGED <<machine, crashes, db, threadVars>>

\* What a thread does by itself once started.
Step(t) ==
    \/ Scan(t) \/ TickClaim(t) \/ TickSkip(t) \/ EndTick(t)
    \/ RunNowRead(t) \/ RunNowClaim(t) \/ RunNowRefused(t)
    \/ \E success \in BOOLEAN : Bookkeep(t, success)
    \/ BookkeepingLost(t)

Act ==
    \/ \E t \in Threads : StartTick(t) \/ Step(t)
    \/ \E t \in Threads, j \in Jobs : StartRunNow(t, j)
    \/ \E m \in Machines : Crash(m) \/ Boot(m) \/ SyncRegistry(m) \/ SyncFails(m)
    \/ \E j \in Jobs, on \in BOOLEAN, i \in Intervals : SetConfig(j, on, i)
    \/ Advance

\* History: a job lapses when one of its runs outlives the lease it was given
\* or loses its row, and stays so until nobody runs it.
Lapse ==
    lapsed' = {j \in Jobs : \E t \in Threads :
                 /\ Runs(t, j)'
                 /\ \/ j \in lapsed
                    \/ now'[t] + LEASE < clock'
                    \/ j \notin exists'}

Next == Act /\ Lapse

Spec == Init /\ [][Next]_vars

\* Machines keep ticking (setInterval), come back after a crash, and what was
\* started goes on: every await returns, handlers included.
Fairness ==
    /\ WF_vars(Advance /\ Lapse)
    /\ \A t \in Threads : WF_vars(StartTick(t) /\ Lapse) /\ WF_vars(Step(t) /\ Lapse)
    /\ \A m \in Machines : WF_vars(Boot(m) /\ Lapse)

FairSpec == Spec /\ Fairness
------------------------------------------------------------------------------
Time == Nat \cup {Null}
RowType == [enabled : BOOLEAN, interval : Nat \ {0}, nextRunAt : Nat,
            lockedUntil : Time, lastRunAt : Time, lastSuccessAt : Time]
ClaimedRowType == [interval : Nat \ {0}, lastSuccessAt : Time]

TypeOK ==
    /\ clock \in Nat
    /\ machine \in [Machines -> {"down", "syncing", "pruning", "up"}]
    /\ crashes \in Nat
    /\ exists \subseteq Jobs
    /\ row \in [Jobs -> RowType]
    /\ pc \in [Threads -> {"idle", "seed", "scan", "loop", "ensure", "read", "claim", "run"}]
    /\ now \in [Threads -> Nat]
    /\ todo \in [Threads -> SUBSET Jobs]
    /\ seen \in [Threads -> [Jobs -> ClaimedRowType]]
    /\ job \in [Threads -> Jobs \cup {NoJob}]
    /\ lapsed \subseteq Jobs

\* Two executions of one job overlap only if one of them outlived its lease, or
\* a booting machine with another registry pruned the row, while the job was
\* being run: the claim's atomic UPDATE (runner.server.ts:97-105, 132-139) keeps
\* ticks of both machines and manual runs apart in every other interleaving.
ExclusiveUnlessLapsed ==
    \A j \in Jobs \ lapsed : \A t, u \in Holders(j) : t = u

\* Why: the inductive invariant.  A run of a job that has not lapsed still finds
\* its own expiry in the row, and nobody's `now` is past it; no thread's `now` is
\* in the future; only a thread at its handler has a job.
LeaseInv ==
    /\ ExclusiveUnlessLapsed
    /\ \A t \in Threads : now[t] <= clock /\ (job[t] # NoJob => pc[t] = "run")
    /\ \A j \in Jobs \ lapsed : \A t \in Holders(j) :
         /\ j \in exists
         /\ row[j].lockedUntil = now[t] + LEASE
         /\ clock <= now[t] + LEASE

\* A row is due again only after the run it records.
DueAfterLastRun == \A j \in Jobs : row[j].lastRunAt < row[j].nextRunAt

\* The runner implements the abstract lease: a job's executions are its
\* holders, and every step of it acquires, releases or lapses.
AbstractLease == INSTANCE Lease WITH
    Resources <- Jobs, Clients <- Threads,
    holders <- [j \in Jobs |-> Holders(j)], lapsed <- lapsed

ImplementsLease == AbstractLease!Spec

\* One scheduled slot is served once.  Both machines read the same due row, and
\* one may get to it long after the other has run the job and moved nextRunAt
\* on; a tick must then leave it alone: it only starts a job at a moment later
\* than that of the last run on record (the re-check of nextRunAt in the claim,
\* runner.server.ts:101, against the write at 176-187).
TickStarts(t, j) == t \in Tickers /\ job[t] # j /\ job'[t] = j

SlotServedOnce ==
    [][\A t \in Tickers, j \in Jobs : TickStarts(t, j) => row[j].lastRunAt < now[t]]_vars

\* A due, enabled job is run in the end, whatever machine died holding its
\* lease: an expired lease is up for grabs (runner.server.ts:23-24).  Only
\* leases that can still expire within MaxTime count.
Waiting(j) ==
    /\ j \in exists /\ row[j].enabled
    /\ row[j].nextRunAt <= clock /\ row[j].lockedUntil < MaxTime

DueJobsRun ==
    \A j \in Jobs : (\E m \in Machines : j \in Registry[m]) =>
        (Waiting(j) ~> (Holders(j) # {} \/ j \notin exists \/ ~row[j].enabled))
=============================================================================
