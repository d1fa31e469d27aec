------------------------------- MODULE Outbox -------------------------------
(***************************************************************************)
(* The outbound message queue of dali-api (app/lib/outbound.server.ts).    *)
(*                                                                         *)
(* A producer enqueues a message under a unique dedup key; workers of      *)
(* inline drains (drainNow) and of the drain job claim due rows with a     *)
(* conditional UPDATE that also locks the row for LOCK seconds, hand the   *)
(* message to Gmail or Slack, and write the outcome back with an           *)
(* UNCONDITIONAL update.  The queue survives crashes because a Sending row *)
(* past its lock is due again; the price is that a slow send can be        *)
(* repeated and its late outcome can overwrite a newer one.                *)
(*                                                                         *)
(* A message here is one logical event, that is one (channel, dedupKey).   *)
(* The list of candidates a drain reads first is left out: a row is taken  *)
(* only if the claim's own WHERE still matches, whatever the list said.    *)
(***************************************************************************)
EXTENDS Integers, FiniteSets

CONSTANTS Messages,     \* logical events, each with its dedup key
          Kind,         \* Kind[m]: "email", "slack" (one call) or "thread"
                        \* (blocks, then a file uploaded into their thread)
          Workers,      \* drain workers, inline or of the job
          Processes,    \* the machines they run on
          ProcessOf,    \* ProcessOf[w]
          SlackAllowed, \* the machines with slackConfigured() /\ slackAllowed()
          LOCK,         \* lockSeconds
          MaxAttempts,  \* maxAttempts
          Backoff,      \* Backoff[n]: the wait after the n-th failure
          Cap,          \* the sender's dailyCap
          DAY,          \* length of a UTC day
          RETAIN,       \* age at which the janitor deletes finished rows
          MaxTime,      \* bound: the last instant explored
          MaxCrashes,   \* bound: process deaths
          MaxRetries,   \* bound: operator retries
          NoMessage     \* what an idle worker holds

ASSUME OutboxAssumption ==
    /\ Kind \in [Messages -> {"email", "slack", "thread"}]
    /\ IsFiniteSet(Workers) /\ Workers # {}
    /\ ProcessOf \in [Workers -> Processes] /\ SlackAllowed \subseteq Processes
    /\ LOCK \in Nat \ {0} /\ MaxAttempts \in Nat \ {0}
    /\ Backoff \in [1..MaxAttempts -> Nat \ {0}]
    /\ Cap \in Nat /\ DAY \in Nat \ {0} /\ RETAIN \in Nat
    /\ MaxTime \in Nat /\ MaxCrashes \in Nat /\ MaxRetries \in Nat
    /\ NoMessage \notin Messages

VARIABLES clock,
          exists,     \* messages with an OutboundMessage row
          row,        \* row[m]: that row
          usage,      \* usage[d]: SenderDailyUsage.count of day d
          pc,         \* where each worker is
          msg,        \* the message it holds
          saw,        \* what it goes by: the row read after the claim, and
                      \* the deferral computed from the cap
          until,      \* history: the end of the lock its claim wrote
          crashes, retries,
          lapsed,     \* history: see Lease
          delivered,  \* history: times the provider took m (2 = or more)
          doubt       \* history: messages the provider may have taken
                      \* without the queue recording it

workerVars == <<pc, msg, saw, until>>
history == <<lapsed, delivered, doubt>>
vars == <<clock, exists, row, usage, pc, msg, saw, until, crashes, retries, history>>

Day(t) == t \div DAY
Days == 0..Day(MaxTime)
NextMidnight(t) == (Day(t) + 1) * DAY

Holders(m) == {w \in Workers : msg[w] = m}

\* Mutant: a new row has no time to be sent at.
UnscheduledRow == [status |-> "Pending", attempts |-> 0, nextAt |-> -1,
                   createdAt |-> clock, posted |-> FALSE]

\* The columns' defaults at creation.
NewRow == [status |-> "Pending", attempts |-> 0, nextAt |-> clock,
           createdAt |-> clock, posted |-> FALSE]

\* An absent row; posted is slackTs # null.
Blank == [status |-> "Absent", attempts |-> 0, nextAt |-> 0, createdAt |-> 0, posted |-> FALSE]
Nothing == [attempts |-> 0, posted |-> FALSE, deferUntil |-> 0]

Init ==
    /\ clock = 0
    /\ exists = {}
    /\ row = [m \in Messages |-> Blank]
    /\ usage = [d \in Days |-> 0]
    /\ pc = [w \in Workers |-> "idle"]
    /\ msg = [w \in Workers |-> NoMessage]
    /\ saw = [w \in Workers |-> Nothing]
    /\ until = [w \in Workers |-> 0]
    /\ crashes = 0 /\ retries = 0
    /\ lapsed = {}
    /\ delivered = [m \in Messages |-> 0]
    /\ doubt = {}

-----------------------------------------------------------------------------
(* Producers.  A second enqueue of the same key hits the unique index and   *)
(* changes nothing.                                                         *)
Enqueue(m) ==
    /\ m \notin exists
    /\ exists' = exists \cup {m}
    /\ row' = [row EXCEPT ![m] = NewRow]
    /\ UNCHANGED <<clock, usage, workerVars, crashes, retries, delivered>>

-----------------------------------------------------------------------------
(* Workers.                                                                 *)

Goto(w, l) == pc' = [pc EXCEPT ![w] = l]
Leave(w) ==
    /\ pc' = [pc EXCEPT ![w] = "idle"]
    /\ msg' = [msg EXCEPT ![w] = NoMessage]
    /\ saw' = [saw EXCEPT ![w] = Nothing]
    /\ until' = [until EXCEPT ![w] = 0]

\* Mutants of the claim: Canceled rows are sent as well; the lock is not looked at.
CanceledToo == {"Pending", "Sending", "Canceled"}
DueAlways(m) == TRUE

Queued == {"Pending", "Sending"}
Due(m) == row[m].nextAt <= clock
LockEnd == clock + LOCK

\* processOne's compare-and-set: nextAttemptAt doubles as the lock.
Claim(w, m) ==
    /\ pc[w] = "idle" /\ m \in exists
    /\ row[m].status \in Queued /\ Due(m)
    /\ row' = [row EXCEPT ![m].status = "Sending", ![m].nextAt = LockEnd]
    /\ Goto(w, "read")
    /\ msg' = [msg EXCEPT ![w] = m]
    /\ until' = [until EXCEPT ![w] = clock + LOCK]
    /\ UNCHANGED <<clock, exists, usage, saw, crashes, retries, delivered>>

Slack(w) == ProcessOf[w] \in SlackAllowed

\* Mutant: a saved slackTs is not looked at, the blocks are posted again.
FirstStepForgetful(w, m, posted) ==
    CASE Kind[m] = "email" -> "check"
      [] Kind[m] # "email" /\ ~Slack(w) -> "cancel"
      [] OTHER -> "send"

\* sendOne: by channel.  Where Slack is not allowed the row is cancelled; blocks
\* already posted (slackTs is set) are not posted again.
FirstStep(w, m, posted) ==
    CASE Kind[m] = "email" -> "check"
      [] Kind[m] # "email" /\ ~Slack(w) -> "cancel"
      [] Kind[m] = "thread" /\ Slack(w) /\ posted -> "upload"
      [] OTHER -> "send"

Read(w) ==
    /\ pc[w] = "read" /\ msg[w] \in exists
    /\ LET r == row[msg[w]] IN
         /\ saw' = [saw EXCEPT ![w] = [Nothing EXCEPT !.attempts = r.attempts,
                                                      !.posted = r.posted]]
         /\ Goto(w, FirstStep(w, msg[w], r.posted))
    /\ UNCHANGED <<clock, exists, row, usage, msg, until, crashes, retries, delivered>>

\* Mutant: one more than the cap.
OverCapLate == usage[Day(clock)] > Cap

OverCap == usage[Day(clock)] >= Cap

CheckCap(w) ==
    /\ pc[w] = "check"
    /\ IF OverCap
       THEN /\ saw' = [saw EXCEPT ![w].deferUntil = NextMidnight(clock)]
            /\ Goto(w, "defer")
       ELSE Goto(w, "send") /\ UNCHANGED saw
    /\ UNCHANGED <<clock, exists, row, usage, msg, until, crashes, retries, delivered>>

\* The provider takes the message or not, and says so or not: accepted without
\* an answer (a timeout, a reset connection) is an error to the caller.
Send(w, accepted, answered) ==
    /\ pc[w] = "send"
    /\ delivered' = IF accepted /\ delivered[msg[w]] < 2
                    THEN [delivered EXCEPT ![msg[w]] = @ + 1] ELSE delivered
    /\ IF accepted /\ answered
       THEN Goto(w, CASE Kind[msg[w]] = "email" -> "count"
                      [] Kind[msg[w]] = "thread" -> "save"
                      [] OTHER -> "mark")
       ELSE Goto(w, "fail")
    /\ UNCHANGED <<clock, exists, row, usage, msg, saw, until, crashes, retries>>

\* incrementUsage, on the day it happens; noteSenderHealth after it may throw.
CountUsage(w) ==
    /\ pc[w] = "count"
    /\ usage' = [usage EXCEPT ![Day(clock)] = @ + 1]
    /\ \E l \in {"mark", "fail"} : Goto(w, l)
    /\ UNCHANGED <<clock, exists, row, msg, saw, until, crashes, retries, delivered>>

SaveSlackTs(w) ==
    /\ pc[w] = "save" /\ msg[w] \in exists
    /\ row' = [row EXCEPT ![msg[w]].posted = TRUE]
    /\ Goto(w, "upload")
    /\ UNCHANGED <<clock, exists, usage, msg, saw, until, crashes, retries, delivered>>

Upload(w) ==
    /\ pc[w] = "upload"
    /\ Goto(w, "mark")
    /\ UNCHANGED <<clock, exists, row, usage, msg, saw, until, crashes, retries, delivered>>

\* The outcome, written whatever the row has become meanwhile.
Outcome(w) ==
    /\ pc[w] \in {"mark", "cancel", "defer"} /\ msg[w] \in exists
    /\ row' = CASE pc[w] = "mark" -> [row EXCEPT ![msg[w]].status = "Sent"]
                [] pc[w] = "cancel" -> [row EXCEPT ![msg[w]].status = "Canceled"]
                [] pc[w] = "defer" -> [row EXCEPT ![msg[w]].status = "Pending",
                                                  ![msg[w]].nextAt = saw[w].deferUntil]
    /\ Leave(w)
    /\ UNCHANGED <<clock, exists, usage, crashes, retries, delivered>>

\* Any call inside the try may throw: a missing sender, the database, Slack, S3.
Throw(w) ==
    /\ pc[w] \in {"check", "count", "save", "upload", "mark", "cancel", "defer"}
    /\ Goto(w, "fail")
    /\ UNCHANGED <<clock, exists, row, usage, msg, saw, until, crashes, retries, delivered>>

\* Mutant: a failure is not counted, and the message tried again for ever.
FailUncounted(w) ==
    /\ pc[w] = "fail" /\ msg[w] \in exists
    /\ row' = [row EXCEPT ![msg[w]].status = "Pending", ![msg[w]].nextAt = clock + Backoff[1]]
    /\ Leave(w)
    /\ UNCHANGED <<clock, exists, usage, crashes, retries, delivered>>

\* handleFailure, counting from the attempts READ after the claim.
Fail(w) ==
    /\ pc[w] = "fail" /\ msg[w] \in exists
    /\ LET n == saw[w].attempts + 1 IN
         row' = IF n >= MaxAttempts
                THEN [row EXCEPT ![msg[w]].status = "Dead", ![msg[w]].attempts = n]
                ELSE [row EXCEPT ![msg[w]].status = "Pending", ![msg[w]].attempts = n,
                                 ![msg[w]].nextAt = clock + Backoff[n]]
    /\ Leave(w)
    /\ UNCHANGED <<clock, exists, usage, crashes, retries, delivered>>

\* The row is gone, or an await outside the try throws: the drain gives up and
\* the row, if there is one, stays locked until its lock expires.
Abandon(w) ==
    /\ pc[w] \in {"read", "fail"}
    /\ Leave(w)
    /\ UNCHANGED <<clock, exists, row, usage, crashes, retries, delivered>>

-----------------------------------------------------------------------------
(* The operator, the janitor, the machines and time.                        *)

Retry(m) ==
    /\ m \in exists /\ row[m].status = "Dead" /\ retries < MaxRetries
    /\ row' = [row EXCEPT ![m].status = "Pending", ![m].nextAt = clock, ![m].attempts = 0]
    /\ retries' = retries + 1
    /\ UNCHANGED <<clock, exists, usage, workerVars, crashes, delivered>>

Cancel(m) ==
    /\ m \in exists /\ row[m].status \in {"Pending", "Dead"}
    /\ row' = [row EXCEPT ![m].status = "Canceled"]
    /\ UNCHANGED <<clock, exists, usage, workerVars, crashes, retries, delivered>>

Expired(m) == row[m].status \in {"Sent", "Canceled"} /\ row[m].createdAt < clock - RETAIN

Purge ==
    /\ \E m \in exists : Expired(m)
    /\ exists' = {m \in exists : ~Expired(m)}
    /\ row' = [m \in Messages |-> IF m \in exists' THEN row[m] ELSE Blank]
    /\ UNCHANGED <<clock, usage, workerVars, crashes, retries, delivered>>

Crash(p) ==
    /\ crashes < MaxCrashes
    /\ crashes' = crashes + 1
    /\ LET dead(w) == ProcessOf[w] = p IN
         /\ \E w \in Workers : dead(w) /\ pc[w] # "idle"
         /\ pc' = [w \in Workers |-> IF dead(w) THEN "idle" ELSE pc[w]]
         /\ msg' = [w \in Workers |-> IF dead(w) THEN NoMessage ELSE msg[w]]
         /\ saw' = [w \in Workers |-> IF dead(w) THEN Nothing ELSE saw[w]]
         /\ until' = [w \in Workers |-> IF dead(w) THEN 0 ELSE until[w]]
    /\ UNCHANGED <<clock, exists, row, usage, retries, delivered>>

Advance ==
    /\ clock < MaxTime
    /\ clock' = clock + 1
    /\ UNCHANGED <<exists, row, usage, workerVars, crashes, retries, delivered>>

\* What a worker does with the message it holds.
Work(w) ==
    \/ Read(w) \/ CheckCap(w)
    \/ \E accepted, answered \in BOOLEAN : Send(w, accepted, answered)
    \/ CountUsage(w) \/ SaveSlackTs(w) \/ Upload(w) \/ Outcome(w)
    \/ Throw(w) \/ Fail(w) \/ Abandon(w)

Act ==
    \/ \E m \in Messages : Enqueue(m) \/ Retry(m) \/ Cancel(m)
    \/ \E w \in Workers, m \in Messages : Claim(w, m)
    \/ \E w \in Workers : Work(w)
    \/ Purge
    \/ \E p \in Processes : Crash(p)
    \/ Advance

\* History: the provider has the message and the queue does not say so yet.
Unrecorded(w) ==
    pc[w] \in {"count", "save"} \/ (pc[w] = "mark" /\ Kind[msg[w]] # "thread")

History ==
    /\ lapsed' = {m \in Messages : \E w \in Workers :
                    msg'[w] = m /\ (m \in lapsed \/ until'[w] <= clock' \/ m \notin exists')}
    /\ doubt' = doubt \cup lapsed' \cup (exists \ exists')
                  \cup {m \in Messages : \E w \in Workers :
                          /\ msg[w] = m /\ pc'[w] \in {"fail", "idle"}
                          /\ \/ Unrecorded(w) /\ row'[m].status # "Sent"
                             \/ delivered' # delivered /\ pc[w] = "send"}

Next == Act /\ History

Spec == Init /\ [][Next]_vars

\* The drain job comes round every minute and takes what is due; every call of
\* a worker returns or throws; time passes.  The queries that are not inside the
\* try do not fail for one message for ever.
For(m, A(_)) == \E w \in Workers : msg[w] = m /\ A(w)

Fairness ==
    /\ WF_vars(Advance /\ History)
    /\ \A w \in Workers : WF_vars(Work(w) /\ History)
    /\ \A m \in Messages :
         /\ WF_vars((\E w \in Workers : Claim(w, m)) /\ History)
         /\ SF_vars(For(m, Read) /\ History)
         /\ SF_vars(For(m, Fail) /\ History)
-----------------------------------------------------------------------------
RowType == [status : {"Absent", "Pending", "Sending", "Sent", "Dead", "Canceled"},
            attempts : Nat, nextAt : Nat, createdAt : Nat, posted : BOOLEAN]

TypeOK ==
    /\ clock \in Nat
    /\ exists \subseteq Messages
    /\ row \in [Messages -> RowType]
    /\ usage \in [Days -> Nat]
    /\ pc \in [Workers -> {"idle", "read", "check", "send", "count", "save", "upload",
                           "mark", "cancel", "defer", "fail"}]
    /\ msg \in [Workers -> Messages \cup {NoMessage}]
    /\ saw \in [Workers -> [attempts : Nat, posted : BOOLEAN, deferUntil : Nat]]
    /\ until \in [Workers -> Nat]
    /\ crashes \in Nat /\ retries \in Nat
    /\ lapsed \subseteq Messages
    /\ delivered \in [Messages -> 0..2]
    /\ doubt \subseteq Messages

\* The outbox implements the abstract lease: two workers hold one message only
\* if the lock ran out under the first (outbound.server.ts:229-235).
AbstractLease == INSTANCE Lease WITH
    Resources <- Messages, Clients <- Workers,
    holders <- [m \in Messages |-> Holders(m)], lapsed <- lapsed

ImplementsLease == AbstractLease!Spec

\* No message is given to the provider twice, unless the queue had reason to
\* doubt that it was given once: a lock that ran out, a crash or an error
\* between the send and its record, an acceptance without an answer, or a
\* purged claim.  Re-fired producers, failures of every other kind, deferrals,
\* operator retries and a failed upload into a posted thread never do it
\* (outbound.server.ts:4-5, 348-352).
DeliveredOnce == \A m \in Messages \ doubt : delivered[m] < 2

\* Sent and Canceled are final while no lock lapses: nothing that is still in
\* flight writes over them (the unconditional updates at 245, 251, 258, 373,
\* 380), and an operator's cancel is never undone.
TerminalStays ==
    [][\A m \in exists \ lapsed : row[m].status \in {"Sent", "Canceled"} =>
         m \notin exists' \/ row'[m].status = row[m].status]_vars

\* A day's usage passes the cap by less than the number of workers: each checks
\* before it sends and counts after (304-307, 328), and at midnight those in
\* flight count on the new day.
CapOvershoot == \A d \in Days : usage[d] < Cap + Cardinality(Workers)

-----------------------------------------------------------------------------
(* The inductive invariants the proofs of these properties rest on.         *)

\* A worker has a message exactly while it works.
BusyInv == \A w \in Workers : pc[w] = "idle" <=> msg[w] = NoMessage

\* A message whose lock has not lapsed has one holder at most, and its row is
\* locked until the very moment that holder wrote, which is still to come.
LeaseInv ==
    /\ BusyInv
    /\ \A m \in Messages \ lapsed : \A w \in Holders(m) :
         /\ Holders(m) = {w}
         /\ m \in exists
         /\ row[m].status = "Sending"
         /\ row[m].nextAt = until[w]
         /\ clock < until[w]

\* Only threads are posted in two steps; only e-mails are counted.
KindInv ==
    /\ \A m \in Messages : row[m].posted => Kind[m] = "thread"
    /\ \A w \in Workers :
         /\ pc[w] \in {"check", "count"} => Kind[msg[w]] = "email"
         /\ pc[w] = "save" => Kind[msg[w]] = "thread"

\* Whatever the provider took without doubt is on record, or about to be: the
\* row is Sent, its blocks are saved, or its holder is at the step that says so.
DeliveryInv ==
    /\ lapsed \subseteq doubt
    /\ \A m \in Messages \ doubt :
         /\ delivered[m] \in {0, 1}
         /\ delivered[m] = 1 =>
              /\ m \in exists
              /\ \/ row[m].status = "Sent" \/ row[m].posted
                 \/ \E w \in Holders(m) : Unrecorded(w)
         /\ \A w \in Holders(m) : pc[w] \in {"check", "send"} => delivered[m] = 0

\* The e-mails that passed the cap and are not counted yet, on whatever day that
\* will be.
InFlight == {w \in Workers : pc[w] \in {"send", "count"} /\ Kind[msg[w]] = "email"}

CapInv ==
    /\ clock <= MaxTime
    /\ \A d \in Days : d > Day(clock) => usage[d] = 0
    /\ Cap = 0 => InFlight = {}
    /\ usage[Day(clock)] + Cardinality(InFlight) < Cap + Cardinality(Workers)
    /\ CapOvershoot

-----------------------------------------------------------------------------
\* Every message that was queued is settled in the end: sent, cancelled or dead,
\* whatever fails, is put off to the next day or loses its lock, and however
\* often and however late it is tried again (outbound.server.ts:199-203, 371-376).
Unsettled(m) == m \in exists /\ row[m].status \notin {"Sent", "Canceled", "Dead"}

Settles == \A m \in Messages : Unsettled(m) ~> ~Unsettled(m)
=============================================================================
