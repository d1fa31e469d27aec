# A TLA+ model of DALI OS

DALI OS is the web application of the DALI lab: a React Router server
(`dali-api`) on Postgres (Prisma), run on more than one always-on machine, with
desktop, mobile and browser clients and a transcription service. Most of its
code is pages, forms and queries. What is hard in it is what happens between
requests and between machines: jobs that every machine tries to run, messages
that must go out once, recordings that a browser, a desktop recorder, a
transcription service and a sweeping job all write to, rooms and seats that two
people want at once, queues whose ranks two requests compact, and a calendar at
Google that has to follow a row. This project models those parts in TLA+,
checks them with TLC, and proves the safety properties it checks with TLAPS.

All paths below are relative to `dali-api/app/` in the repository, unless they
start with another top directory.

## Contents

| file | what it is |
| --- | --- |
| `Lease.tla` | abstract specification: what a lease in a database row promises |
| `JobRunner.tla` | the background job runner, in full |
| `JobRunner_proofs.tla` | TLAPS proofs about `JobRunner` |
| `Outbox.tla` | the outbound message queue |
| `Outbox_proofs.tla` | TLAPS proofs about `Outbox` |
| `Recording.tla` | meeting recordings, their requests and the finalizer job |
| `Recording_proofs.tla` | TLAPS proofs about `Recording` |
| `Rooms.tla` | room bookings, event holds, interview rooms and meetings under the rooms' locks |
| `Rooms_proofs.tla` | TLAPS proofs about `Rooms` |
| `TimeMirror.tla` | the mirror of a time entry in Google Calendar |
| `TimeMirror_proofs.tla` | TLAPS proofs about `TimeMirror` |
| `Enrollment.tla` | seats and waitlist of an education offering |
| `Enrollment_proofs.tla` | TLAPS proofs about `Enrollment` |
| `Waitlist.tla` | the ranks of a hiring waitlist |
| `Waitlist_proofs.tla` | TLAPS proofs about `Waitlist` |
| `MC*.tla`, `*.cfg` | the instances TLC checks |
| `PROJECT.json` | runs, mutants, the map from definitions to source lines, hazards, findings |

## Inventory

Every process of the system is a Node process on a machine; they share Postgres,
S3 and the providers (Gmail, Slack, the transcription service) and nothing else.
There is no queue server and no lock server: a lock is a conditional `UPDATE`, a
unique index, a row lock or an advisory lock. Between two awaits a handler can
lose the processor to any other handler, and a machine can be replaced by a
deploy at any await.

### Modelled

**Background job runner** (`jobs/runner.server.ts`, `jobs/registry.ts`,
`admin/routes/api.jobs.$name.ts`). State: one `ScheduledJob` row per job
(`enabled`, `intervalMinutes`, `nextRunAt`, `lockedUntil`, `lastRunAt`,
`lastSuccessAt`). Operations: the registry sync at boot (seed and prune), the
tick of each minute (seed, read what is due, claim one after the other, run,
write the bookkeeping), "Run now", and an operator's edits. Hard: both machines
tick; a tick does not wait for the previous one; `now` is read once and used
until the tick ends; the bookkeeping write has no condition; during a rolling
deploy two registries are in force. Correct means: a job is not run twice at once
unless a run outlived its lease; a due time is not served twice; a due job is run
in the end.

**Outbound messages** (`lib/outbound.server.ts`, with the admin page, the MCP
tool and `jobs/retention-janitor.server.ts`). State: `OutboundMessage` rows
(`status`, `attempts`, `nextAttemptAt`, `slackTs`, unique `(channel, dedupKey)`)
and `SenderDailyUsage` counters. Operations: enqueue, the claim (which locks the
row by moving `nextAttemptAt`), the send by channel, the outcome, failure with
backoff, an operator's retry and cancel, the janitor's purge. Hard: the lock can
run out while a send is on the wire; the outcome is written by id alone; a
provider can accept a message and fail to say so; a crash can come between the
send and its record; caps are read before the send and counted after it. Correct
means: at most one worker holds a message unless its lock ran out; no message is
sent twice unless the queue had a reason to doubt; terminal states stay; caps are
passed by a bounded amount; every message is settled.

**Meeting recordings** (`lib/meeting-recording.server.ts`,
`routes/api.meeting-recordings*.ts`, `jobs/recording-finalizer.server.ts`,
`lib/transcription/chunks.server.ts`). State: the `MeetingRecording` row
(`status`, `channels`, `finalizedAt`, `error`, `audioDeletedAt`), the audio chunks
in S3, the jobs accepted by the transcription service. Operations: create, claim,
chunk, stop, resume, finish, discard, the service's callback, and the five
queries of the finalizer. Hard: every handler reads the row once and then makes
up to four calls by what it read; page, desktop app, editor, service and
finalizer overlap on one row; audio and row are deleted in separate calls.
Correct means: no channel is lost, audio is kept until the recording is
finalized, a job has every channel, and everything comes to an end. That a note
has one live recording is left to the database: a partial unique index, which
is a guard of every write of the model.

**Rooms** (`lib/rooms.server.ts`, `calendar/routes/calendar.server.ts`,
`calendar/routes/api.scheduled-meetings.ts`, `hiring/lib/scheduling.ts`,
`hiring/routes/api.interviews.$id.location.ts`). State: `RoomBooking` rows (room,
times, source, `cancelledAt`, `sourceEventId`) and the meetings that point at
rooms; an advisory lock per room. Operations: book, edit, extend, cancel, the
rooms of an event (booked one by one, tied to Google's event afterwards, moved
and released with it), an interview's room, a meeting's check. Hard: the row is
read before its room is locked; an interview's snapshot is older than its lock;
cancels and meetings take no lock; Google's answer comes between the holds and
their event. Correct means: no two claims on a room overlap unless both are
allowed to; an event has all its rooms or none; its holds move together.

**Time entries** (`lib/time-entries.server.ts`, `lib/timesheet-mirror.server.ts`).
State: the entry and the Google event id saved in it, a chain of promises per
machine and entry, an advisory lock, the events at Google. Operations: update,
delete, the mirror job that follows each, the member's switch. Hard: two machines
have two chains; the lock belongs to a transaction that can time out under a
call that does not; an event exists before its id is saved. Correct means: one
event per entry, showing the latest version, gone with the entry.

**Education** (`education/lib/apply.server.ts`, `decisions.server.ts`,
`offerings.server.ts`, `notifications.server.ts`). State: `EducationApplication`
rows (`status`, `waitlistRank`, `submittedAt`), the offering's capacity and
review rule. Operations: submit, decide, withdraw, approve all pending, move in
the queue, change the offering, and the mail after each outcome. Hard: the
transactions lock the offering, but status, rank and capacity were read before;
one freed seat moves a second applicant. Correct means: seats within capacity, a
freed seat goes to the first in the queue, ranks dense and in order, everybody
told what they got.

**Hiring waitlist** (`hiring/lib/waitlist.server.ts`, `waitlist.ts`, and their
routes). State: the `waitlistRank` of each released Waitlisted decision, and the
decisions released after it. Operations: accept, remove, remove several, reorder,
release. Hard: a decision re-numbers everyone who stays from what it read,
without a lock. Correct means: whoever stays keeps the order, gaps close, ties
stay until Core settles them and are gone afterwards.

### How they interact

The finalizer and the drain of the outbound queue are jobs of the runner: the
runner's promise (a due job is run, and not twice at once unless a lease lapsed)
is what the fairness of `Recording` and `Outbox` stands on, and why both let
several visits overlap. Producers (notifications, digests, reminders, signing,
hiring mail) call `enqueueOutbound` and then drain inline, so a web process is
also a worker of the queue. The finalizer calls the same functions as the
requests, so `Recording` has one set of calls and two ways to start them.

Rooms are shared by members, the calendar, hiring and meetings; `Rooms` composes
the four, because what is hard is one of them meeting another. The education and
waitlist decisions send their mail through the queue, by a key per outcome:
`Enrollment` ends where the message is queued and `Outbox` starts there. The mirror
stands alone: it writes to Google inside the request's process, not by the queue.

### Not modelled yet

| component | state and hard part |
| --- | --- |
| Notifications (`lib/notify.server.ts`) | in-app rows claimed by a unique key, then e-mail and Slack enqueued: two steps with a crash or a throw between |
| Digest (`lib/notification-digest.server.ts`) | a per-user send hour, a look-back window and a cursor read before the transaction that moves it |
| Announcements, reminders (`jobs/scheduled-announcements.server.ts`, `jobs/meeting-reminders.server.ts`, ...) | claimed by `sentAt` or a log row before they are sent |
| Pairing, OAuth (`lib/pairing.ts`, `lib/oauth.ts`) | single-use codes tested and marked in two statements |
| Signing (`signing/lib`, `jobs/signing-issuance.server.ts`) | issue, sign, activate over several rows |
| Collaborative documents (`collab/`) | store, snapshot and source sync of a Yjs document |
| Slide polls, AI quota, realtime bus | small read-modify-write handlers and in-memory fan-out |

Left out of what is modelled: repeating bookings and their exceptions, and the
hours hiring holds for a whole cycle (`Rooms` has single bookings); what
follows an accept off the waitlist (membership, provisioning, mail); sessions,
attendance and certificates of education; the creation of a time entry, which
comes before the first mirror job.

Not planned: pages, forms, CRUD and queries (partners, projects,
members, mentorship, forms, drive), which have little state of their own beyond
one conditional update per action; the clients' user interfaces; library
configuration (better-auth); provider and Google API wrappers. `Outbox` and
`Recording` model the providers by the way the code uses them: they accept or
not, answer or not, call back late, twice or never.

## Plan

1. *Done.* `Lease`, `JobRunner` and its proofs: everything else is started by it.
2. *Done.* `Outbox`, a second implementation of `Lease`, and its proofs.
3. *Done.* `Recording`: many writers on one row.
4. *Done.* `Rooms`, the composition of four writers of one schedule.
5. *Done.* `TimeMirror`, `Enrollment`, `Waitlist`.
6. *Done.* Proofs of the safety properties of `Recording`, `Waitlist`,
   `TimeMirror`, `Enrollment` and `Rooms`.
7. `Notify` and `Digest` over the promise of the queue (a message per key), and
   the single-use codes of `Pairing` and `OAuth`, `Signing`, `Collab`.

Abstract specifications worth stating: the lease (done), at-least-once delivery
by key, a single-use code. Runs stay at one or two per module, with
two machines, two or three threads and one or two rows, because every hazard
listed needs two actors on one row and a third only to clear the way.

## The modules

### Lease

`holders[r]` are the clients working on `r`, `lapsed` the resources whose lease
ran out or was lost while held. A resource gets a second holder only while it is
in `lapsed`, and leaves `lapsed` when nobody holds it any more. There is no clock
and no row in it. `JobRunner` and `Outbox` are shown to implement it, with the
refinement mapping `holders <- [j |-> Holders(j)]`.

### JobRunner

A thread is one execution of `tick` (a member of `Tickers`) or of `runJob` (of
`Runners`), on a machine. `pc` says before which await it stands; `now`, `todo`
and `seen` are the local variables it carries across awaits, stale as they are.

| action | code (`jobs/runner.server.ts`) |
| --- | --- |
| `StartTick`, `Scan` | `tick`: capture `now`; seed, then read the due rows, two steps (75-89) |
| `TickClaim`, `TickSkip`, `EndTick` | the loop and its conditional `updateMany` (93-112) |
| `StartRunNow`, `RunNowRead` (two steps), `RunNowClaim`, `RunNowRefused` | `runJob(name, {force})` (116-146) |
| `Bookkeep`, `BookkeepingLost` | `executeClaimed`: the handler returns or throws, and the write after it (158-210) |
| `Boot`, `SyncRegistry` (seed, then prune), `SyncFails` (at either), `Crash` | `startJobRunner`, `syncJobRegistry`, a machine's death (30-73) |
| `SetConfig` | the edits of the admin page and of the MCP tool |

Time is in minutes. A handler takes as long as it likes: `Advance` is not held
back by running jobs, so leases lapse. A query of a tick or of `runJob` that
throws before the handler runs ends that thread, which holds nothing yet; such a
failure is not modelled, nor is a claim whose answer is lost
(which leaves what `BookkeepingLost` leaves). What a job does, its settings and
`lastStatus`/`lastError`/`lastDurationMs` are left out, nothing else reads them.

### Outbox

A worker is one call of `processOne`: `Claim`, `Read`, then by channel `CheckCap`,
`Send`, `CountUsage`, `SaveSlackTs`, `Upload`, and then `Outcome` or `Fail`. `saw`
is the row as it was read after the claim (attempts, whether the Slack blocks were
posted). `Send` has the provider accept or refuse, and say so or not. The list
of candidates a drain reads first is left out, because a row is taken only if
the claim's own `WHERE` still matches; batch size and concurrency are the number
of workers. `processOne` reads the clock on the line before its claim; the
model takes both to be one moment, so a stall between them, which would only
shorten the lock, is left out. One `LOCK` stands for the setting `lockSeconds`; the retention is
`RETAIN`. `delivered` counts what the provider took, up to two; `doubt` collects
the messages about which the queue could not know.

### Recording

A handler is a sequence of calls still to make, with the copy of the row it
read at its start (`saw`); every call is one action and takes effect on the row
as it is then (`Update` by id, failing where the row is gone or where the partial
unique index on live recordings of one note forbids it). Requests choose their
calls by the copy (`Stop`, `Claim`, `Resume`, `Finish`, `Chunk`, `Result`,
`Discard`, `Create`); the finalizer's tick is modelled as visits, one per row
that a query would have returned, each by its own copy. `StartProcessing` is the
one conditional update, `RecordChunk` the one transaction with a row lock.
Time is what the finalizer compares with: `age[r].idle` (minutes since the last
update, in the steps the queries tell apart), `silent`, `old`, `expired`. Every
chunk has voice in it; ownership and permission checks are left out, and so are
segments and sequence numbers, which only name objects in the bucket. The edits
of a transcript (speakers, notes, tasks) are one action, `Touch`: all they change
here is `updatedAt`, which the finalizer's thresholds are measured from.

### Rooms

A request reads (`saw`), locks rooms one by one (`todo`, `lock`), tests and
writes. What one transaction does between two waits is one step; the lock goes
with the commit. `Taken` is `getRoomSchedule` with the conflict rule, on the rows
as they are or (for an interview) on the snapshot.

| action | code |
| --- | --- |
| `Book`, `WriteBooking` | `createRoomBooking`: lock, test; create, commit |
| `BookForEvent`, `BookNextRoom`, `EventSaved`, `GoogleFails`, `Release`, `RequestDies` | `bookRoomsForEvent`, `claimEventRoomBookings`, `releaseRoomBookings` around the call to Google |
| `Edit`, `LockFirst`, `LockAndTest`, `WriteChange` | `updateRoomBookingAsMember`, with its two locks in order |
| `Extend`, `LockAndTest`, `WriteChange` | `extendRoomBooking` of the door display |
| `Retime`, `RetimeNext`, `WriteChange` | `retimeEventRoomBookings`: all holds tested, then all written |
| `Interview`, `InterviewRoom`, `WriteInterview` | the SERIALIZABLE transactions of hiring; `SerializationFails` is the database's abort |
| `Cancel`, `CancelOne`, `CancelFails` | `cancelRoomBooking`, `releaseEventRoomBookings`: no lock |
| `Meeting`, `WriteMeeting` | `assertMeetingRoomsFree`, and the route's write after it |
| `DeadlockVictim` | Postgres aborts one of two that wait for each other |

An event's key is `"pending"` from its first hold to Google's answer, `"orphan"`
after the request died or threw before it; both are `sourceEventId` null in the
code.
`stale` collects the claims written by what had changed since it was read. Times
are slots and the limits on length and lead are left out, and so are titles,
owners and archived rooms.

### TimeMirror

One entry, because lock and chain are per entry. `chain[m]` are the promises of
machine `m`, the running job first; `ahead[m]` is what a delete on `m` still waits
for. `StartSync` takes the lock and reads the row in one step; `Patch`, `Create`,
`Save` and `Remove` are the calls, and Google may do what it was asked and answer
("ok"), do it without an answer ("lost"), or not do it ("refused"). `TimeOut` ends
the transaction and leaves the call; `TimeOutWaiting` and `DeleteTimesOut` end one
that still waits for the lock. `UpdateUnanswered` and `DeleteUnanswered` are commits
whose answer is lost, so that nothing is queued. `failed`, `lost` and `left` remember what the
code gives up on: the versions, the event ids and the removals nobody retries.

### Enrollment

Every transaction starts by locking the offering's row, so a transaction is one
step (`Submitted`, `decideApplication`, `moveWaitlistEntry`); the read before it is
another (`Submit`, `ReadApplication`), and so is each mail after it (`Tell`).
`was` and `cap` are what the request read. `raced` becomes true when a
transaction writes an application that is no longer as its request read it. The
model starts in every offering at rest whose submission order has the
applications that do not wait first.

### Waitlist

A decision is `Check` (outside the transaction), `Decide` (the transaction has
appended its decision and read the ranks) and `CommitDecision` (the rows whose
rank changes are written). `passed` tells whether decisions were committed since
this one read: none (0), only ones that nothing had passed (1), or one that had
been passed itself (2). `moved` says that a reorder or a new entry was, or a
decision that one of these had passed; the database may abort either transaction
(`Fail`). `Release` is the ordinary release of a cycle's decision: a Waitlisted
one is a new entry with the rank it was given, an Accepted or Rejected one of a
listed applicant takes the entry off without compacting. Left out: a second
release for an applicant who had an entry before, and entries released without a
rank, which compaction skips.

## What is checked

Each run is `tlc -config <cfg> <module>`; `PROJECT.json` names them, and for
every property of a passing run a mutant: the definition of the model a
plausible bug would change, the form it would take, and the run that then fails.

### Runs that pass

- **`job_runner_deploy`**: two machines whose registries differ, a tick on each,
  two jobs, a lease of one minute. `ExclusiveUnlessLapsed`: two runs
  of a job overlap only after a lapse. `ImplementsLease`: the same, as a
  refinement. `SlotServedOnce`: however old its list is, a tick does not start
  a job at a moment that is not later than the last run on record. `TypeOK`.
- **`job_runner_live`**: a tick, a manual run and an operator on one job, on a
  machine that dies up to twice. `DueJobsRun`: a due, enabled job is run in the end.
- **`outbox_mail`**: two e-mails at a cap of one, two workers, over midnight.
  `CapOvershoot`: a day's usage passes its cap by less than the number of
  workers. `TypeOK`.
- **`outbox_thread`**: one Slack thread with a file, two workers on two machines,
  failures, a crash, a retry by the operator, cancels and the janitor.
  `DeliveredOnce`: the blocks are posted once unless there was reason to doubt
  it. `ImplementsLease`. `TerminalStays`: nothing in flight overwrites Sent or
  Canceled while no lock lapses.
- **`outbox_live`**: one message, an e-mail at a cap of one or a Slack thread, two
  workers on two machines of which one has Slack set up, a crash, and a clock
  that never stops. `Settles`: it ends Sent, Canceled or Dead, so every retry,
  deferral and lost lock is followed to its end. The clock goes round:
  `MCOutbox!DayOver` takes a day off every moment of the state when one has
  passed, which no guard can tell, because guards compare moments only with one another
  and with midnight, and nothing is scheduled out of the clock's reach.
- **`recording_race`**: two recordings of one note, two handlers, three requests
  and the finalizer, one error between any two calls. `NoChannelLost`,
  `AudioKept`, `JobComplete`, `TypeOK`.
- **`recording_live`**: one recording, two handlers, three requests, one error.
  `Settles`: once the users and the service are silent the finalizer brings it
  to an end.
- **`rooms`**: two requests at once over two rooms and two claims, in ten mixes
  of operations. `BookingsDisjoint`: two bookings clash only where one writer
  went by what it read before the lock, where a late cancellation gave time back,
  or where a retime met two holds of its event in one room; two interviews clash
  by a late cancellation alone.
  `EventAllOrNone`, `HoldsTogether`: an event's holds are all there, or none, and
  start together. `EditsNeverDeadlock`. `TypeOK`.
- **`time_mirror`**: two machines, three versions of an entry, three events, one
  timeout, one crash. `OneEvent`, `LatestMirrored`, `DeletedUnmirrored`: what
  Google shows is one event, the latest version, or nothing, unless a call outlived
  its lock or the code gave a version, an id or a removal up. `DeleteAnswered`,
  `Drains`: chain, lock and delete never hold each other up. `TypeOK`.
- **`enrollment`**: three applicants, one or two seats, two requests at once, from
  every offering at rest. `SeatsWithinCapacity` and `ToldAtRest` hold in every
  race; `RanksDense`, `SeatRefilledUnlessRaced` and `QueueOrderKept` until a
  transaction writes an application that changed since it was read. `TypeOK`.
- **`waitlist`**: four applicants, one of a cycle only Admins see, two requests at
  once of up to two decisions each, from any ranks, put in order before or not.
  `OrderKept`: a decision keeps order and ties, also when others passed it that
  nothing had passed. `NoGaps`: one that nothing passed closes the gap.
  `TiesResolved`: from a full reorder on there are no ties, until a decision is
  committed that was passed by one that had been passed itself (`outrun`; the code
  does bring ties back then, see the divergences). `TypeOK`.

### The run that finds a disagreement

- **`rooms_interview`** (`RoomHeldOnce`): the header of `lib/rooms.server.ts` says
  that every write goes through one conflict check, serialized per room, "so two
  simultaneous "Book now"s can't both win". An interview's transaction is
  SERIALIZABLE and has read other tables before it takes the room's lock, so its
  schedule is older than the lock: a booking committed in between is not in it,
  and both stand.

### Bounds, and why they are enough

Two machines, two ticks or one tick and one manual run, two workers, two
handlers: every hazard in the list is a race of two actors, with a third step
(time passing, a crash, an operator) that one of the bounds allows. Two jobs let
a tick carry a stale time from one job to the next; two recordings of one note
let one take the other's place. `MaxTime` covers a lease or a lock running out
under a holder and the next holder running out in turn; in `outbox_mail` it
covers midnight, and in `outbox_live` it is only where the clock goes round. `MaxCrashes` (two in `job_runner_live`) and `MaxThrows` of one put a failure at every
await; a second one repeats it. `MaxRequests` of three is a create and two
requests that race, finalizer visits are not counted. `MaxAttempts` of two
distinguishes "try again" from "give up". The counters that stop
at two only tell "none", "one" and "more" apart. Symmetry
is used in the runs without liveness properties.

`Rooms` needs two claims to clash and two requests to race; a third request only
queues at a lock. `Mixes` names which operations may be in flight together (what
came before may be anything), `Slots` the times asked for: adjacent and
overlapping ones. `MaxClock` of two lets a booking be underway, ended, and ended
again; removing either of the last two exceptions of `BookingsDisjoint` gives a
counterexample under these bounds. `TimeMirror` has a
version more than machines, and more events than a duplicate takes. `Enrollment`
bounds the requests (`MaxAsked`) and not what came before them, since it starts in
every state at rest; `Waitlist` likewise, ordered by Core before or not, so that
two requests are enough for two to race on an ordered list, and a bulk removal
lets a decision be passed by two. The exception `outrun` is reached; that it is
enough for every number of applicants and requests is what the proofs show.

`CHECK_DEADLOCK FALSE` is set everywhere: a model ends when its clock reaches
`MaxTime` or its requests are used up, and so it does in the program when
nobody asks for anything.

### Fairness, and why the code justifies it

- `JobRunner`: `setInterval` starts ticks for ever (`StartTick`), every await of a
  started thread returns or throws and handlers return (`Step`), a machine that
  died is restarted by the platform (`Boot`), time passes. Nothing is assumed of
  operators, manual runs or the success of a sync.
- `Outbox`: every call of a worker returns or throws (`Work`; HTTP clients time
  out), a due row is claimed by somebody (`Claim`, weak: the drain job comes
  round every minute, which is what `DueJobsRun` gives), time passes. The two
  steps that stand outside the `try`, the read after the claim and the failure
  handler's update, may fail or find their row gone to another worker any number
  of times, but for no message for ever (strong, per message: `Read` and `Fail`);
  both are one query by primary key. Nothing is assumed of the provider.
- `TimeMirror`: promises are settled and calls to Google end (`StartSync`,
  `StartRemove`, `Calls`), a delete that waits for nothing is served
  (`DeleteRow`). Weak fairness is enough for the lock, because the edits and so the jobs
  are finitely many. `Rooms`, `Enrollment` and `Waitlist` state safety only.
- `Recording`: calls return or throw, the finalizer keeps visiting what its
  queries return, minutes pass. Users and the transcription service owe nothing.

`DueJobsRun` counts only leases that can expire within `MaxTime`, `Settles` of
the queue only rows due within it: what lies beyond the horizon cannot be
followed. Crashes are bounded: with a crash in every run nothing would settle.

## What is proved

`JobRunner_proofs.tla`, for every set of machines, threads and jobs, every
registry, every lease and every bound, from `JobRunnerAssumption` alone:

- `TypeCorrect`: `Spec => []TypeOK`.
- `Exclusion`: `Spec => []ExclusiveUnlessLapsed`. The property is not inductive:
  a claim looks at `lockedUntil` and at its own `now`, and says nothing of other
  threads. `LeaseInv` adds what connects them: while a job has not lapsed, the
  row of whoever runs it exists and carries exactly the expiry `now + LEASE`
  that this thread wrote, the clock has not passed it, and no thread's `now` is
  ahead of the clock. A claim by a second thread needs `lockedUntil` null or
  below its `now`; so its `now` would be ahead of the clock.
- `OneRunPerSlot`: `Spec => SlotServedOnce`, from `SlotInv`: a row is due again
  only after the run it records (`DueAfterLastRun`), and ticks never reach the
  claim of a manual run, which ignores `nextRunAt`. A tick that claims has
  `nextRunAt <= now`, so `lastRunAt < now`.
- `Refinement`: `Spec => ImplementsLease`: the initial state maps to the initial
  state, and every step to an acquisition, a release, a lapse or a stutter. The
  abstract guard "no holder, or lapsed" is `LeaseInv` again; that a resource in
  `lapsed` has a holder is `LapsedHeld`.

`Outbox_proofs.tla`, for every set of messages, workers and machines, every cap,
lock, retention, backoff and bound, from `OutboxAssumption` alone (of which the
cap's theorem needs that the workers are finitely many and at least one):

- `TypeCorrect`: `Spec => []TypeOK`.
- `Finality`: `Spec => TerminalStays`. The outcome of a call is written without a
  condition; that it never meets a final row follows from `LeaseInv`: while a
  message has not lapsed, whoever holds it is alone, the row exists, is Sending,
  and is locked until exactly the moment this worker wrote, which is still to
  come. So a final row has no holder.
- `Refinement`: `Spec => ImplementsLease`, from `LeaseInv` and `LapsedHeldInv`:
  a claim acquires, outcomes and crashes release, time and the janitor expire.
- `Once`: `Spec => []DeliveredOnce`. Inductive only with `DeliveryInv`: what was
  delivered without doubt is on record (Sent, or its blocks saved) or its holder
  is at the very step that records it, and a worker about to send holds a
  message not delivered yet. `LeaseInv` gives that this holder is the only one,
  and `KindInv` that only threads have blocks, so that a retry after the blocks
  goes to the upload. A retry by the operator meets a delivered message only
  with its blocks saved.
- `Capped`: `Spec => []CapOvershoot`. The bound alone is not inductive: `CapInv`
  bounds today's usage together with the e-mails that passed the check and are
  not counted yet, says that days to come are empty, and that nothing is in
  flight under a cap of zero; over midnight those in flight are at most as many
  as the workers.

`Recording_proofs.tla`, for every set of recordings, documents and handlers and
every bound, from `RecordingAssumption` alone:

- `TypeCorrect`, `ChannelsKept`, `AudioIsKept` and `JobsComplete`: the four
  invariants of the runs. The inductive invariant is `IInv`. What makes the
  interleavings harmless is said of the calls a handler has still to make, not of
  what it did: they are in an order the code can produce (`Ordered`), a handler
  with calls to make has a recording, and the one that records a chunk has its
  channel (`Handled`). `Spared` then says that audio is deleted only of a recording that
  has ended and that a chunk is recorded only where its audio is, or after the
  end; `AudioOfAll` and `StoredOfAll` tie the row's channels to the bucket; `Heard`
  carries a channel from the claim of a row over the fresh read to the dispatch.

`Waitlist_proofs.tla`, for every finite set of applicants, every set of requests,
every list to begin with and every bound, from `WaitlistAssumption` alone:

- About `compactRanks` (`Compacted`): a rank never grows; ties stay ties; ranks in
  use keep their order and come no further apart than they were read; the ranks
  in use become 1, 2, and so on. The last two are counting arguments
  (`BelowOrder`, `BelowDense`).
- `DecisionKeepsOrder`: `Spec => OrderKept`, and with it `TiesStayResolved`
  (`[]TiesResolved`). The inductive part is `Shifted`: what a decision read, if
  only decisions passed it that nothing had passed, is in the order of the table
  and nowhere below it. Of two entries, one written and one left alone because
  its rank was already the new one, the second cannot be the higher, because
  compaction brings ranks no further apart; and if it is the lower it was never
  above what was read. `Shifted` outlives any number of such decisions, since
  each of them only moves ranks down and in order.
- `DecisionClosesGap`: `Spec => NoGaps`, from `Fresh`: what a transaction that
  nothing overtook read is what the table holds. `TypeCorrect`: `Spec => []TypeOK`.

Both stop where the code does: a decision passed by one that had been passed
itself (`passed` is 2) may change the order and bring ties back, which the attempt
to prove them without that exception showed, and the divergences below spell out.

`TimeMirror_proofs.tla`, for every set of machines and any number of versions,
events, crashes and timeouts, from `TimeMirrorAssumption` alone:

- `TypeCorrect`, `EventIsOne` (`[]OneEvent`), `LatestIsMirrored` and
  `DeletedIsUnmirrored`. `Locked` says what the lock is worth while no call
  outlives its transaction: whoever runs has it, the row it read is the row but
  for its version, and if the version has moved on there is a job to come for it
  or one that came to nothing (`Outstanding`). `Known`: an event whose id is not
  lost is the row's or on its way to it; `Mirrored`: with nothing outstanding the
  event shows the version; `Unmirrored`: an event of a deleted entry has a removal
  to come, or is accounted for.

`Enrollment_proofs.tla`, for every finite set of applicants, every set of requests
and of capacities and every bound, from `EnrollmentAssumption` alone:

- `RanksStayDense` (`[]RanksDense`). That ranks are 1, 2, ... says nothing about
  the greatest one, which is where a submit joins; `Lined` says the line is
  numbered 1 to some `n` (`Numbered`), and counting makes it the same
  (`NumberedDense`, in both directions). Leaving a numbered line closes the gap
  (`NumberedLeave`), joining takes `n + 1` (`NumberedJoin`), and a decision is at
  most a leaving or a joining followed by the leaving of the promoted one
  (`DecidedLine`). `Asked` says what a request waiting for the lock has read: in
  an unraced step its copy is the row. After a race ranks may exceed the number
  of applicants, so `Bounded` keeps the one fact that never fails: there is a
  greatest rank.
- `QueueStaysInOrder` (`Spec => QueueOrderKept`): closing a gap keeps the order
  of ranks that differ from the one that left.
- `SeatsStayWithin` (`Spec => SeatsWithinCapacity`): every writer that seats
  somebody counts the seats in its own transaction and compares with the capacity
  its request read; it seats one, or as many as are free, so nobody else's stale
  capacity matters.
- `SeatsAreRefilled` (`Spec => SeatRefilledUnlessRaced`): the promotion that
  follows a freed seat takes the least rank of those who were waiting.
- `EverybodyIsTold` (`[]ToldAtRest`), from `Informed`: an outcome is mailed already,
  or is among the mails of a request under way. A mail to a promoted applicant is
  sent only if they are still approved, and whoever changed them has a mail of its
  own. `TypeCorrect`: `Spec => []TypeOK`.

`Rooms_proofs.tla`, for every finite set of rooms and of claims, every set of
requests, every slot, step and mix, from `RoomsAssumption` alone. Each stage of the
invariant rests on the ones before:

- `Base`, for `TypeCorrect` (`[]TypeOK`): every live row is in a room, and where a
  request is says what it carries (`Shape`, `Carries`, `Waits`): an edit about to
  write carries one claim and a room, a retime the rooms it has still to lock.
  `BaseHolds` proves it of every step of every request.
- `HasLocks`, for `NoEditsDeadlock` (`[]EditsNeverDeadlock`): who is about to write
  has the lock of the room it writes in, a retime those of all the rooms it has
  tested, and the lock an edit holds is below the one it waits for (`InOrder`), so
  that two edits would each wait for a room above the other's.
- `Owned`, for `EventHoldsKept` (`[]EventAllOrNone`). That a hold is in somebody's
  hands is lost if another request can take it for its own: `Rows` says which rows a
  request can have, `Apart` that no two which book share one, `Releases` what an
  interview leaves of the bookings in its way. `Effects` lists, once for all
  writes, what can become of a claim; the later stages argue from that list.
- `Gathered`, for `EventHoldsTogether` (`[]HoldsTogether`): while an event is being
  saved its holds are the request's (`Gathers`), in different rooms and with one
  start, save those an edit touched; from then on a retime moves all of them or
  none.
- `Scheduled`, for `NoUnexplainedClash` (`[]BookingsDisjoint`). What a request has
  tested stays clear until it writes (`Tested`) because everybody else writes, in
  that room, under the lock it holds (`StandingTested`); cancellations, which take
  no lock, only end a claim sooner, unless they come late. So a sound claim clashes
  with none (`SoundApart`). Interviews test a snapshot instead: of two that clash,
  the second to commit finds a row it read changed, or a new one, and is aborted
  (`InterviewsApart`). `stale`, `late` and `loose` collect the claims the code does
  write untested, and the property names them: the proof did not go through with
  fewer.

Only model-checked: liveness (`DueJobsRun`, both `Settles`, `DeleteAnswered`,
`Drains`), which is out of TLAPS's reach under fairness. `RoomHeldOnce` of `Rooms`
does not hold: a run finds it violated.

## Divergences seen without a run

Met while modelling, each reproduced with a property that is not kept, most
because no line promises the opposite, some because one run per question is
enough for a component.

Job runner and queue:

- "Run now" on a fresh database seeds a job with the column's default, enabled,
  although the registry may have it off by default (`jobs/runner.server.ts:125`).
- A job can be given a `lastSuccessAt` older than the row's: the row is read
  before the claim, and another run can complete in between
  (`jobs/runner.server.ts:87`, used at 168). Every job that works from the cursor
  has a dedup key of its own. The daily cap likewise is a soft one.
- The janitor deletes finished rows and with them the claim on their dedup key
  (`jobs/retention-janitor.server.ts:64`); a trigger re-fired after the retention
  sends again. A sender that outlives its lock shares its row with the next one
  (this is what `doubt` and `lapsed` in `Outbox` account for).
- Attempts are counted by `handleFailure` alone: a row whose sender crashes every
  time is tried without limit.

Recordings:

- The finalizer's "Retry once" dispatches nothing, because the claim it calls
  refuses a Processing row (`jobs/recording-finalizer.server.ts:61`).
- "Further callbacks are no-ops" (`lib/meeting-recording.server.ts:416`) holds for
  the copy the callback read, not for the row it writes. Likewise a finish that
  arrives after the transcription turns Done into Stopped or Failed.
- Two stops of one resumed recording dispatch two jobs, where the comment at
  `lib/meeting-recording.server.ts:354` says "exactly one": the first step of the
  second one undoes the claim of the first (256).
- A recording that ended without audio is "a terminal state", but its row still
  counts as the note's live one (`lib/meeting-recording.server.ts:402`).
- A chunk put while the recording is finalized empty or discarded leaves an
  object in the bucket that no query finds.
- A recording marked Failed before it was finalized is in none of the
  finalizer's queries; its audio waits for the next attempt or for a sweep at
  the owner's next recording. Resuming does not count against the limit of live
  recordings.

Rooms and time entries:

- A meeting's room is checked without a lock and written later
  (`calendar/routes/api.scheduled-meetings.ts:120`): a booking made in between
  stands beside it. `BookingsDisjoint` therefore speaks of bookings.
- An extension adds its minutes to the end read before the lock, and a retime
  tests the rooms read before it; an edit that commits first makes either write
  what was not tested (`stale`).
- A cancel that races a retime can end a booking before it starts. Of two cancels
  of one booking the slower one moves its end again, to its own `now`
  (`lib/rooms.server.ts:551`, on the row read before), over whatever was booked in
  the time the first one freed (`late`).
- A booking of a later room that throws (instead of being refused) and a throw of
  `claimEventRoomBookings` leave the rooms booked so far held for no event
  (`lib/rooms.server.ts:511`, `calendar/routes/calendar.server.ts:1088`); so does a
  request that dies (`RequestDies` is all three, and `EventAllOrNone` excuses it).
- A retime tests every hold but with only that hold taken out of the schedule
  (`lib/rooms.server.ts:1085`), and then writes them all: two holds of one event
  that an edit brought into one room, at different times, end on top of each
  other.
- A mirror lock that times out under a slow call lets a second job insert a
  second event, which the comment at `lib/time-entries.server.ts:58` rules out
  (`slipped`). A create whose answer is lost is repeated by the next edit. An
  edit or a delete whose commit is done but not confirmed queues no job, so the event
  keeps the old version, or stays (`lib/time-entries.server.ts:176`, 201).

Education and hiring:

- A withdrawal or a decision that read the application before a promotion
  committed frees the seat without refilling it, while people wait
  (`education/lib/decisions.server.ts:36`, against the comments at 22 and 88), and
  compacts by a rank that is no longer the applicant's.
- A resubmission that read Submitted puts an application approved meanwhile back
  to Submitted (`education/lib/apply.server.ts:155`); "approve all pending" approves
  those who withdrew after its list was read.
- A promotion is mailed as one even if the applicant was rejected by then, and the
  mail's dedup key drops an outcome that is reached a second time.
- Two accepts, or an accept and a removal, of one hiring applicant both commit
  (`hiring/lib/waitlist.server.ts:300`): the later decision is the one that counts.
- Two removals that overlap leave a gap in the ranks. Where one passes another
  that had been passed itself (`outrun`), the order is not kept, against
  `hiring/lib/waitlist.server.ts:171`: of a 1, b 2, w 3, x 4, z 5, y 6, the removal
  of w reads; a and b are removed; the removal of z reads w 1, x 2, z 3, y 4; the
  first writes x 3, z 4, y 5, then the second y 3: x and y share a rank in a list
  that Core had put in order.
- A reorder that races an accept mixes the two numberings, until the next reorder.
  An Accepted or Rejected decision released by its cycle for a listed applicant
  leaves a gap until the next decision
  (`hiring/routes/api.decisions.$id.release.ts:147`).
