----------------------------- MODULE Recording -----------------------------
(***************************************************************************)
(* Meeting recordings (app/lib/meeting-recording.server.ts, the routes     *)
(* api.meeting-recordings*.ts and jobs/recording-finalizer.server.ts).     *)
(*                                                                         *)
(* Every request reads the MeetingRecording row, decides by what it read,  *)
(* and then makes one call after the other: updates of the row, uploads    *)
(* and deletions in S3, the dispatch of a transcription job.  Only         *)
(* startProcessing's claim, recordChunk's transaction and the partial      *)
(* unique index look at the row as it is when they write; every other      *)
(* update goes by the copy read at the start.  A handler is therefore the  *)
(* list of calls it has still to make, and calls of different handlers     *)
(* interleave: the page, the desktop app, an editor, the transcription     *)
(* service's callback, and the finalizer job's visits to a row.            *)
(*                                                                         *)
(* A chunk here is one with voice in it: a silent channel is sent only     *)
(* where every channel is silent.  Time is what the finalizer's queries    *)
(* compare with: since the last update, since the last chunk, since        *)
(* creation, since finalizing.                                             *)
(***************************************************************************)
EXTENDS Naturals, Sequences, FiniteSets

CONSTANTS Recs,        \* recordings that may be created
          DocOf,       \* DocOf[r]: the note r is recorded into
          OwnerOf,     \* OwnerOf[r]: the user who records r
          Channels,    \* "mic", "call"
          Handlers,    \* requests and finalizer visits under way at once
          MaxActive,   \* MAX_ACTIVE_RECORDINGS
          MaxRequests, \* bound: requests in all
          MaxThrows,   \* bound: handlers cut short by an error or a crash
          NoRec, NoChannel \* what a free handler is about

ASSUME RecordingAssumption ==
    /\ MaxActive \in Nat \ {0}
    /\ MaxRequests \in Nat /\ MaxThrows \in Nat
    /\ NoRec \notin Recs /\ NoChannel \notin Channels

VARIABLES exists,   \* recordings with a row
          created,  \* history: ids handed out
          row,      \* the rows
          age,      \* what time has made of them
          audio,    \* recordings with chunks in S3
          todo,     \* todo[h]: the calls handler h has still to make
          rec,      \* rec[h]: the recording it is about
          saw,      \* saw[h]: the copy of the row it read
          chan,     \* chan[h]: the channel of the chunk it carries
          swept,    \* swept[h]: the stale rows its create found
          requests, throws,
          stored,   \* history: channels whose chunk was recorded
          jobs,     \* recordings the service has taken a job for
          heard,    \* history: channels stored when h claimed the row
          deleting  \* history: recordings whose deletion began

handlerVars == <<todo, rec, saw, chan, swept>>
history == <<created, stored, jobs, deleting>>
vars == <<exists, row, age, audio, handlerVars, requests, throws, history, heard>>

Status == {"Pending", "Recording", "Stopped", "Processing", "Done", "Failed"}
Active == {"Pending", "Recording", "Stopped", "Processing"}

\* Mutant: the column's default is forgotten.
RowWithoutStatus == [status |-> "Unset", channels |-> {}, finalized |-> FALSE,
                     retried |-> FALSE, audioDeleted |-> FALSE]

\* retried is error = RETRY_PENDING_MARKER, finalized is finalizedAt # null;
\* stopRequested decides nothing here: it is only shown to the clients.
NewRow == [status |-> "Pending", channels |-> {}, finalized |-> FALSE,
           retried |-> FALSE, audioDeleted |-> FALSE]

\* idle: 1 from 10 minutes after the last update, 2 from 30; silent: 10 minutes
\* from the last chunk; old, expired: a day from creation, from finalizing.
Young == [idle |-> 0, silent |-> FALSE, old |-> FALSE, expired |-> FALSE]

Init ==
    /\ exists = {} /\ created = {}
    /\ row = [r \in Recs |-> NewRow]
    /\ age = [r \in Recs |-> Young]
    /\ audio = {}
    /\ todo = [h \in Handlers |-> <<>>]
    /\ rec = [h \in Handlers |-> NoRec]
    /\ saw = [h \in Handlers |-> NewRow]
    /\ chan = [h \in Handlers |-> NoChannel]
    /\ swept = [h \in Handlers |-> {}]
    /\ requests = 0 /\ throws = 0
    /\ stored = [r \in Recs |-> {}]
    /\ jobs = {}
    /\ heard = [h \in Handlers |-> {}]
    /\ deleting = {}

-----------------------------------------------------------------------------
(* A handler starts: it reads the row and decides what to do.               *)

Free(h) == todo[h] = <<>>

\* A finished handler forgets what it knew.
Forget(h, calls) ==
    IF calls = <<>>
    THEN /\ rec' = [rec EXCEPT ![h] = NoRec]
         /\ saw' = [saw EXCEPT ![h] = NewRow]
         /\ chan' = [chan EXCEPT ![h] = NoChannel]
         /\ swept' = [swept EXCEPT ![h] = {}]
    ELSE UNCHANGED <<rec, saw, chan, swept>>

Begin(h, r, calls) ==
    /\ Free(h) /\ r \in exists /\ calls # <<>>
    /\ todo' = [todo EXCEPT ![h] = calls]
    /\ rec' = [rec EXCEPT ![h] = r]
    /\ saw' = [saw EXCEPT ![h] = row[r]]

Request == requests < MaxRequests /\ requests' = requests + 1

Unread == UNCHANGED <<exists, row, age, audio, throws, created, stored, jobs>>

\* What is left of a recording that ends: its audio goes to the job, or there
\* is none.
Process(s) ==
    IF s.channels # {} THEN <<"startProcessing">> ELSE <<"finalizeEmpty", "deletePrefix">>

\* POST .../:id {stop}, by the owner or an editor, final or not.
Stop(h, r, final) ==
    /\ ~row[r].finalized /\ row[r].status \notin {"Processing", "Done"}
    /\ Request
    /\ Begin(h, r, <<"requestStop">> \o (IF final THEN Process(row[r]) ELSE <<>>))
    /\ UNCHANGED <<chan, swept, deleting>> /\ Unread

\* {claim}: a session already Recording is not written again.
Claim(h, r) ==
    /\ row[r].status = "Pending"
    /\ Request
    /\ Begin(h, r, <<"claim">>)
    /\ UNCHANGED <<chan, swept, deleting>> /\ Unread

\* {resume}
Resume(h, r) ==
    /\ row[r].status = "Stopped" /\ ~row[r].finalized
    /\ Request
    /\ Begin(h, r, <<"resume">>)
    /\ UNCHANGED <<chan, swept, deleting>> /\ Unread

\* {finish}: the recorder has exited, cleanly or not.  No status is refused.
Finish(h, r, error) ==
    /\ Request
    /\ Begin(h, r, IF error THEN <<"finishFailed">> ELSE <<"finish">>)
    /\ UNCHANGED <<chan, swept, deleting>> /\ Unread

\* POST .../chunks
Chunk(h, r, c) ==
    /\ ~row[r].finalized /\ row[r].status \notin {"Processing", "Done", "Failed"}
    /\ Request
    /\ Begin(h, r, <<"putChunk", "recordChunk">>)
    /\ chan' = [chan EXCEPT ![h] = c]
    /\ UNCHANGED <<swept, deleting>> /\ Unread

\* POST .../result: the callback of a job, which may come late or again.
Result(h, r, error) ==
    /\ r \in jobs /\ row[r].status # "Done"
    /\ Request
    /\ Begin(h, r, IF error THEN <<"jobFailed">> ELSE <<"jobDone">>)
    /\ UNCHANGED <<chan, swept, deleting>> /\ Unread

\* DELETE
Discard(h, r) ==
    /\ Request
    /\ Begin(h, r, <<"deletePrefix", "deleteRow">>)
    /\ deleting' = deleting \cup {r}
    /\ UNCHANGED <<chan, swept>> /\ Unread

Stale(r) == {q \in exists : OwnerOf[q] = OwnerOf[r] /\ ~row[q].finalized /\ age[q].old}

\* POST: the owner's stale rows are swept before the new one is written.  The loop
\* over their audio is one step: all of them count as being deleted from the start,
\* and with two recordings in an instance there is one such row at most.
Create(h, r) ==
    /\ Free(h) /\ r \notin created
    /\ Request
    /\ created' = created \cup {r}
    /\ todo' = [todo EXCEPT ![h] =
                  (IF Stale(r) = {} THEN <<>> ELSE <<"sweepAudio", "sweepRows">>)
                    \o <<"countActive", "insert">>]
    /\ rec' = [rec EXCEPT ![h] = r]
    /\ swept' = [swept EXCEPT ![h] = Stale(r)]
    /\ deleting' = deleting \cup Stale(r)
    /\ UNCHANGED <<exists, row, age, audio, throws, saw, chan, stored, jobs>>

-----------------------------------------------------------------------------
(* The finalizer visits a row that one of its five queries found.           *)

Abandoned(r) == /\ row[r].status = "Recording"
                /\ IF row[r].channels # {} THEN age[r].silent ELSE age[r].idle >= 1

\* Mutant: a row already retried is retried again.
RetryAlways(r) == <<"markRetry", "startProcessing">>

RetryOrFail(r) == IF row[r].retried THEN <<"timedOut">> ELSE <<"markRetry", "startProcessing">>

\* What the branch that r matches does; <<>> if it matches none.
Branch(r) ==
    LET s == row[r] IN
    CASE Abandoned(r) -> Process(s)
      [] s.status = "Processing" /\ age[r].idle = 2 -> RetryOrFail(r)
      [] s.status = "Pending" /\ age[r].idle = 2 ->
           IF s.channels # {} THEN <<"startProcessing">> ELSE <<"deletePrefix", "deleteRow">>
      [] s.status = "Stopped" /\ ~s.finalized /\ age[r].idle = 2 -> Process(s)
      [] OTHER -> <<>>

Visit(h, r) ==
    /\ Begin(h, r, Branch(r))
    /\ deleting' = IF "deleteRow" \in {Branch(r)[i] : i \in DOMAIN Branch(r)}
                   THEN deleting \cup {r} ELSE deleting
    /\ UNCHANGED <<chan, swept, requests>> /\ Unread

\* Its fifth query, whose rows may match another one as well.
VisitExpired(h, r) ==
    /\ row[r].finalized /\ age[r].expired /\ ~row[r].audioDeleted
    /\ Begin(h, r, <<"deletePrefix", "stampDeleted">>)
    /\ UNCHANGED <<chan, swept, requests, deleting>> /\ Unread

-----------------------------------------------------------------------------
(* A handler makes its next call.                                           *)

Next1(h, call) == todo[h] # <<>> /\ Head(todo[h]) = call
Go(h, calls) == todo' = [todo EXCEPT ![h] = calls] /\ Forget(h, calls)
Rest(h) == Tail(todo[h])

\* MeetingRecording_activeDocument_key: the partial unique index refuses a second
\* active recording of one note (prisma/schema.prisma:2291-2294).
Clash(r, s) == s \in Active /\ \E q \in exists \ {r} :
                    DocOf[q] = DocOf[r] /\ row[q].status \in Active

\* The writes that set finalizedAt anew.
Dates(h) ==
    \/ Next1(h, "finalizeEmpty") \/ Next1(h, "notConfigured")
    \/ ~saw[h].finalized /\ (Next1(h, "jobDone") \/ Next1(h, "jobFailed") \/ Next1(h, "timedOut"))

\* An update by id: it throws where the row is gone or the index forbids it.
Update(h, new, calls) ==
    LET r == rec[h] IN
    IF r \in exists /\ ~Clash(r, new.status)
    THEN /\ row' = [row EXCEPT ![r] = new]
         /\ age' = [age EXCEPT ![r].idle = 0,
                               ![r].expired = @ /\ ~Dates(h)]
         /\ Go(h, calls)
    ELSE UNCHANGED <<row, age>> /\ Go(h, <<>>)

Elsewhere == UNCHANGED <<exists, audio, requests, throws, history>>
Mine(h) == row[rec[h]]

Stopped(h) == IF saw[h].status = "Pending" THEN [Mine(h) EXCEPT !.status = "Stopped"] ELSE Mine(h)

RequestStop(h) == Next1(h, "requestStop") /\ Update(h, Stopped(h), Rest(h)) /\ Elsewhere

ClaimRow(h) ==
    /\ Next1(h, "claim")
    /\ Update(h, [Mine(h) EXCEPT !.status = "Recording"], Rest(h)) /\ Elsewhere

ResumeRow(h) ==
    /\ Next1(h, "resume")
    /\ Update(h, [Mine(h) EXCEPT !.status = "Pending", !.retried = FALSE], Rest(h)) /\ Elsewhere

FinishRow(h) ==
    \/ /\ Next1(h, "finish")
       /\ Update(h, [Mine(h) EXCEPT !.status = "Stopped"], Rest(h)) /\ Elsewhere
    \/ /\ Next1(h, "finishFailed")
       /\ Update(h, [Mine(h) EXCEPT !.status = "Failed", !.retried = FALSE], Rest(h)) /\ Elsewhere

\* startProcessing: the claim is a conditional update ...
StartProcessing(h) ==
    /\ Next1(h, "startProcessing")
    /\ IF rec[h] \in exists /\ Mine(h).status \notin {"Processing", "Done"} /\ ~Mine(h).finalized
       THEN Update(h, [Mine(h) EXCEPT !.status = "Processing"], <<"readJob">>)
       ELSE UNCHANGED <<row, age>> /\ Go(h, <<>>)
    /\ Elsewhere

\* Mutant: the job is built from the copy read at the start.
JobFromCopy(h) == saw[h]

\* ... and the job is built from a fresh read.
JobRow(h) == Mine(h)

ReadJob(h) ==
    /\ Next1(h, "readJob")
    /\ IF rec[h] \in exists
       THEN /\ saw' = [saw EXCEPT ![h] = JobRow(h)]
            /\ todo' = [todo EXCEPT ![h] = <<"dispatch">>]
            /\ UNCHANGED <<rec, chan, swept>>
       ELSE Go(h, <<>>)
    /\ UNCHANGED <<row, age>> /\ Elsewhere

\* Mutant: the audio of a job that was not taken is deleted.
AudioGone == <<"failDispatch", "deletePrefix">>

\* It is kept for another try.
NotTaken == <<"failDispatch">>

\* The provider may be missing, refuse, or accept without saying so.
Dispatch(h, accepted, answered) ==
    /\ Next1(h, "dispatch")
    /\ jobs' = IF accepted THEN jobs \cup {rec[h]} ELSE jobs
    /\ \/ Go(h, IF accepted /\ answered THEN <<>> ELSE NotTaken)
       \/ ~accepted /\ ~answered /\ Go(h, <<"notConfigured", "deletePrefix">>)
    /\ UNCHANGED <<exists, row, age, audio, requests, throws, created, stored, deleting>>

\* failRecording, with and without keepAudio.
FailRecording(h) ==
    \/ /\ Next1(h, "failDispatch")
       /\ Update(h, [Mine(h) EXCEPT !.status = "Failed", !.retried = FALSE], Rest(h)) /\ Elsewhere
    \/ /\ Next1(h, "notConfigured")
       /\ Update(h, [Mine(h) EXCEPT !.status = "Failed", !.retried = FALSE, !.finalized = TRUE],
                 Rest(h))
       /\ Elsewhere

FinalizeEmpty(h) ==
    /\ Next1(h, "finalizeEmpty")
    /\ Update(h, [Mine(h) EXCEPT !.status = "Stopped", !.finalized = TRUE], Rest(h)) /\ Elsewhere

\* applyResult: by a callback, and by the finalizer after the second timeout.
ApplyResult(h) ==
    \/ /\ Next1(h, "jobDone")
       /\ Update(h, [Mine(h) EXCEPT !.status = "Done", !.retried = FALSE, !.finalized = TRUE],
                 Rest(h))
       /\ Elsewhere
    \/ /\ Next1(h, "jobFailed") \/ Next1(h, "timedOut")
       /\ Update(h, [Mine(h) EXCEPT !.status = "Failed", !.retried = FALSE, !.finalized = TRUE],
                 Rest(h))
       /\ Elsewhere

MarkRetry(h) ==
    /\ Next1(h, "markRetry")
    /\ Update(h, [Mine(h) EXCEPT !.retried = TRUE], Rest(h)) /\ Elsewhere

StampDeleted(h) ==
    /\ Next1(h, "stampDeleted")
    /\ Update(h, [Mine(h) EXCEPT !.audioDeleted = TRUE], Rest(h)) /\ Elsewhere

PutChunk(h) ==
    /\ Next1(h, "putChunk")
    /\ audio' = audio \cup {rec[h]}
    /\ Go(h, Rest(h))
    /\ UNCHANGED <<exists, row, age, requests, throws, history>>

\* Mutant: the caller's copy is written back with the new channel.
FromCopy(h) == saw[h].channels

\* recordChunk locks the row and goes by what it then reads.
FromLockedRow(h) == Mine(h).channels

RecordChunk(h) ==
    LET r == rec[h]
        status == IF Mine(h).status = "Pending" THEN "Recording" ELSE Mine(h).status
    IN /\ Next1(h, "recordChunk")
       /\ IF r \in exists
          THEN /\ row' = [row EXCEPT ![r].status = status,
                                     ![r].channels = FromLockedRow(h) \cup {chan[h]}]
               /\ age' = [age EXCEPT ![r].idle = 0, ![r].silent = FALSE]
               /\ stored' = [stored EXCEPT ![r] = @ \cup {chan[h]}]
          ELSE UNCHANGED <<row, age, stored>>
       /\ Go(h, Rest(h))
       /\ UNCHANGED <<exists, audio, requests, throws, created, jobs, deleting>>

DeletePrefix(h) ==
    /\ Next1(h, "deletePrefix") \/ Next1(h, "sweepAudio")
    /\ audio' = audio \ (IF Next1(h, "sweepAudio") THEN swept[h] ELSE {rec[h]})
    /\ Go(h, Rest(h))
    /\ UNCHANGED <<exists, row, age, requests, throws, history>>

DeleteRow(h) ==
    /\ Next1(h, "deleteRow") \/ Next1(h, "sweepRows")
    /\ exists' = exists \ (IF Next1(h, "sweepRows") THEN swept[h] ELSE {rec[h]})
    /\ Go(h, Rest(h))
    /\ UNCHANGED <<row, age, audio, requests, throws, history>>

Live == {r \in exists : row[r].status \in {"Pending", "Recording"}}

CountActive(h) ==
    /\ Next1(h, "countActive")
    /\ Go(h, IF Cardinality(Live) >= MaxActive THEN <<>> ELSE Rest(h))
    /\ UNCHANGED <<row, age>> /\ Elsewhere

\* A live recording of the note, found by the query or by the index, wins.
Insert(h) ==
    /\ Next1(h, "insert")
    /\ exists' = IF Clash(rec[h], "Pending") THEN exists ELSE exists \cup {rec[h]}
    /\ Go(h, <<>>)
    /\ UNCHANGED <<row, age, audio, requests, throws, history>>

\* An error, or a machine that dies: the rest of the calls is not made.
Throw(h) ==
    /\ ~Free(h) /\ throws < MaxThrows
    /\ throws' = throws + 1
    /\ Go(h, <<>>)
    /\ UNCHANGED <<exists, row, age, audio, requests, history>>

-----------------------------------------------------------------------------
(* The service reports progress, an editor edits; time passes.              *)

Progress(r) ==
    /\ r \in exists /\ r \in jobs /\ row[r].status = "Processing" /\ age[r].idle > 0
    /\ Request
    /\ age' = [age EXCEPT ![r].idle = 0]
    /\ UNCHANGED <<exists, row, audio, handlerVars, throws, history>>

\* {speakers}, {inserted}, {enhanced}, {reviewed}, {createTasks}, {capture}: no
\* column read here changes, but updatedAt does, in whatever state the row is.
Touch(r) ==
    /\ r \in exists /\ age[r].idle > 0
    /\ Request
    /\ age' = [age EXCEPT ![r].idle = 0]
    /\ UNCHANGED <<exists, row, audio, handlerVars, throws, history>>

Idle(r) ==
    /\ r \in exists /\ age[r].idle < 2
    /\ age' = [age EXCEPT ![r].idle = @ + 1, ![r].silent = TRUE]
    /\ UNCHANGED <<exists, row, audio, handlerVars, requests, throws, history>>

Age(r) ==
    /\ r \in exists
    /\ \/ ~age[r].silent /\ age' = [age EXCEPT ![r].silent = TRUE]
       \/ ~age[r].old /\ age' = [age EXCEPT ![r].old = TRUE]
       \/ row[r].finalized /\ ~age[r].expired /\ age' = [age EXCEPT ![r].expired = TRUE]
    /\ UNCHANGED <<exists, row, audio, handlerVars, requests, throws, history>>

Arrive(h, r) ==
    \/ \E flag \in BOOLEAN : Stop(h, r, flag) \/ Finish(h, r, flag) \/ Result(h, r, flag)
    \/ \E c \in Channels : Chunk(h, r, c)
    \/ Claim(h, r) \/ Resume(h, r) \/ Discard(h, r) \/ Create(h, r)

Call(h) ==
    \/ RequestStop(h) \/ ClaimRow(h) \/ ResumeRow(h) \/ FinishRow(h)
    \/ StartProcessing(h) \/ ReadJob(h) \/ FailRecording(h) \/ FinalizeEmpty(h) \/ ApplyResult(h)
    \/ \E accepted, answered \in BOOLEAN : Dispatch(h, accepted, answered)
    \/ MarkRetry(h) \/ StampDeleted(h) \/ PutChunk(h) \/ RecordChunk(h)
    \/ DeletePrefix(h) \/ DeleteRow(h) \/ CountActive(h) \/ Insert(h)

Act ==
    \/ \E h \in Handlers, r \in Recs : Arrive(h, r) \/ Visit(h, r) \/ VisitExpired(h, r)
    \/ \E h \in Handlers : Call(h) \/ Throw(h)
    \/ \E r \in Recs : Progress(r) \/ Touch(r) \/ Idle(r) \/ Age(r)

Made(h, call) == Next1(h, call) /\ todo'[h] # todo[h]

History ==
    heard' = [h \in Handlers |->
                CASE todo'[h] = <<>> -> {}
                  [] Made(h, "startProcessing") /\ todo'[h] # <<>> -> stored[rec[h]]
                  [] OTHER -> heard[h]]

Next == Act /\ History

Spec == Init /\ [][Next]_vars

\* Calls return or throw; the job runner calls the finalizer every five
\* minutes; time passes.  Users and the transcription service owe nothing.
Fairness ==
    /\ \A h \in Handlers : WF_vars(Call(h) /\ History)
    /\ \A r \in Recs : WF_vars((\E h \in Handlers : Visit(h, r)) /\ History)
                       /\ WF_vars(Idle(r) /\ History)

FairSpec == Spec /\ Fairness
-----------------------------------------------------------------------------
RowType == [status : Status, channels : SUBSET Channels, finalized : BOOLEAN,
            retried : BOOLEAN, audioDeleted : BOOLEAN]

TypeOK ==
    /\ exists \subseteq created /\ created \subseteq Recs
    /\ row \in [Recs -> RowType]
    /\ age \in [Recs -> [idle : 0..2, silent : BOOLEAN, old : BOOLEAN, expired : BOOLEAN]]
    /\ audio \subseteq Recs
    /\ rec \in [Handlers -> Recs \cup {NoRec}]
    /\ saw \in [Handlers -> RowType]
    /\ chan \in [Handlers -> Channels \cup {NoChannel}]
    /\ swept \in [Handlers -> SUBSET Recs]
    /\ requests \in Nat /\ throws \in Nat
    /\ stored \in [Recs -> SUBSET Channels]
    /\ jobs \subseteq Recs
    /\ heard \in [Handlers -> SUBSET Channels]
    /\ deleting \subseteq Recs

\* A recording with chunks that is neither finalized nor being deleted still has
\* its audio, so that it can be transcribed or tried again
\* (meeting-recording.server.ts:375-377).
AudioKept ==
    \A r \in exists \ deleting : row[r].channels # {} /\ ~row[r].finalized => r \in audio

\* Mic and call chunks land together on different machines and neither
\* channel's entry is lost (meeting-recording.server.ts:214-217).
NoChannelLost == \A r \in exists : stored[r] \subseteq row[r].channels

\* A job has every channel recorded before its claim, whatever the request
\* that dispatches it had read (meeting-recording.server.ts:356-357).
JobComplete ==
    \A h \in Handlers : Next1(h, "dispatch") => heard[h] \subseteq saw[h].channels

\* Once users and the service fall silent, a recording that is not finalized does
\* not stay live: it ends as Done, Failed or finalized, or is deleted.
Unsettled(r) == r \in exists /\ row[r].status \in Active /\ ~row[r].finalized

Settles == \A r \in Recs : Unsettled(r) ~> ~Unsettled(r)
=============================================================================
