------------------------------ MODULE TimeMirror ------------------------------
(***************************************************************************)
(* The Google mirror of one time entry (app/lib/time-entries.server.ts and *)
(* timesheet-mirror.server.ts).                                            *)
(*                                                                         *)
(* Every write of an entry queues a job that brings the member's Timesheet *)
(* calendar in line with the row as it is when the job runs.  Jobs of one  *)
(* machine run in a chain of promises; those of two machines are kept      *)
(* apart by an advisory lock, held by a transaction that times out, while  *)
(* the job in it makes a call to Google that does not.                     *)
(*                                                                         *)
(* Lock and chain are per entry, so one entry is all there is here.        *)
(* Taking the lock and the read right after it are one step.               *)
(***************************************************************************)
EXTENDS Integers, Sequences, FiniteSets

CONSTANTS Machines,
          MaxVer,       \* bound: versions of the entry
          MaxEvents,    \* bound: events created for it
          MaxTimeouts,  \* bound: transactions that time out
          MaxCrashes,   \* bound: machines that die
          Free

ASSUME TimeMirrorAssumption ==
    /\ MaxVer \in Nat \ {0} /\ MaxEvents \in Nat \ {0}
    /\ MaxTimeouts \in Nat /\ MaxCrashes \in Nat
    /\ Free \notin Machines

VARIABLES row,       \* the TimeEntry: is it there, its version, the event id
                     \* saved in it (0: none)
          on,        \* the member's timesheetGoogleSync
          google,    \* google[e]: the version event e shows, 0 if there is none
          created,   \* events created so far
          chain,     \* chain[m]: the jobs queued on m, the running one first
          at,        \* at[m]: where m's running job is
          got,       \* got[m]: the row it read; then the event Google made
          lock,      \* the machine whose job's transaction holds the lock
          ahead,     \* ahead[m]: jobs that m's delete request waits for,
                     \* -1 if m serves none
          timeouts, crashes,
          failed,    \* history: versions whose own job did not mirror, or has none
          lost,      \* history: events whose id never reached the row
          left,      \* history: events whose removal failed
          slipped    \* history: a transaction timed out around a call

history == <<failed, lost, left, slipped>>
vars == <<row, on, google, created, chain, at, got, lock, ahead, timeouts, crashes, history>>

Events == 1..MaxEvents
Exists(e) == e # 0 /\ google[e] # 0
SyncJob(v) == [what |-> "sync", ver |-> v, event |-> 0]
RemoveJob(e) == [what |-> "remove", ver |-> 0, event |-> e]

Init ==
    /\ row = [there |-> TRUE, ver |-> 1, event |-> 0]
    /\ on \in BOOLEAN
    /\ google = [e \in Events |-> 0]
    /\ created = 0
    /\ \E m \in Machines :
         chain = [n \in Machines |-> IF n = m THEN <<SyncJob(1)>> ELSE <<>>]
    /\ at = [m \in Machines |-> "idle"]
    /\ got = [m \in Machines |-> [ver |-> 0, event |-> 0]]
    /\ lock = Free
    /\ ahead = [m \in Machines |-> -1]
    /\ timeouts = 0 /\ crashes = 0
    /\ failed = {} /\ lost = {} /\ left = {} /\ slipped = FALSE

-----------------------------------------------------------------------------
(* The member's requests.                                                   *)

\* updateTimeEntry.
Update(m) ==
    /\ row.there /\ row.ver < MaxVer
    /\ row' = [row EXCEPT !.ver = @ + 1]
    /\ chain' = [chain EXCEPT ![m] = Append(@, SyncJob(row.ver + 1))]
    /\ UNCHANGED <<on, google, created, at, got, lock, ahead, timeouts, crashes, history>>

\* The update is committed and its answer is lost: the handler throws before it
\* queues the job.
UpdateUnanswered(m) ==
    /\ row.there /\ row.ver < MaxVer
    /\ row' = [row EXCEPT !.ver = @ + 1]
    /\ failed' = failed \cup {row.ver + 1}
    /\ UNCHANGED <<on, google, created, chain, at, got, lock, ahead, timeouts, crashes,
                   lost, left, slipped>>

\* setUserTimesheetSync; the calendar stays the same.
Toggle ==
    /\ on' = ~on
    /\ UNCHANGED <<row, google, created, chain, at, got, lock, ahead, timeouts, crashes, history>>

\* deleteTimeEntry waits for the chain as it finds it ...
Delete(m) ==
    /\ ahead[m] = -1
    /\ ahead' = [ahead EXCEPT ![m] = Len(chain[m])]
    /\ UNCHANGED <<row, on, google, created, chain, at, got, lock, timeouts, crashes, history>>

\* Mutant: the row is deleted without the lock.
DeleteUnlocked(m) ==
    /\ ahead[m] = 0
    /\ ahead' = [ahead EXCEPT ![m] = -1]
    /\ row' = [row EXCEPT !.there = FALSE]
    /\ chain' = IF row.there
                THEN [chain EXCEPT ![m] = Append(@, RemoveJob(row.event))]
                ELSE chain
    /\ UNCHANGED <<on, google, created, at, got, lock, timeouts, crashes, history>>

\* ... and then, under the lock, takes the row out and queues the removal.
DeleteRow(m) ==
    /\ ahead[m] = 0 /\ lock = Free
    /\ ahead' = [ahead EXCEPT ![m] = -1]
    /\ row' = [row EXCEPT !.there = FALSE]
    /\ chain' = IF row.there
                THEN [chain EXCEPT ![m] = Append(@, RemoveJob(row.event))]
                ELSE chain
    /\ UNCHANGED <<on, google, created, at, got, lock, timeouts, crashes, history>>

\* The same with the answer of the delete's commit: no removal is queued.
DeleteUnanswered(m) ==
    /\ ahead[m] = 0 /\ lock = Free /\ row.there
    /\ ahead' = [ahead EXCEPT ![m] = -1]
    /\ row' = [row EXCEPT !.there = FALSE]
    /\ left' = left \cup {row.event}
    /\ UNCHANGED <<on, google, created, chain, at, got, lock, timeouts, crashes,
                   failed, lost, slipped>>

\* The delete's own wait for the lock times out: it is answered with an error.
DeleteTimesOut(m) ==
    /\ ahead[m] = 0 /\ lock # Free /\ timeouts < MaxTimeouts
    /\ timeouts' = timeouts + 1
    /\ ahead' = [ahead EXCEPT ![m] = -1]
    /\ UNCHANGED <<row, on, google, created, chain, at, got, lock, crashes, history>>

-----------------------------------------------------------------------------
(* The jobs.                                                                *)

\* Mutant: the transaction's end leaves the lock (a session lock).
KeepsLock(m) == lock

Released(m) == IF lock = m THEN Free ELSE lock

\* Mutant: a delete is not told of the job's end.
EndUncounted(m) ==
    /\ chain' = [chain EXCEPT ![m] = Tail(@)]
    /\ at' = [at EXCEPT ![m] = "idle"]
    /\ got' = [got EXCEPT ![m] = [ver |-> 0, event |-> 0]]
    /\ lock' = Released(m)
    /\ UNCHANGED ahead

\* The running job ends: the chain moves on, a delete waits for one job less.
End(m) ==
    /\ chain' = [chain EXCEPT ![m] = Tail(@)]
    /\ at' = [at EXCEPT ![m] = "idle"]
    /\ got' = [got EXCEPT ![m] = [ver |-> 0, event |-> 0]]
    /\ lock' = Released(m)
    /\ ahead' = [ahead EXCEPT ![m] = IF @ > 0 THEN @ - 1 ELSE @]

\* The versions and the events that are not dealt with when jobs are dropped.
Missed(jobs) == {jobs[i].ver : i \in {j \in DOMAIN jobs : jobs[j].what = "sync"}}
Unremoved(jobs) == {jobs[i].event : i \in {j \in DOMAIN jobs : jobs[j].what = "remove"}}

\* The job at the head of the chain comes to nothing.
GiveUp(m) ==
    /\ End(m)
    /\ failed' = failed \cup Missed(<<Head(chain[m])>>)
    /\ left' = left \cup Unremoved(<<Head(chain[m])>>)
    /\ UNCHANGED lost

\* Mutants: the machine's own chain is all that is waited for; the job mirrors
\* the entry as it was when the job was queued.
ChainOnly(m) == at[m] = "idle" /\ chain[m] # <<>>
AsQueued(m) == [ver |-> Head(chain[m]).ver, event |-> row.event]

Ready(m) == at[m] = "idle" /\ chain[m] # <<>> /\ lock = Free
Latest(m) == [ver |-> row.ver, event |-> row.event]

\* withEntryMirrorLock, mirrorLatest and the gates of syncTimeEntryToGoogle.
StartSync(m) ==
    /\ Ready(m) /\ Head(chain[m]).what = "sync"
    /\ IF row.there /\ on
       THEN /\ at' = [at EXCEPT ![m] = IF row.event = 0 THEN "create" ELSE "patch"]
            /\ got' = [got EXCEPT ![m] = Latest(m)]
            /\ lock' = m
            /\ UNCHANGED <<chain, ahead, failed, lost, left>>
       ELSE GiveUp(m)
    /\ UNCHANGED <<row, on, google, created, timeouts, crashes, slipped>>

\* removeTimeEntryFromGoogle: nothing to do for an entry never mirrored.
StartRemove(m) ==
    /\ Ready(m) /\ Head(chain[m]).what = "remove"
    /\ IF Head(chain[m]).event = 0
       THEN End(m)
       ELSE /\ at' = [at EXCEPT ![m] = "remove"]
            /\ lock' = m
            /\ UNCHANGED <<chain, got, ahead>>
    /\ UNCHANGED <<row, on, google, created, timeouts, crashes, history>>

\* Google answers: done, done but the answer is an error or lost, or refused.
Patch(m, answer) ==
    /\ at[m] = "patch"
    /\ google' = IF answer # "refused" /\ Exists(got[m].event)
                 THEN [google EXCEPT ![got[m].event] = got[m].ver] ELSE google
    /\ IF answer = "ok" /\ Exists(got[m].event)
       THEN End(m) /\ UNCHANGED <<failed, lost, left>>
       ELSE GiveUp(m)
    /\ UNCHANGED <<row, on, created, timeouts, crashes, slipped>>

Create(m) ==
    /\ at[m] = "create" /\ created < MaxEvents
    /\ created' = created + 1
    /\ google' = [google EXCEPT ![created + 1] = got[m].ver]
    /\ at' = [at EXCEPT ![m] = "save"]
    /\ got' = [got EXCEPT ![m].event = created + 1]
    /\ UNCHANGED <<row, on, chain, lock, ahead, timeouts, crashes, history>>

CreateFails(m) ==
    /\ at[m] = "create"
    /\ GiveUp(m)
    /\ UNCHANGED <<row, on, google, created, timeouts, crashes, slipped>>

\* The id is saved by a statement of its own, outside the transaction.  With the
\* row gone it throws; the event it leaves is not excused as `lost`, which is for
\* calls that fail: that a delete does not get in between is to be shown.
Save(m) ==
    /\ at[m] = "save"
    /\ row' = IF row.there THEN [row EXCEPT !.event = got[m].event] ELSE row
    /\ End(m)
    /\ UNCHANGED <<on, google, created, timeouts, crashes, history>>

\* The event was created, its id does not come back or cannot be saved.
SaveFails(m) ==
    /\ at[m] = "save"
    /\ lost' = lost \cup {got[m].event}
    /\ End(m)
    /\ failed' = failed \cup Missed(<<Head(chain[m])>>)
    /\ UNCHANGED <<row, on, google, created, timeouts, crashes, left, slipped>>

Remove(m, answer) ==
    /\ at[m] = "remove"
    /\ google' = IF answer = "refused" THEN google
                 ELSE [google EXCEPT ![Head(chain[m]).event] = 0]
    /\ IF answer = "ok" THEN End(m) /\ UNCHANGED <<failed, lost, left>> ELSE GiveUp(m)
    /\ UNCHANGED <<row, on, created, timeouts, crashes, slipped>>

\* The transaction around a call times out: the lock goes, the call stays.
TimeOut(m) ==
    /\ lock = m /\ timeouts < MaxTimeouts
    /\ timeouts' = timeouts + 1
    /\ lock' = Free
    /\ slipped' = TRUE
    /\ UNCHANGED <<row, on, google, created, chain, at, got, ahead, crashes, failed, lost, left>>

\* So does one that still waits for the lock: its job is dropped.
TimeOutWaiting(m) ==
    /\ at[m] = "idle" /\ chain[m] # <<>> /\ lock # Free /\ timeouts < MaxTimeouts
    /\ timeouts' = timeouts + 1
    /\ GiveUp(m)
    /\ UNCHANGED <<row, on, google, created, crashes, slipped>>

Crash(m) ==
    /\ crashes < MaxCrashes
    /\ crashes' = crashes + 1
    /\ failed' = failed \cup Missed(chain[m])
    /\ left' = left \cup Unremoved(chain[m])
    /\ lost' = IF at[m] = "save" THEN lost \cup {got[m].event} ELSE lost
    /\ chain' = [chain EXCEPT ![m] = <<>>]
    /\ at' = [at EXCEPT ![m] = "idle"]
    /\ got' = [got EXCEPT ![m] = [ver |-> 0, event |-> 0]]
    /\ lock' = Released(m)
    /\ ahead' = [ahead EXCEPT ![m] = -1]
    /\ UNCHANGED <<row, on, google, created, timeouts, slipped>>

Answers == {"ok", "lost", "refused"}

Calls(m) ==
    \/ \E answer \in Answers : Patch(m, answer) \/ Remove(m, answer)
    \/ Create(m) \/ CreateFails(m) \/ Save(m) \/ SaveFails(m)

Next ==
    \/ Toggle
    \/ \E m \in Machines :
        \/ Update(m) \/ UpdateUnanswered(m)
        \/ Delete(m) \/ DeleteRow(m) \/ DeleteUnanswered(m) \/ DeleteTimesOut(m)
        \/ StartSync(m) \/ StartRemove(m) \/ Calls(m)
        \/ TimeOut(m) \/ TimeOutWaiting(m) \/ Crash(m)

\* Promises are settled, a call to Google ends, a request is served.
Fairness ==
    \A m \in Machines :
        /\ WF_vars(StartSync(m) \/ StartRemove(m))
        /\ WF_vars(Calls(m))
        /\ WF_vars(DeleteRow(m))

Spec == Init /\ [][Next]_vars /\ Fairness

-----------------------------------------------------------------------------
(* Properties.                                                              *)

Versions == 0..MaxVer
Seen == [ver : Versions, event : Events \cup {0}]
Jobs == [what : {"sync", "remove"}, ver : Versions, event : Events \cup {0}]

\* The row, the calendar and the queues have their types.
TypeOK ==
    /\ row \in [there : BOOLEAN, ver : Versions \ {0}, event : Events \cup {0}]
    /\ on \in BOOLEAN
    /\ google \in [Events -> Versions]
    /\ created \in Events \cup {0}
    /\ chain \in [Machines -> Seq(Jobs)]
    /\ at \in [Machines -> {"idle", "create", "patch", "save", "remove"}]
    /\ got \in [Machines -> Seen]
    /\ lock \in Machines \cup {Free}
    /\ \A m \in Machines : ahead[m] \in -1..Len(chain[m])
    /\ timeouts \in 0..MaxTimeouts /\ crashes \in 0..MaxCrashes
    /\ failed \subseteq Versions /\ lost \subseteq Events
    /\ left \subseteq Events \cup {0} /\ slipped \in BOOLEAN

Showing == {e \in Events : google[e] # 0}
Quiet == \A m \in Machines : chain[m] = <<>>

\* Writes of one entry on several machines make one event, not two: only an
\* event whose id was lost can be beside another one, as long as no call
\* outlives the transaction that holds the lock (withEntryMirrorLock).
OneEvent ==
    slipped \/ \A e, f \in Showing \ lost : e = f

\* When all jobs are through, the event shows the entry's latest version,
\* whichever machine's job ran last, unless that version's own job failed, found
\* the sync off or was never queued (mirrorLatest).
LatestMirrored ==
    Quiet /\ row.there /\ row.ver \notin failed /\ ~slipped =>
        row.event # 0 /\ google[row.event] = row.ver

\* A deleted entry leaves no event behind, also if it is deleted on another
\* machine than the one creating the event: only one whose id was lost or
\* whose removal failed or was never queued stays (deleteTimeEntry).
DeletedUnmirrored ==
    Quiet /\ ~row.there /\ ~slipped => Showing \subseteq lost \cup left

\* A delete is answered and the queues drain: the chain, the lock and the
\* delete's wait for the chain never hold each other up.
DeleteAnswered == \A m \in Machines : ahead[m] # -1 ~> ahead[m] = -1
Drains == []<>Quiet
=============================================================================
