-------------------------------- MODULE Rooms --------------------------------
(***************************************************************************)
(* Room bookings of dali-api (app/lib/rooms.server.ts and its callers).    *)
(*                                                                         *)
(* A room's schedule is the union of its bookings and of the meetings      *)
(* placed in it.  A writer of bookings takes the rooms' advisory locks     *)
(* inside a transaction, tests the schedule for conflicts and writes; the  *)
(* locks go with the transaction.  Around that core the writers differ:    *)
(* what they read before they hold the lock, whether they lock at all, and *)
(* (for interviews) the isolation level their test reads at.               *)
(*                                                                         *)
(* Bookings do not repeat here, and a cancelled one keeps none of its      *)
(* columns, which nothing reads. Acquiring a lock and the conflict test    *)
(* right after it are one step: a write that falls between the two takes   *)
(* no lock, so it could as well have come before both.                     *)
(***************************************************************************)
EXTENDS Integers, Sequences, FiniteSets

CONSTANTS Rooms,       \* bookable rooms, numbered in the order of their ids
          Claims,      \* ids of RoomBooking and ScheduledMeeting rows
          Requests,    \* requests being served
          Events,      \* ids Google gives to calendar events
          Slots,       \* Slots[o]: the <<start, end>> that requests for o name
          Picks,       \* the lists of rooms that events and interviews name
          Mixes,       \* bound: sets of operations that are under way together
          STEP,        \* EXTEND_MINUTES
          MaxTime,     \* bound: the last instant a booking may reach
          MaxClock,    \* bound: the last instant explored
          NoEvent, Free

ASSUME RoomsAssumption ==
    /\ Rooms \subseteq Nat /\ IsFiniteSet(Rooms) /\ IsFiniteSet(Claims)
    /\ MaxTime \in Nat /\ MaxClock \in Nat /\ STEP \in Nat \ {0}
    /\ \A o \in {"book", "event", "edit", "retime", "interview", "meeting"} :
         Slots[o] \subseteq {s \in (0..MaxTime) \X (0..MaxTime) : s[1] < s[2]}
    /\ Picks \subseteq Seq(Rooms) \ {<<>>}
    /\ Events \cap {NoEvent, "pending", "orphan"} = {}
    /\ NoEvent \notin {"pending", "orphan"} /\ Free \notin Requests

Kinds == {"Web", "Interview", "InterviewHold"}
System == {"Interview", "InterviewHold"}

VARIABLES clock,
          row,       \* row[c]: the booking or meeting c
          lock,      \* lock[r]: the transaction holding r's advisory lock
          at,        \* at[p]: where the request is
          op,        \* op[p]: what it does
          want,      \* want[p]: the claim it asks for
          ids,       \* ids[p]: the rows it writes (for "event": those it made)
          saw,       \* saw[p]: the rows it goes by, as it read them
          todo,      \* todo[p]: rooms still to lock, or (retime) holds to check
          stale,     \* history: claims written on a schedule or a row that had
                     \* changed since it was read
          loose,     \* history: holds edited before their event was saved
          late       \* history: claims a cancellation ended when they no longer
                     \* were under way

history == <<stale, loose, late>>
request == <<at, op, want, ids, saw, todo>>
vars == <<clock, row, lock, request, history>>

NoRow == [kind |-> "None", room |-> 0, start |-> 0, end |-> 0, event |-> NoEvent]
\* sourceEventId.  It is null for a hold whose event is still being saved
\* ("pending") and for one whose request died before ("orphan") as well.
EventKeys == Events \cup {NoEvent, "pending", "orphan"}
Unkeyed == {NoEvent, "pending", "orphan"}

Cancelled == [NoRow EXCEPT !.kind = "Cancelled"]
Deleted == [NoRow EXCEPT !.kind = "Deleted"]
NoWant == [room |-> 0, start |-> 0, end |-> 0, kind |-> "Web", event |-> NoEvent]

Init ==
    /\ clock = 0
    /\ row = [c \in Claims |-> NoRow]
    /\ lock = [r \in Rooms |-> Free]
    /\ at = [p \in Requests |-> "idle"]
    /\ op = [p \in Requests |-> "none"]
    /\ want = [p \in Requests |-> NoWant]
    /\ ids = [p \in Requests |-> {}]
    /\ saw = [p \in Requests |-> <<>>]
    /\ todo = [p \in Requests |-> <<>>]
    /\ stale = {} /\ loose = {} /\ late = {}

-----------------------------------------------------------------------------
(* The conflict rule.                                                       *)

Overlap(a, s, e) == a.start < e /\ a.end > s

\* Interview holds are shared; everything else excludes everything else.
Blocks(k1, k2) == ~({k1, k2} \subseteq System /\ "InterviewHold" \in {k1, k2})

Live(t, c) == t[c].kind \in Kinds \cup {"Meeting"}

\* Does table t hold a claim in w's way, other than those of except?
Taken(t, w, s, e, except) ==
    \E c \in Claims \ except :
        /\ Live(t, c) /\ t[c].room = w.room
        /\ Overlap(t[c], s, e) /\ Blocks(t[c].kind, w.kind)

Fresh(c) == row[c].kind = "None"
Exists(c) == row[c].kind \notin {"None", "Deleted"}
Holds(e) == {c \in Claims : Live(row, c) /\ row[c].event = e}

\* Mutant: the rooms are locked in the order the edit meets them.
LocksAsMet(a, b) == IF a = b THEN <<a>> ELSE <<a, b>>

LockOrder(a, b) == IF a = b THEN <<a>> ELSE IF a < b THEN <<a, b>> ELSE <<b, a>>

-----------------------------------------------------------------------------
(* Requests and their transactions.                                         *)

LockFree(p, r) == lock[r] \in {Free, p}
Unlocked(p) == [r \in Rooms |-> IF lock[r] = p THEN Free ELSE lock[r]]

Start(p, o, pc, w, S, t, rooms) ==
    /\ at[p] = "idle"
    /\ \E M \in Mixes : {o} \cup {op[q] : q \in Requests} \subseteq M \cup {"none"}
    /\ at' = [at EXCEPT ![p] = pc]
    /\ op' = [op EXCEPT ![p] = o]
    /\ want' = [want EXCEPT ![p] = w]
    /\ ids' = [ids EXCEPT ![p] = S]
    /\ saw' = [saw EXCEPT ![p] = t]
    /\ todo' = [todo EXCEPT ![p] = rooms]

\* The request is answered: its transaction, if any, is over.
Finish(p) ==
    /\ at' = [at EXCEPT ![p] = "idle"]
    /\ op' = [op EXCEPT ![p] = "none"]
    /\ want' = [want EXCEPT ![p] = NoWant]
    /\ ids' = [ids EXCEPT ![p] = {}]
    /\ saw' = [saw EXCEPT ![p] = <<>>]
    /\ todo' = [todo EXCEPT ![p] = <<>>]
    /\ lock' = Unlocked(p)

Ask(r, s, k) == [NoWant EXCEPT !.room = r, !.start = s[1], !.end = s[2], !.kind = k]
Read(S) == [c \in S |-> row[c]]
Locked(p, r) == lock' = [lock EXCEPT ![r] = p]

\* Mutant: the row starts one slot early.
NewRowEarly(w) == [kind |-> w.kind, room |-> w.room, start |-> w.start - 1, end |-> w.end,
                   event |-> w.event]

NewRow(w) == [kind |-> w.kind, room |-> w.room, start |-> w.start, end |-> w.end,
              event |-> w.event]

\* History of rows that are gone.
Forget(S) == stale' = stale \ S /\ loose' = loose \ S /\ late' = late \ S

\* cancelBookingNow on a row read as b: a booking underway ends now.
Underway(b) == b.start < clock /\ b.end > clock
Ended(b) == IF Underway(b) THEN [b EXCEPT !.end = clock] ELSE Cancelled

\* createRoomBooking up to its write; only a system writer may start late.
Book(p, r, s, k) ==
    LET w == Ask(r, s, k) IN
    /\ lock[r] = Free
    /\ k \in System \/ s[1] >= clock
    /\ ~Taken(row, w, s[1], s[2], {})
    /\ Start(p, "book", "write", w, {}, <<>>, <<>>)
    /\ Locked(p, r)
    /\ UNCHANGED <<clock, row, history>>

\* bookRoomsForEvent: one createRoomBooking per room, in the order picked.
BookForEvent(p, rooms, s) ==
    /\ Start(p, "event", "rooms", [Ask(0, s, "Web") EXCEPT !.event = "pending"],
             {}, <<>>, rooms)
    /\ UNCHANGED <<clock, row, lock, history>>

BookNextRoom(p) ==
    LET r == Head(todo[p])
        w == [want[p] EXCEPT !.room = r]
    IN
    /\ at[p] = "rooms" /\ todo[p] # <<>> /\ lock[r] = Free
    /\ IF w.start < clock \/ Taken(row, w, w.start, w.end, {})
       THEN /\ at' = [at EXCEPT ![p] = "release"]
            /\ UNCHANGED <<want, todo, lock>>
       ELSE /\ at' = [at EXCEPT ![p] = "write"]
            /\ want' = [want EXCEPT ![p] = w]
            /\ todo' = [todo EXCEPT ![p] = Tail(@)]
            /\ Locked(p, r)
    /\ UNCHANGED <<clock, row, op, ids, saw, history>>

\* The create and the commit.
WriteBooking(p, c) ==
    /\ at[p] = "write" /\ op[p] \in {"book", "event"} /\ Fresh(c)
    /\ row' = [row EXCEPT ![c] = NewRow(want[p])]
    /\ IF op[p] = "book"
       THEN Finish(p)
       ELSE /\ at' = [at EXCEPT ![p] = "rooms"]
            /\ ids' = [ids EXCEPT ![p] = @ \cup {c}]
            /\ lock' = Unlocked(p)
            /\ UNCHANGED <<op, want, saw, todo>>
    /\ UNCHANGED <<clock, history>>

\* Every room is booked; Google takes the event and the holds are tied to it.
EventSaved(p, e) ==
    /\ at[p] = "rooms" /\ todo[p] = <<>>
    /\ \A c \in Claims : row[c].event # e
    /\ row' = [c \in Claims |-> IF c \in ids[p] /\ Live(row, c)
                                THEN [row[c] EXCEPT !.event = e] ELSE row[c]]
    /\ Finish(p)
    /\ UNCHANGED <<clock, history>>

GoogleFails(p) ==
    /\ at[p] = "rooms" /\ todo[p] = <<>>
    /\ at' = [at EXCEPT ![p] = "release"]
    /\ UNCHANGED <<clock, row, lock, op, want, ids, saw, todo, history>>

\* Mutant: a failed event keeps the rooms it had already taken.
KeepsRooms(p) ==
    /\ at[p] = "release"
    /\ Finish(p)
    /\ UNCHANGED <<clock, row, history>>

\* releaseRoomBookings.
Release(p) ==
    /\ at[p] = "release"
    /\ row' = [c \in Claims |-> IF c \in ids[p] THEN Deleted ELSE row[c]]
    /\ Forget(ids[p])
    /\ Finish(p)
    /\ UNCHANGED clock

\* The process dies between the holds and the event, or a call on that way throws:
\* a booking after the first (505-515) or the claim of the holds for the event
\* (calendar.server.ts:1088).  Nothing releases what was booked (once is enough).
RequestDies(p) ==
    /\ op[p] = "event" /\ ids[p] # {}
    /\ \A c \in Claims : row[c].event # "orphan"
    /\ row' = [c \in Claims |-> IF c \in ids[p] /\ Live(row, c)
                                THEN [row[c] EXCEPT !.event = "orphan"] ELSE row[c]]
    /\ Finish(p)
    /\ UNCHANGED <<clock, history>>

-----------------------------------------------------------------------------
(* Changes: the row is read first, the locks are taken for what it said.    *)

\* updateRoomBookingAsMember: never a hiring booking or an event's hold.
Edit(p, c, r) ==
    /\ Live(row, c) /\ row[c].kind = "Web" /\ row[c].event \in Unkeyed
    /\ Start(p, "edit", "lock", Ask(r, <<0, 0>>, "Web"), {c}, Read({c}), LockOrder(row[c].room, r))
    /\ UNCHANGED <<clock, row, lock, history>>

\* extendRoomBooking, for a booking underway: the display looks just before, and
\* that it might have ended since is left out.  The most minutes a booking can
\* have (929) are the bound MaxTime; every source a member books from is Web.
Extend(p, c) ==
    LET b == row[c] IN
    /\ Live(row, c) /\ b.kind = "Web" /\ b.start <= clock /\ clock < b.end
    /\ b.end + STEP <= MaxTime
    /\ Start(p, "extend", "lock", Ask(b.room, <<b.end, b.end + STEP>>, "Web"), {c}, Read({c}),
             <<b.room>>)
    /\ UNCHANGED <<clock, row, lock, history>>

\* retimeEventRoomBookings: the holds come in any order.
Retime(p, e, s, order) ==
    /\ Holds(e) # {}
    /\ Start(p, "retime", "lock", Ask(0, s, "Web"), Holds(e), Read(Holds(e)), order)
    /\ UNCHANGED <<clock, row, lock, history>>

\* The room a request waits for.
Next2Lock(p) == IF op[p] = "retime" THEN saw[p][Head(todo[p])].room ELSE Head(todo[p])

\* An edit that changes rooms takes the first of two locks.
LockFirst(p) ==
    /\ op[p] = "edit" /\ at[p] = "lock" /\ Len(todo[p]) = 2
    /\ LockFree(p, Next2Lock(p))
    /\ Locked(p, Next2Lock(p))
    /\ todo' = [todo EXCEPT ![p] = Tail(@)]
    /\ UNCHANGED <<clock, row, at, op, want, ids, saw, history>>

\* What an edit may do to a booking that has started or ended.
InTime(b, w) ==
    /\ b.end > clock
    /\ b.start <= clock => /\ w.start = b.start /\ w.room = b.room
                           /\ w.end # b.end => w.end > clock
    /\ w.start # b.start => w.start >= clock

\* Mutant: an edit that keeps its start is not tested again.
RefusedIfMoved(p, c, w) ==
    \/ op[p] = "edit" /\ ~InTime(saw[p][c], w)
    \/ w.start # saw[p][c].start /\ Taken(row, w, w.start, w.end, {c})

Refused(p, c, w) ==
    \/ op[p] = "edit" /\ ~InTime(saw[p][c], w)
    \/ Taken(row, w, w.start, w.end, {c})

\* The times it asks for: what the form says (chosen only here, where they
\* are first used), or an end later by STEP.
Asked(p) ==
    IF op[p] = "extend" THEN {want[p]}
    ELSE {[want[p] EXCEPT !.start = s[1], !.end = s[2]] : s \in Slots["edit"]}

\* The last lock, then the test, of an edit (771-897) or an extension (921-936); a
\* refusal rolls the transaction back.
LockAndTest(p, w) ==
    /\ op[p] \in {"edit", "extend"} /\ at[p] = "lock" /\ Len(todo[p]) = 1
    /\ LockFree(p, Next2Lock(p))
    /\ IF \E c \in ids[p] : Refused(p, c, w)
       THEN Finish(p)
       ELSE /\ Locked(p, Next2Lock(p))
            /\ at' = [at EXCEPT ![p] = "write"]
            /\ want' = [want EXCEPT ![p] = w]
            /\ todo' = [todo EXCEPT ![p] = <<>>]
            /\ saw' = IF op[p] = "edit" THEN [saw EXCEPT ![p] = <<>>] ELSE saw
            /\ UNCHANGED <<op, ids>>
    /\ UNCHANGED <<clock, row, history>>

RetimeNext(p) ==
    LET c == Head(todo[p])
        w == [want[p] EXCEPT !.room = saw[p][c].room]
    IN
    /\ op[p] = "retime" /\ at[p] = "lock"
    /\ LockFree(p, w.room)
    /\ IF Taken(row, w, w.start, w.end, {c})
       THEN Finish(p)
       ELSE /\ Locked(p, w.room)
            /\ todo' = [todo EXCEPT ![p] = Tail(@)]
            /\ at' = [at EXCEPT ![p] = IF Len(todo[p]) = 1 THEN "write" ELSE "lock"]
            /\ UNCHANGED <<op, want, ids, saw>>
    /\ UNCHANGED <<clock, row, history>>

\* Mutant: a retime writes the hold it tested last.
ChangedLastOnly(p, c) ==
    CASE op[p] = "edit" -> [row[c] EXCEPT !.room = want[p].room, !.start = want[p].start,
                                          !.end = want[p].end]
      [] op[p] = "extend" -> [row[c] EXCEPT !.end = want[p].end]
      [] op[p] = "retime" -> IF row[c].room = 1 THEN row[c]
                             ELSE [row[c] EXCEPT !.start = want[p].start, !.end = want[p].end]

\* The columns each operation writes.
Changed(p, c) ==
    CASE op[p] = "edit" -> [row[c] EXCEPT !.room = want[p].room, !.start = want[p].start,
                                          !.end = want[p].end]
      [] op[p] = "extend" -> [row[c] EXCEPT !.end = want[p].end]
      [] op[p] = "retime" -> [row[c] EXCEPT !.start = want[p].start, !.end = want[p].end]

\* An edit writes all it tested.  The others write the times alone, so what
\* they tested is not what they write if the row changed after they read it.
WroteUntested(p, c) ==
    \/ op[p] \in {"extend", "retime"} /\ row[c].room # saw[p][c].room
    \/ op[p] = "extend" /\ row[c].end # saw[p][c].end

WriteChange(p) ==
    /\ at[p] = "write" /\ op[p] \in {"edit", "extend", "retime"}
    /\ IF \A c \in ids[p] : Exists(c)
       THEN /\ row' = [c \in Claims |-> IF c \in ids[p] /\ Live(row, c) THEN Changed(p, c)
                                     ELSE row[c]]
            /\ stale' = (IF op[p] = "extend" THEN stale ELSE stale \ ids[p])
                            \cup {c \in ids[p] : Live(row, c) /\ WroteUntested(p, c)}
            /\ loose' = IF op[p] = "edit"
                        THEN loose \cup {c \in ids[p] : row[c].event # NoEvent /\ Live(row, c)}
                        ELSE loose
            /\ late' = IF op[p] = "extend" THEN late ELSE late \ ids[p]
       ELSE UNCHANGED <<row, history>>
    /\ Finish(p)
    /\ UNCHANGED clock

\* Postgres aborts one of two transactions that wait for each other.
Deadlocked(p, q) ==
    /\ at[p] = "lock" /\ at[q] = "lock" /\ p # q
    /\ lock[Next2Lock(p)] = q /\ lock[Next2Lock(q)] = p

DeadlockVictim(p) ==
    /\ \E q \in Requests : Deadlocked(p, q)
    /\ Finish(p)
    /\ UNCHANGED <<clock, row, history>>

-----------------------------------------------------------------------------
(* Interviews: createRoomBooking inside a SERIALIZABLE transaction, whose   *)
(* snapshot is from before the lock.                                        *)

\* The row of an interview being moved, updated by an open transaction.
Held(c) == \E p \in Requests : op[p] = "interview" /\ c \in ids[p]

\* S: the booking of an interview being moved, released in the transaction,
\* which sees the release at once.
Interview(p, rooms, s, S) ==
    /\ \A c \in S : Live(row, c) /\ row[c].kind = "Interview" /\ ~Held(c)
    /\ Start(p, "interview", "lock", Ask(0, s, "Interview"), S,
             [c \in Claims |-> IF c \in S THEN Ended(row[c]) ELSE row[c]], rooms)
    /\ UNCHANGED <<clock, row, lock, history>>

\* The lock is taken now, the test reads the snapshot.
InterviewRoom(p) ==
    LET w == [want[p] EXCEPT !.room = Next2Lock(p)] IN
    /\ op[p] = "interview" /\ at[p] = "lock"
    /\ LockFree(p, w.room)
    /\ IF Taken(saw[p], w, w.start, w.end, {})
       THEN IF Len(todo[p]) = 1
            THEN Finish(p)
            ELSE /\ Locked(p, w.room)
                 /\ todo' = [todo EXCEPT ![p] = Tail(@)]
                 /\ UNCHANGED <<at, op, want, ids, saw>>
       ELSE /\ Locked(p, w.room)
            /\ want' = [want EXCEPT ![p] = w]
            /\ at' = [at EXCEPT ![p] = "write"]
            /\ UNCHANGED <<op, ids, saw, todo>>
    /\ UNCHANGED <<clock, row, history>>

\* Two serializable transactions that would each have blocked the other do
\* not both commit.
SerializationFails(p) ==
    \E c \in Claims \ ids[p] :
        /\ row[c] # saw[p][c]
        /\ row[c].kind = "Interview" /\ Live(row, c)
        /\ row[c].room = want[p].room /\ Overlap(row[c], want[p].start, want[p].end)

WriteInterview(p, c) ==
    /\ op[p] = "interview" /\ at[p] = "write" /\ Fresh(c)
    /\ IF SerializationFails(p)
       THEN UNCHANGED <<row, stale>>
       ELSE /\ row' = [d \in Claims |->
                         IF d = c THEN NewRow(want[p])
                         ELSE IF d \in ids[p] THEN saw[p][d]
                         ELSE row[d]]
            /\ stale' = IF Taken(row, want[p], want[p].start, want[p].end, ids[p])
                        THEN stale \cup {c} ELSE stale
    /\ Finish(p)
    /\ UNCHANGED <<clock, loose, late>>

-----------------------------------------------------------------------------
(* Writers without a lock.                                                  *)

\* cancelRoomBooking of one booking, releaseEventRoomBookings of an event's.
Cancel(p, S) ==
    /\ S # {} /\ Start(p, "cancel", "cancel", NoWant, S, Read(S), <<>>)
    /\ UNCHANGED <<clock, row, lock, history>>

\* cancelBookingNow, waiting for a transaction that has updated the row.
CancelOne(p, c) ==
    LET b == saw[p][c] IN
    /\ op[p] = "cancel" /\ c \in ids[p] /\ Exists(c) /\ ~Held(c)
    /\ IF Underway(b)
       THEN /\ row' = IF Live(row, c) THEN [row EXCEPT ![c].end = clock] ELSE row
            /\ late' = IF Live(row, c) /\ ~Underway(row[c]) THEN late \cup {c} ELSE late
            /\ UNCHANGED <<stale, loose>>
       ELSE /\ row' = [row EXCEPT ![c] = Cancelled]
            /\ Forget({c})
    /\ IF ids[p] = {c}
       THEN Finish(p)
       ELSE /\ ids' = [ids EXCEPT ![p] = @ \ {c}]
            /\ UNCHANGED <<at, op, want, saw, todo, lock>>
    /\ UNCHANGED clock

\* The row is gone: the update fails and so does the request.
CancelFails(p, c) ==
    /\ op[p] = "cancel" /\ c \in ids[p] /\ ~Exists(c)
    /\ Finish(p)
    /\ UNCHANGED <<clock, row, history>>

\* A meeting created in a room, or (S = {m}) moved: assertMeetingRoomsFree ...
Meeting(p, r, s, S) ==
    /\ \A c \in S : row[c].kind = "Meeting"
    /\ ~Taken(row, Ask(r, s, "Web"), s[1], s[2], S)
    /\ Start(p, "meeting", "meet", Ask(r, s, "Web"), S, <<>>, <<>>)
    /\ UNCHANGED <<clock, row, lock, history>>

\* ... and the write the route makes afterwards.
WriteMeeting(p, c) ==
    /\ at[p] = "meet"
    /\ IF ids[p] = {} THEN Fresh(c) ELSE c \in ids[p]
    /\ row' = [row EXCEPT ![c] = NewRow([want[p] EXCEPT !.kind = "Meeting"])]
    /\ Finish(p)
    /\ UNCHANGED <<clock, history>>

Tick ==
    /\ clock < MaxClock
    /\ clock' = clock + 1
    /\ UNCHANGED <<row, lock, request, history>>

NoneOrOne == {{}} \cup {{c} : c \in Claims}
Orders(S) == {o \in [1..Cardinality(S) -> S] : \A c \in S : \E i \in DOMAIN o : o[i] = c}
\* What one request cancels: a member's booking, an interview's, which hiring alone
\* cancels (scheduling.ts:684), or the holds of an event.
Cancelable == {{c} : c \in {d \in Claims : Live(row, d) /\ row[d].kind \in {"Web", "Interview"}}}
                  \cup {Holds(e) : e \in Events}

Next ==
    \/ Tick
    \/ \E p \in Requests :
        \/ \E r \in Rooms :
            \/ \E s \in Slots["book"], k \in {"Web", "InterviewHold"} : Book(p, r, s, k)
            \/ \E c \in Claims : Edit(p, c, r)
            \/ \E s \in Slots["meeting"], S \in NoneOrOne : Meeting(p, r, s, S)
        \/ \E rooms \in Picks :
            \/ \E s \in Slots["event"] : BookForEvent(p, rooms, s)
            \/ \E s \in Slots["interview"], S \in NoneOrOne : Interview(p, rooms, s, S)
        \/ \E e \in Events :
            \/ EventSaved(p, e)
            \/ \E s \in Slots["retime"], order \in Orders(Holds(e)) : Retime(p, e, s, order)
        \/ \E c \in Claims :
            \/ WriteBooking(p, c) \/ Extend(p, c) \/ WriteInterview(p, c)
            \/ CancelOne(p, c) \/ CancelFails(p, c) \/ WriteMeeting(p, c)
        \/ \E S \in Cancelable : Cancel(p, S)
        \/ \E w \in Asked(p) : LockAndTest(p, w)
        \/ BookNextRoom(p) \/ GoogleFails(p) \/ Release(p) \/ RequestDies(p)
        \/ LockFirst(p) \/ RetimeNext(p) \/ WriteChange(p)
        \/ DeadlockVictim(p) \/ InterviewRoom(p)

Spec == Init /\ [][Next]_vars

-----------------------------------------------------------------------------
(* Properties.                                                              *)

Times == 0..MaxTime
RowTypes == [kind : Kinds \cup {"Meeting", "None", "Cancelled", "Deleted"},
             room : Rooms \cup {0}, start : Times, end : Times, event : EventKeys]

\* Rows, locks and requests have their types.
TypeOK ==
    /\ clock \in 0..MaxClock
    /\ row \in [Claims -> RowTypes]
    /\ lock \in [Rooms -> Requests \cup {Free}]
    /\ at \in [Requests -> {"idle", "rooms", "write", "release", "lock", "cancel", "meet"}]
    /\ op \in [Requests -> {"none"} \cup UNION Mixes]
    /\ want \in [Requests -> [room : Rooms \cup {0}, start : Times, end : Times,
                              kind : Kinds, event : EventKeys]]
    /\ ids \in [Requests -> SUBSET Claims]
    /\ \A p \in Requests : DOMAIN saw[p] \subseteq Claims
                          /\ \A c \in DOMAIN saw[p] : saw[p][c] \in RowTypes
    /\ todo \in [Requests -> Seq(Rooms \cup Claims)]
    /\ stale \subseteq Claims /\ loose \subseteq Claims /\ late \subseteq Claims

\* Two claims that both stand and should have excluded each other.
Clash(c, d) ==
    /\ c # d /\ Live(row, c) /\ Live(row, d)
    /\ row[c].room = row[d].room /\ Overlap(row[c], row[d].start, row[d].end)
    /\ Blocks(row[c].kind, row[d].kind)

\* Whatever bookings, edits, extensions, retimes and interviews run together,
\* two bookings clash only where one was written on what its writer had read
\* before the lock (an extension or a retime of a row that changed since, an
\* interview whose snapshot missed the other one), where a cancellation that
\* came late gave one of them time back, or where a retime met two holds of its
\* event that an edit had brought into one room.  Two interviews clash by such a
\* cancellation alone (the serializable transactions of createRoomBooking's
\* callers).
BookingsDisjoint ==
    \A c, d \in Claims :
        Clash(c, d) /\ {row[c].kind, row[d].kind} \subseteq Kinds =>
            \/ {c, d} \cap late # {}
            \/ {c, d} \cap stale # {} /\ {row[c].kind, row[d].kind} # {"Interview"}
            \/ {c, d} \cap loose # {} /\ row[c].event = row[d].event /\ row[c].event \in Events

\* A hold made for an event is tied to the event, released, or still in the
\* hands of the request that books the rooms; only the death of that request, or
\* a call of it that throws where nothing catches, leaves one behind
\* (bookRoomsForEvent, releaseRoomBookings).
EventAllOrNone ==
    \A c \in Claims :
        Live(row, c) /\ row[c].event = "pending" =>
            \E p \in Requests : op[p] = "event" /\ c \in ids[p]

\* The holds of an event start together, also after retimes that raced with
\* cancellations or with each other, unless the owner edited one of them while
\* the event was being saved (retimeEventRoomBookings: all or none).
HoldsTogether ==
    \A e \in Events : \A c, d \in Holds(e) \ loose : row[c].start = row[d].start

\* Two edits that swap rooms do not wait for each other (the lock order of
\* updateRoomBookingAsMember).
EditsNeverDeadlock ==
    \A p, q \in Requests : op[p] = "edit" /\ op[q] = "edit" => ~Deadlocked(p, q)

\* What the header of rooms.server.ts says: of two claims on the same time
\* of a room, only one wins.
RoomHeldOnce == \A c, d \in Claims : ~Clash(c, d)
=============================================================================
