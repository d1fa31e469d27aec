---------------------------- MODULE Rooms_proofs ----------------------------
(***************************************************************************)
(* Proofs about Rooms, for every set of rooms, claims, requests, times and *)
(* mixes: no two edits deadlock, an event's holds are tied, released or in *)
(* the hands of its request, they start together, and bookings clash only  *)
(* where a writer went by what it had read before.                         *)
(***************************************************************************)
EXTENDS Rooms, FiniteSetTheorems, TLAPS

\* A row that a member's request can have read, whatever became of it; a
\* booking written as it was tested; a hold that no edit has touched.
Member(c) == row[c].kind \in {"Web", "Cancelled", "Deleted"}
Sound(c) == row[c].kind \in Kinds /\ c \notin stale \cup late
Firm(c) == Live(row, c) /\ c \notin loose

-----------------------------------------------------------------------------
(* The parts of the inductive invariant.                                    *)

\* Where a request is says what it does; what it does says what it carries.
Shape(p) ==
    /\ at[p] = "idle" => op[p] = "none"
    /\ at[p] \in {"rooms", "release"} => op[p] = "event"
    /\ at[p] = "write" =>
         op[p] \in {"book", "event", "edit", "extend", "retime", "interview"}
    /\ at[p] = "lock" => op[p] \in {"edit", "extend", "retime", "interview"}
    /\ at[p] = "cancel" => op[p] = "cancel"
    /\ at[p] = "meet" => op[p] = "meeting"

Carries(p) ==
    /\ op[p] \in {"book", "event", "retime", "interview", "extend"} => want[p].start < want[p].end
    /\ op[p] = "edit" /\ at[p] = "write" => want[p].start < want[p].end
    /\ op[p] \in {"event", "edit", "extend", "retime"} => want[p].kind = "Web"
    /\ op[p] = "interview" =>
         /\ want[p].kind = "Interview" /\ DOMAIN saw[p] = Claims
         /\ \A c \in Claims : Live(saw[p], c) => saw[p][c].room \in Rooms
    /\ op[p] = "event" => want[p].event = "pending"
    /\ op[p] \in {"book", "interview", "meeting"} => want[p].event = NoEvent
    /\ at[p] = "write" /\ op[p] # "retime" => want[p].room \in Rooms
    /\ op[p] = "book" => want[p].kind \in {"Web", "InterviewHold"}
    /\ op[p] \in {"meeting", "edit"} => want[p].room \in Rooms
    /\ op[p] \in {"extend", "retime", "cancel"} => ids[p] \subseteq DOMAIN saw[p]
    /\ op[p] = "edit" /\ at[p] = "lock" => ids[p] \subseteq DOMAIN saw[p]
    /\ op[p] \in {"edit", "extend"} => \E c \in Claims : ids[p] = {c}
    /\ op[p] \in {"extend", "retime"} => \A c \in ids[p] : saw[p][c].room \in Rooms
    /\ op[p] = "extend" => \A c \in ids[p] :
         /\ want[p].room = saw[p][c].room /\ want[p].start = saw[p][c].end
         /\ want[p].end > saw[p][c].end /\ want[p].end > saw[p][c].start

Waits(p) ==
    /\ op[p] = "event" => todo[p] \in Seq(Rooms)
    /\ op[p] = "interview" => todo[p] \in Seq(Rooms) \ {<<>>}
    /\ at[p] = "lock" /\ op[p] \in {"edit", "extend"} =>
         todo[p] \in Seq(Rooms) /\ Len(todo[p]) \in {1, 2}
    /\ at[p] = "lock" /\ op[p] = "extend" => Len(todo[p]) = 1 /\ Head(todo[p]) = want[p].room
    /\ at[p] = "lock" /\ op[p] = "edit" /\ Len(todo[p]) = 2 => todo[p][1] < todo[p][2]
    /\ at[p] = "lock" /\ op[p] = "retime" => todo[p] \in Seq(ids[p]) \ {<<>>}

Placed == \A c \in Claims : Live(row, c) => row[c].room \in Rooms

\* The locks a request has.
HasLocks(p) ==
    /\ at[p] \notin {"lock", "write"} => \A r \in Rooms : lock[r] # p
    /\ at[p] = "lock" /\ op[p] = "edit" =>
         /\ \A r \in Rooms : lock[r] = p => Len(todo[p]) = 1 /\ r < Head(todo[p])
         /\ \/ lock[want[p].room] = p
            \/ \E i \in 1..Len(todo[p]) : todo[p][i] = want[p].room
    /\ at[p] = "write" /\ op[p] # "retime" => lock[want[p].room] = p
    /\ op[p] = "retime" => \A c \in ids[p] :
         \/ at[p] = "lock" /\ \E i \in 1..Len(todo[p]) : todo[p][i] = c
         \/ lock[saw[p][c].room] = p

\* Which rows a request can have, and which events a row.
Rows(p) ==
    /\ op[p] \in {"event", "edit", "extend", "retime"} => \A c \in ids[p] : Member(c)
    /\ op[p] = "cancel" => \A c \in ids[p] : Member(c) \/ row[c].kind = "Interview"
    /\ op[p] = "meeting" => \A c \in ids[p] : row[c].kind = "Meeting"
    /\ op[p] = "interview" => \A c \in ids[p] : row[c].kind = "Interview"
    /\ op[p] = "event" => \A c \in ids[p] : Live(row, c) => row[c].event = "pending"
    /\ op[p] = "retime" => \E e \in Events :
         /\ \A c \in ids[p] : Live(row, c) => row[c].event = e
         /\ Holds(e) \subseteq ids[p] \/ \A c \in ids[p] : ~Live(row, c)

Apart(p, q) ==
    p # q /\ op[p] = op[q] /\ op[p] \in {"event", "interview"} => ids[p] \cap ids[q] = {}

Keyed == \A c \in Claims : row[c].event # NoEvent => row[c].kind = "Web"

\* What an interview that releases its booking leaves of it.
Released(a, b) ==
    \/ a.kind = "Cancelled" /\ a.event = NoEvent
    \/ /\ a.kind = b.kind /\ a.room = b.room /\ a.start = b.start /\ a.event = b.event
       /\ a.end <= b.end /\ a.start < a.end

Releases(p) ==
    op[p] = "interview" =>
        /\ \A c \in ids[p] : Released(saw[p][c], row[c])
        /\ at[p] = "write" => ~Taken(saw[p], want[p], want[p].start, want[p].end, {})

\* The holds of an event that no edit has touched.
SameStart(S) ==
    \A c, d \in S : Firm(c) /\ Firm(d) =>
        row[c].start = row[d].start /\ (c # d => row[c].room # row[d].room)

Gathers(p) ==
    /\ op[p] = "event" =>
         \A c \in ids[p] : Firm(c) => row[c].start = want[p].start /\ row[c].end > row[c].start
    /\ op[p] = "event" =>
         \A c, d \in ids[p] : Firm(c) /\ Firm(d) /\ c # d => row[c].room # row[d].room
    /\ op[p] = "event" /\ at[p] = "write" =>
         \A c \in ids[p] : Firm(c) => row[c].room # want[p].room
    /\ op[p] \in {"extend", "cancel"} =>
         \A c \in ids[p] : Firm(c) /\ row[c].event = "pending" => saw[p][c].start = row[c].start

Together == \A e \in Events : SameStart(Holds(e))

\* No sound booking but those of X is in the way of w.
Clear(w, X) ==
    \A d \in Claims \ X :
        Sound(d) /\ row[d].room = w.room /\ Overlap(row[d], w.start, w.end)
          => ~Blocks(row[d].kind, w.kind)

Tested(p) ==
    /\ at[p] = "write" /\ op[p] \in {"book", "event"} => Clear(want[p], {})
    /\ at[p] = "write" /\ op[p] \in {"edit", "extend"} => Clear(want[p], ids[p])
    /\ op[p] = "retime" => \A c \in ids[p] :
         \/ at[p] = "lock" /\ \E i \in 1..Len(todo[p]) : todo[p][i] = c
         \/ Clear([want[p] EXCEPT !.room = saw[p][c].room], {c})

Proper == \A c \in Claims : Sound(c) => row[c].start < row[c].end

-----------------------------------------------------------------------------
(* Steps, and what they leave alone.                                        *)

\* What a request does: the disjuncts of Next, by what they can disturb.
Asks(p) ==
    \/ \E r \in Rooms :
        \/ \E s \in Slots["book"], k \in {"Web", "InterviewHold"} : Book(p, r, s, k)
        \/ \E c \in Claims : Edit(p, c, r)
        \/ \E s \in Slots["meeting"], S \in NoneOrOne : Meeting(p, r, s, S)
    \/ \E rooms \in Picks :
        \/ \E s \in Slots["event"] : BookForEvent(p, rooms, s)
        \/ \E s \in Slots["interview"], S \in NoneOrOne : Interview(p, rooms, s, S)
    \/ \E e \in Events, s \in Slots["retime"] : \E order \in Orders(Holds(e)) :
         Retime(p, e, s, order)
    \/ \E c \in Claims : Extend(p, c)
    \/ \E S \in Cancelable : Cancel(p, S)

Tries(p) ==
    \/ BookNextRoom(p) \/ GoogleFails(p) \/ LockFirst(p) \/ RetimeNext(p)
    \/ InterviewRoom(p) \/ DeadlockVictim(p)
    \/ \E w \in Asked(p) : LockAndTest(p, w)
    \/ \E c \in Claims : CancelFails(p, c)

Writes(p) ==
    \/ \E c \in Claims : \/ WriteBooking(p, c) \/ WriteInterview(p, c)
                         \/ CancelOne(p, c) \/ WriteMeeting(p, c)
    \/ \E e \in Events : EventSaved(p, e)
    \/ Release(p) \/ RequestDies(p) \/ WriteChange(p)

Step(p) == Asks(p) \/ Tries(p) \/ Writes(p)

\* A step is of the clock or of a request.
LEMMA Steps == Next => Tick \/ \E p \in Requests : Step(p)
<1> SUFFICES ASSUME Next, ~Tick PROVE \E p \in Requests : Step(p)
  OBVIOUS
<1>1. PICK p \in Requests :
        \/ \E r \in Rooms :
            \/ \E s \in Slots["book"], k \in {"Web", "InterviewHold"} : Book(p, r, s, k)
            \/ \E c \in Claims : Edit(p, c, r)
            \/ \E s \in Slots["meeting"], S \in NoneOrOne : Meeting(p, r, s, S)
        \/ \E rooms \in Picks :
            \/ \E s \in Slots["event"] : BookForEvent(p, rooms, s)
            \/ \E s \in Slots["interview"], S \in NoneOrOne : Interview(p, rooms, s, S)
        \/ \E e \in Events :
            \/ EventSaved(p, e)
            \/ \E s \in Slots["retime"], order \in Orders(Holds(e)) : Retime(p, e, s, order)
        \/ \E c \in Claims :
            \/ WriteBooking(p, c) \/ Extend(p, c) \/ WriteInterview(p, c)
            \/ CancelOne(p, c) \/ CancelFails(p, c) \/ WriteMeeting(p, c)
        \/ \E S \in Cancelable : Cancel(p, S)
        \/ \E w \in Asked(p) : LockAndTest(p, w)
        \/ BookNextRoom(p) \/ GoogleFails(p) \/ Release(p) \/ RequestDies(p)
        \/ LockFirst(p) \/ RetimeNext(p) \/ WriteChange(p)
        \/ DeadlockVictim(p) \/ InterviewRoom(p)
  BY DEF Next
<1>2. CASE Asks(p)
  BY <1>2 DEF Step
<1>3. CASE ~Asks(p) /\ ~Tries(p)
  <2>1. Writes(p)
    BY <1>1, <1>3 DEF Asks, Tries, Writes
  <2> QED BY <2>1 DEF Step
<1> QED BY <1>2, <1>3 DEF Step

\* Asking and trying change no row.
LEMMA NothingWritten ==
    ASSUME NEW p, Asks(p) \/ Tries(p)
    PROVE  UNCHANGED <<clock, row, stale, loose, late>>
<1>1. CASE Asks(p)
  BY <1>1 DEF Asks, Book, Edit, Meeting, BookForEvent, Interview, Retime, Extend, Cancel, history
<1>2. CASE Tries(p)
  BY <1>2 DEF Tries, BookNextRoom, GoogleFails, LockFirst, RetimeNext, InterviewRoom,
              DeadlockVictim, LockAndTest, CancelFails, history
<1> QED BY <1>1, <1>2

\* The variables of the requests, without what they must contain.
Functions ==
    /\ at = [q \in Requests |-> at[q]] /\ op = [q \in Requests |-> op[q]]
    /\ want = [q \in Requests |-> want[q]] /\ ids = [q \in Requests |-> ids[q]]
    /\ saw = [q \in Requests |-> saw[q]] /\ todo = [q \in Requests |-> todo[q]]
    /\ lock \in [Rooms -> Requests \cup {Free}]

\* A step of p leaves everything of q alone.
Stands(p, q) ==
    /\ at'[q] = at[q] /\ op'[q] = op[q] /\ want'[q] = want[q] /\ ids'[q] = ids[q]
    /\ saw'[q] = saw[q] /\ todo'[q] = todo[q]
    /\ \A r \in Rooms : lock'[r] = q <=> lock[r] = q

\* Only p's own variables change: the request is answered, asks or goes on.
Own(p) ==
    /\ Functions'
    /\ \A q \in Requests \ {p} : Stands(p, q)

\* A request that ends gives back its locks and forgets what it carried.
LEMMA FinishOwn ==
    ASSUME Functions, NEW p \in Requests, Finish(p)
    PROVE  /\ Own(p)
           /\ at'[p] = "idle" /\ op'[p] = "none" /\ want'[p] = NoWant /\ ids'[p] = {}
           /\ saw'[p] = <<>> /\ todo'[p] = <<>> /\ \A r \in Rooms : lock'[r] # p
<1>1. Free \notin Requests
  BY RoomsAssumption
<1>2. /\ lock' \in [Rooms -> Requests \cup {Free}]
      /\ \A r \in Rooms : lock'[r] # p
      /\ \A q \in Requests \ {p} : \A r \in Rooms : lock'[r] = q <=> lock[r] = q
  BY <1>1 DEF Functions, Finish, Unlocked
<1>3. /\ at'[p] = "idle" /\ op'[p] = "none" /\ want'[p] = NoWant /\ ids'[p] = {}
      /\ saw'[p] = <<>> /\ todo'[p] = <<>>
  BY DEF Functions, Finish
<1>4. ASSUME NEW q \in Requests \ {p}
      PROVE  /\ at'[q] = at[q] /\ op'[q] = op[q] /\ want'[q] = want[q] /\ ids'[q] = ids[q]
             /\ saw'[q] = saw[q] /\ todo'[q] = todo[q]
  BY DEF Functions, Finish
<1>5. Functions'
  BY <1>2 DEF Functions, Finish
<1>6. Own(p)
  BY <1>2, <1>4, <1>5 DEF Own, Stands
<1> QED BY <1>2, <1>3, <1>6

LEMMA StartOwn ==
    ASSUME Functions, NEW p \in Requests, NEW o, NEW pc, NEW w, NEW S, NEW t, NEW rooms,
           Start(p, o, pc, w, S, t, rooms),
           lock' = lock \/ \E r \in Rooms : lock[r] = Free /\ Locked(p, r)
    PROVE  /\ Own(p)
           /\ at[p] = "idle" /\ at'[p] = pc /\ op'[p] = o /\ want'[p] = w /\ ids'[p] = S
           /\ saw'[p] = t /\ todo'[p] = rooms
<1>1. Free \notin Requests
  BY RoomsAssumption
<1> QED BY <1>1 DEF Functions, Start, Locked, Own, Stands

\* The other requests stand while p asks.
LEMMA AsksOwn ==
    ASSUME Functions, NEW p \in Requests, Asks(p)
    PROVE  Own(p)
<1>1. ASSUME NEW r \in Rooms, NEW s, NEW k, Book(p, r, s, k)
      PROVE  Own(p)
  BY <1>1, StartOwn DEF Book
<1>2. ASSUME NEW c, NEW r, Edit(p, c, r)
      PROVE  Own(p)
  BY <1>2, StartOwn DEF Edit
<1>3. ASSUME NEW r, NEW s, NEW S, Meeting(p, r, s, S)
      PROVE  Own(p)
  BY <1>3, StartOwn DEF Meeting
<1>4. ASSUME NEW rooms, NEW s, BookForEvent(p, rooms, s)
      PROVE  Own(p)
  BY <1>4, StartOwn DEF BookForEvent
<1>5. ASSUME NEW rooms, NEW s, NEW S, Interview(p, rooms, s, S)
      PROVE  Own(p)
  BY <1>5, StartOwn DEF Interview
<1>6. ASSUME NEW e, NEW s, NEW order, Retime(p, e, s, order)
      PROVE  Own(p)
  BY <1>6, StartOwn DEF Retime
<1>7. ASSUME NEW c, Extend(p, c)
      PROVE  Own(p)
  BY <1>7, StartOwn DEF Extend
<1>8. ASSUME NEW S, Cancel(p, S)
      PROVE  Own(p)
  BY <1>8, StartOwn DEF Cancel
<1> QED BY <1>1, <1>2, <1>3, <1>4, <1>5, <1>6, <1>7, <1>8 DEF Asks

\* A request that goes on changes its own variables.
GoesOn(p) ==
    /\ op' = op
    /\ at' = at \/ \E x : at' = [at EXCEPT ![p] = x]
    /\ want' = want \/ \E x : want' = [want EXCEPT ![p] = x]
    /\ ids' = ids \/ \E x : ids' = [ids EXCEPT ![p] = x]
    /\ saw' = saw \/ \E x : saw' = [saw EXCEPT ![p] = x]
    /\ todo' = todo \/ \E x : todo' = [todo EXCEPT ![p] = x]
    /\ \/ lock' = lock \/ lock' = Unlocked(p)
       \/ \E r : LockFree(p, r) /\ Locked(p, r)

LEMMA GoesOnOwn ==
    ASSUME Functions, NEW p \in Requests, GoesOn(p)
    PROVE  Own(p)
<1>1. Free \notin Requests
  BY RoomsAssumption
<1>2. /\ lock' \in [Rooms -> Requests \cup {Free}]
      /\ \A q \in Requests \ {p} : \A r \in Rooms : lock'[r] = q <=> lock[r] = q
  <2>1. CASE lock' = lock
    BY <2>1 DEF Functions
  <2>2. CASE lock' = Unlocked(p)
    BY <1>1, <2>2 DEF Functions, Unlocked
  <2>3. CASE \E r : LockFree(p, r) /\ Locked(p, r)
    BY <1>1, <2>3 DEF Functions, LockFree, Locked
  <2> QED BY <2>1, <2>2, <2>3 DEF GoesOn
<1>3. /\ at' = [q \in Requests |-> at'[q]] /\ \A q \in Requests \ {p} : at'[q] = at[q]
  BY DEF Functions, GoesOn
<1>4. /\ want' = [q \in Requests |-> want'[q]] /\ \A q \in Requests \ {p} : want'[q] = want[q]
  BY DEF Functions, GoesOn
<1>5. /\ ids' = [q \in Requests |-> ids'[q]] /\ \A q \in Requests \ {p} : ids'[q] = ids[q]
  BY DEF Functions, GoesOn
<1>6. /\ saw' = [q \in Requests |-> saw'[q]] /\ \A q \in Requests \ {p} : saw'[q] = saw[q]
  BY DEF Functions, GoesOn
<1>7. /\ todo' = [q \in Requests |-> todo'[q]] /\ \A q \in Requests \ {p} : todo'[q] = todo[q]
  BY DEF Functions, GoesOn
<1>8. op' = [q \in Requests |-> op'[q]] /\ \A q \in Requests \ {p} : op'[q] = op[q]
  BY DEF Functions, GoesOn
<1> QED BY <1>2, <1>3, <1>4, <1>5, <1>6, <1>7, <1>8 DEF Own, Stands, Functions

\* How each attempt that does not end the request goes on.
LEMMA BookNextRoomOwn ==
    ASSUME Functions, NEW p \in Requests, BookNextRoom(p)
    PROVE  LET w == [want[p] EXCEPT !.room = Head(todo[p])]
           IN  /\ Own(p) /\ op'[p] = op[p] /\ ids'[p] = ids[p] /\ saw'[p] = saw[p]
               /\ \/ /\ at'[p] = "release" /\ want'[p] = want[p] /\ todo'[p] = todo[p]
                     /\ lock' = lock
                  \/ /\ at'[p] = "write" /\ want'[p] = w /\ todo'[p] = Tail(todo[p])
                     /\ Locked(p, Head(todo[p]))
                     /\ ~Taken(row, w, w.start, w.end, {})
<1> DEFINE r == Head(todo[p])
           w == [want[p] EXCEPT !.room = r]
<1>1. CASE w.start < clock \/ Taken(row, w, w.start, w.end, {})
  <2>1. GoesOn(p)
    BY <1>1 DEF BookNextRoom, GoesOn
  <2> QED BY <1>1, <2>1, GoesOnOwn DEF BookNextRoom, Functions
<1>2. CASE ~(w.start < clock \/ Taken(row, w, w.start, w.end, {}))
  <2>1. LockFree(p, r) /\ Locked(p, r)
    BY <1>2 DEF BookNextRoom, LockFree
  <2>2. /\ at' = [at EXCEPT ![p] = "write"] /\ want' = [want EXCEPT ![p] = w]
        /\ todo' = [todo EXCEPT ![p] = Tail(todo[p])] /\ UNCHANGED <<op, ids, saw>>
    BY <1>2 DEF BookNextRoom, Functions
  <2> HIDE DEF r, w
  <2>3. GoesOn(p)
    BY <2>1, <2>2 DEF GoesOn
  <2> USE DEF r, w
  <2> QED BY <1>2, <2>1, <2>2, <2>3, GoesOnOwn DEF Functions
<1> QED BY <1>1, <1>2

LEMMA GoogleFailsOwn ==
    ASSUME Functions, NEW p \in Requests, GoogleFails(p)
    PROVE  /\ Own(p) /\ at'[p] = "release" /\ op'[p] = op[p] /\ want'[p] = want[p]
           /\ ids'[p] = ids[p] /\ saw'[p] = saw[p] /\ todo'[p] = todo[p] /\ lock' = lock
<1>1. GoesOn(p)
  BY DEF GoogleFails, GoesOn
<1> QED BY <1>1, GoesOnOwn DEF GoogleFails, Functions

LEMMA LockFirstOwn ==
    ASSUME Functions, NEW p \in Requests, LockFirst(p)
    PROVE  /\ Own(p) /\ at'[p] = at[p] /\ op'[p] = op[p] /\ want'[p] = want[p]
           /\ ids'[p] = ids[p] /\ saw'[p] = saw[p] /\ todo'[p] = Tail(todo[p])
           /\ LockFree(p, Next2Lock(p)) /\ Locked(p, Next2Lock(p))
<1>1. GoesOn(p)
  BY DEF LockFirst, GoesOn
<1> QED BY <1>1, GoesOnOwn DEF LockFirst, Functions

LEMMA RetimeNextOwn ==
    ASSUME Functions, NEW p \in Requests, RetimeNext(p)
    PROVE  LET c == Head(todo[p])
               w == [want[p] EXCEPT !.room = saw[p][c].room]
           IN  \/ Finish(p)
               \/ /\ Own(p) /\ op'[p] = op[p] /\ ids'[p] = ids[p] /\ saw'[p] = saw[p]
                  /\ want'[p] = want[p] /\ todo'[p] = Tail(todo[p])
                  /\ at'[p] = IF Len(todo[p]) = 1 THEN "write" ELSE "lock"
                  /\ LockFree(p, w.room) /\ Locked(p, w.room)
                  /\ ~Taken(row, w, w.start, w.end, {c})
<1> DEFINE c == Head(todo[p])
           w == [want[p] EXCEPT !.room = saw[p][c].room]
<1>1. CASE Taken(row, w, w.start, w.end, {c})
  BY <1>1 DEF RetimeNext
<1>2. CASE ~Taken(row, w, w.start, w.end, {c})
  <2>1. GoesOn(p)
    BY <1>2 DEF RetimeNext, GoesOn
  <2> QED BY <1>2, <2>1, GoesOnOwn DEF RetimeNext, Functions
<1> QED BY <1>1, <1>2

LEMMA InterviewRoomOwn ==
    ASSUME Functions, NEW p \in Requests, InterviewRoom(p)
    PROVE  LET w == [want[p] EXCEPT !.room = Next2Lock(p)]
           IN  \/ Finish(p)
               \/ /\ Own(p) /\ op'[p] = op[p] /\ ids'[p] = ids[p] /\ saw'[p] = saw[p]
                  /\ LockFree(p, w.room) /\ Locked(p, w.room)
                  /\ \/ /\ at'[p] = at[p] /\ want'[p] = want[p] /\ todo'[p] = Tail(todo[p])
                        /\ Len(todo[p]) # 1
                     \/ /\ at'[p] = "write" /\ want'[p] = w /\ todo'[p] = todo[p]
                        /\ ~Taken(saw[p], w, w.start, w.end, {})
<1> DEFINE w == [want[p] EXCEPT !.room = Next2Lock(p)]
<1>1. CASE Taken(saw[p], w, w.start, w.end, {}) /\ Len(todo[p]) = 1
  BY <1>1 DEF InterviewRoom
<1>2. CASE Taken(saw[p], w, w.start, w.end, {}) /\ Len(todo[p]) # 1
  <2>1. GoesOn(p)
    BY <1>2 DEF InterviewRoom, GoesOn
  <2> QED BY <1>2, <2>1, GoesOnOwn DEF InterviewRoom, Functions
<1>3. CASE ~Taken(saw[p], w, w.start, w.end, {})
  <2>1. GoesOn(p)
    BY <1>3 DEF InterviewRoom, GoesOn
  <2> QED BY <1>3, <2>1, GoesOnOwn DEF InterviewRoom, Functions
<1> QED BY <1>1, <1>2, <1>3

LEMMA LockAndTestOwn ==
    ASSUME Functions, NEW p \in Requests, NEW w, LockAndTest(p, w)
    PROVE  \/ Finish(p)
           \/ /\ Own(p) /\ op'[p] = op[p] /\ ids'[p] = ids[p]
              /\ at'[p] = "write" /\ want'[p] = w /\ todo'[p] = <<>>
              /\ op[p] # "edit" => saw'[p] = saw[p]
              /\ LockFree(p, Next2Lock(p)) /\ Locked(p, Next2Lock(p))
              /\ \A c \in ids[p] : ~Taken(row, w, w.start, w.end, {c})
<1>1. CASE \E c \in ids[p] : Refused(p, c, w)
  BY <1>1 DEF LockAndTest
<1>2. CASE ~\E c \in ids[p] : Refused(p, c, w)
  <2>1. GoesOn(p)
    BY <1>2 DEF LockAndTest, GoesOn
  <2>2. \A c \in ids[p] : ~Taken(row, w, w.start, w.end, {c})
    BY <1>2 DEF Refused
  <2> QED BY <1>2, <2>1, <2>2, GoesOnOwn DEF LockAndTest, Functions
<1> QED BY <1>1, <1>2

LEMMA TriesOwn ==
    ASSUME Functions, NEW p \in Requests, Tries(p)
    PROVE  Own(p)
<1>1. CASE DeadlockVictim(p) \/ \E c \in Claims : CancelFails(p, c)
  BY <1>1, FinishOwn DEF DeadlockVictim, CancelFails
<1>2. ASSUME NEW w, LockAndTest(p, w)
      PROVE  Own(p)
  BY <1>2, LockAndTestOwn, FinishOwn
<1> QED BY <1>1, <1>2, FinishOwn, BookNextRoomOwn, GoogleFailsOwn, LockFirstOwn, RetimeNextOwn,
           InterviewRoomOwn DEF Tries

\* A booking of an event is written and the request goes on.
LEMMA WriteBookingOwn ==
    ASSUME Functions, NEW p \in Requests, NEW c, WriteBooking(p, c)
    PROVE  \/ op[p] = "book" /\ Finish(p)
           \/ /\ Own(p) /\ op[p] = "event" /\ op'[p] = op[p] /\ want'[p] = want[p]
              /\ at'[p] = "rooms" /\ ids'[p] = ids[p] \cup {c} /\ saw'[p] = saw[p]
              /\ todo'[p] = todo[p] /\ lock' = Unlocked(p)
<1>1. CASE op[p] = "book"
  BY <1>1 DEF WriteBooking
<1>2. CASE op[p] # "book"
  <2>1. GoesOn(p)
    BY <1>2 DEF WriteBooking, GoesOn
  <2> QED BY <1>2, <2>1, GoesOnOwn DEF WriteBooking, Functions
<1> QED BY <1>1, <1>2

LEMMA CancelOneOwn ==
    ASSUME Functions, NEW p \in Requests, NEW c, CancelOne(p, c)
    PROVE  \/ Finish(p)
           \/ /\ Own(p) /\ op'[p] = op[p] /\ at'[p] = at[p] /\ want'[p] = want[p]
              /\ ids'[p] = ids[p] \ {c} /\ saw'[p] = saw[p] /\ todo'[p] = todo[p] /\ lock' = lock
<1>1. CASE ids[p] = {c}
  BY <1>1 DEF CancelOne
<1>2. CASE ids[p] # {c}
  <2>1. GoesOn(p)
    BY <1>2 DEF CancelOne, GoesOn
  <2> QED BY <1>2, <2>1, GoesOnOwn DEF CancelOne, Functions
<1> QED BY <1>1, <1>2

LEMMA WritesOwn ==
    ASSUME Functions, NEW p \in Requests, Writes(p)
    PROVE  Own(p)
<1>1. ASSUME NEW c, WriteBooking(p, c) \/ CancelOne(p, c)
      PROVE  Own(p)
  BY <1>1, WriteBookingOwn, CancelOneOwn, FinishOwn
<1>2. ASSUME NEW c, WriteInterview(p, c) \/ WriteMeeting(p, c)
      PROVE  Own(p)
  BY <1>2, FinishOwn DEF WriteInterview, WriteMeeting
<1>3. ASSUME NEW e, EventSaved(p, e)
      PROVE  Own(p)
  BY <1>3, FinishOwn DEF EventSaved
<1>4. CASE Release(p) \/ RequestDies(p) \/ WriteChange(p)
  BY <1>4, FinishOwn DEF Release, RequestDies, WriteChange
<1> QED BY <1>1, <1>2, <1>3, <1>4 DEF Writes

\* A step of a request touches nothing that another request carries or holds.
LEMMA StepOwn ==
    ASSUME Functions, NEW p \in Requests, Step(p)
    PROVE  Own(p)
BY AsksOwn, TriesOwn, WritesOwn DEF Step

-----------------------------------------------------------------------------
(* What requests carry: types and shapes.                                   *)

WantTypes == [room : Rooms \cup {0}, start : Times, end : Times, kind : Kinds,
              event : EventKeys]

Typed(p) ==
    /\ at[p] \in {"idle", "rooms", "write", "release", "lock", "cancel", "meet"}
    /\ op[p] \in {"none"} \cup UNION Mixes
    /\ want[p] \in WantTypes
    /\ ids[p] \subseteq Claims
    /\ DOMAIN saw[p] \subseteq Claims /\ \A c \in DOMAIN saw[p] : saw[p][c] \in RowTypes
    /\ todo[p] \in Seq(Rooms \cup Claims)

Fits(p) == Typed(p) /\ Shape(p) /\ Carries(p) /\ Waits(p)

Base ==
    /\ clock \in 0..MaxClock /\ row \in [Claims -> RowTypes] /\ Placed
    /\ stale \subseteq Claims /\ loose \subseteq Claims /\ late \subseteq Claims
    /\ Functions /\ \A p \in Requests : Fits(p)

\* The base of the invariant is stronger than the type invariant.
LEMMA BaseTypes == Base => TypeOK
BY DEF Base, Functions, Fits, Typed, TypeOK, WantTypes

\* Facts about the values a request starts with.
LEMMA Values ==
    /\ NoRow \in RowTypes /\ NoWant \in WantTypes /\ Cancelled \in RowTypes /\ Deleted \in RowTypes
    /\ NoWant.event = NoEvent
    /\ Cancelled.kind = "Cancelled" /\ Cancelled.event = NoEvent
    /\ Deleted.kind = "Deleted" /\ Deleted.event = NoEvent
    /\ NoRow.kind = "None" /\ NoRow.event = NoEvent
BY RoomsAssumption DEF NoRow, NoWant, Cancelled, Deleted, RowTypes, WantTypes, EventKeys, Kinds, Times

\* What a request asks for has the room, span and kind it was asked with.
LEMMA Asking ==
    ASSUME NEW r \in Rooms \cup {0}, NEW s \in Times \X Times, NEW k \in Kinds
    PROVE  LET w == Ask(r, s, k)
           IN  /\ w \in WantTypes /\ w.room = r /\ w.start = s[1] /\ w.end = s[2]
               /\ w.kind = k /\ w.event = NoEvent
<1>1. ASSUME NEW n \in WantTypes, n.event = NoEvent
      PROVE  LET w == [n EXCEPT !.room = r, !.start = s[1], !.end = s[2], !.kind = k]
             IN  /\ w \in WantTypes /\ w.room = r /\ w.start = s[1] /\ w.end = s[2]
                 /\ w.kind = k /\ w.event = NoEvent
  BY <1>1 DEF WantTypes
<1>2. NoWant \in WantTypes /\ NoWant.event = NoEvent
  BY Values
<1> QED BY <1>1, <1>2 DEF Ask

\* The room is still to come.
LEMMA AskingNowhere ==
    ASSUME NEW s \in Times \X Times, NEW k \in Kinds
    PROVE  LET w == Ask(0, s, k)
           IN  /\ w \in WantTypes /\ w.room = 0 /\ w.start = s[1] /\ w.end = s[2]
               /\ w.kind = k /\ w.event = NoEvent
<1>1. PICK z : z = 0
  OBVIOUS
<1>2. z \in Rooms \cup {0}
  BY <1>1
<1>3. LET w == Ask(z, s, k)
      IN  /\ w \in WantTypes /\ w.room = z /\ w.start = s[1] /\ w.end = s[2]
          /\ w.kind = k /\ w.event = NoEvent
  BY <1>2, Asking
<1> QED BY <1>1, <1>3

\* The times a request may ask for.
LEMMA Slot ==
    ASSUME NEW o \in {"book", "event", "edit", "retime", "interview", "meeting"},
           NEW s \in Slots[o]
    PROVE  s \in Times \X Times /\ s[1] < s[2]
BY RoomsAssumption DEF Times

LEMMA FinishFits ==
    ASSUME Base, NEW p \in Requests, Finish(p)
    PROVE  Fits(p)'
<1>1. /\ at'[p] = "idle" /\ op'[p] = "none" /\ want'[p] = NoWant /\ ids'[p] = {}
      /\ saw'[p] = <<>> /\ todo'[p] = <<>>
  BY FinishOwn DEF Base
<1>2. Typed(p)'
  BY <1>1, Values DEF Typed
<1> QED BY <1>1, <1>2 DEF Fits, Shape, Carries, Waits

\* Requests that stand keep what they carry.
LEMMA StandingFits ==
    ASSUME Base, NEW p \in Requests, Own(p), NEW q \in Requests \ {p}
    PROVE  Fits(q)'
<1>1. Fits(q)
  BY DEF Base
<1>2. /\ at'[q] = at[q] /\ op'[q] = op[q] /\ want'[q] = want[q] /\ ids'[q] = ids[q]
      /\ saw'[q] = saw[q] /\ todo'[q] = todo[q]
  BY DEF Own, Stands
<1>3. Typed(q)'
  BY <1>1, <1>2 DEF Fits, Typed
<1>4. Shape(q)' /\ Waits(q)'
  BY <1>1, <1>2 DEF Fits, Shape, Waits
<1>5. Carries(q)'
  BY <1>1, <1>2 DEF Fits, Carries, Live
<1> QED BY <1>3, <1>4, <1>5 DEF Fits

\* What is asked for has a name in some mix.
LEMMA Named ==
    ASSUME NEW p, NEW o, NEW pc, NEW w, NEW S, NEW t, NEW rooms, Start(p, o, pc, w, S, t, rooms)
    PROVE  o \in {"none"} \cup UNION Mixes
BY DEF Start

\* What a request reads of some claims is their rows.
LEMMA ReadRows ==
    ASSUME Base, NEW S \in SUBSET Claims
    PROVE  /\ DOMAIN Read(S) = S /\ \A c \in S : Read(S)[c] = row[c]
           /\ \A c \in S : Read(S)[c] \in RowTypes
BY DEF Base, Read

LEMMA BookFits ==
    ASSUME Base, NEW p \in Requests, NEW r \in Rooms, NEW s \in Slots["book"],
           NEW k \in {"Web", "InterviewHold"}, Book(p, r, s, k)
    PROVE  Fits(p)'
<1>1. s \in Times \X Times /\ s[1] < s[2]
  BY Slot
<1>2. PICK w : w = Ask(r, s, k)
  OBVIOUS
<1>3. /\ w \in WantTypes /\ w.room = r /\ w.start = s[1] /\ w.end = s[2]
      /\ w.kind = k /\ w.event = NoEvent
  BY <1>1, <1>2, Asking DEF Kinds
<1>4. Start(p, "book", "write", w, {}, <<>>, <<>>) /\ Locked(p, r) /\ lock[r] = Free
  BY <1>2 DEF Book
<1>5. /\ at'[p] = "write" /\ op'[p] = "book" /\ want'[p] = w /\ ids'[p] = {}
      /\ saw'[p] = <<>> /\ todo'[p] = <<>>
  BY <1>4, StartOwn DEF Base
<1>6. Typed(p)'
  BY <1>3, <1>4, <1>5, Named DEF Typed
<1> QED BY <1>1, <1>3, <1>5, <1>6 DEF Fits, Shape, Carries, Waits

LEMMA MeetingFits ==
    ASSUME Base, NEW p \in Requests, NEW r \in Rooms, NEW s \in Slots["meeting"],
           NEW S \in NoneOrOne, Meeting(p, r, s, S)
    PROVE  Fits(p)'
<1>1. s \in Times \X Times /\ s[1] < s[2] /\ S \subseteq Claims
  BY Slot DEF NoneOrOne
<1>2. PICK w : w = Ask(r, s, "Web")
  OBVIOUS
<1>3. w \in WantTypes /\ w.room = r /\ w.event = NoEvent
  BY <1>1, <1>2, Asking DEF Kinds
<1>4. Start(p, "meeting", "meet", w, S, <<>>, <<>>) /\ lock' = lock
  BY <1>2 DEF Meeting
<1>5. /\ at'[p] = "meet" /\ op'[p] = "meeting" /\ want'[p] = w /\ ids'[p] = S
      /\ saw'[p] = <<>> /\ todo'[p] = <<>>
  BY <1>4, StartOwn DEF Base
<1>6. Typed(p)'
  BY <1>1, <1>3, <1>4, <1>5, Named DEF Typed
<1> QED BY <1>3, <1>5, <1>6 DEF Fits, Shape, Carries, Waits

LEMMA BookForEventFits ==
    ASSUME Base, NEW p \in Requests, NEW rooms \in Picks, NEW s \in Slots["event"],
           BookForEvent(p, rooms, s)
    PROVE  Fits(p)'
<1>1. s \in Times \X Times /\ s[1] < s[2] /\ rooms \in Seq(Rooms)
  BY Slot, RoomsAssumption
<1>2. PICK w : w = [Ask(0, s, "Web") EXCEPT !.event = "pending"]
  OBVIOUS
<1>3. /\ w \in WantTypes /\ w.room = 0 /\ w.start = s[1] /\ w.end = s[2]
      /\ w.kind = "Web" /\ w.event = "pending"
  <2>1. ASSUME NEW n \in WantTypes
        PROVE  LET m == [n EXCEPT !.event = "pending"]
               IN  /\ m \in WantTypes /\ m.room = n.room /\ m.start = n.start
                   /\ m.end = n.end /\ m.kind = n.kind /\ m.event = "pending"
    BY DEF WantTypes, EventKeys
  <2>2. LET n == Ask(0, s, "Web")
        IN  n \in WantTypes /\ n.room = 0 /\ n.start = s[1] /\ n.end = s[2] /\ n.kind = "Web"
    BY <1>1, AskingNowhere DEF Kinds
  <2> QED BY <1>2, <2>1, <2>2
<1>4. Start(p, "event", "rooms", w, {}, <<>>, rooms) /\ lock' = lock
  BY <1>2 DEF BookForEvent
<1>5. /\ at'[p] = "rooms" /\ op'[p] = "event" /\ want'[p] = w /\ ids'[p] = {}
      /\ saw'[p] = <<>> /\ todo'[p] = rooms
  BY <1>4, StartOwn DEF Base
<1>6. Typed(p)'
  BY <1>1, <1>3, <1>4, <1>5, Named DEF Typed
<1> QED BY <1>1, <1>3, <1>5, <1>6 DEF Fits, Shape, Carries, Waits

\* A booking released now is a row, in the room it was in.
LEMMA Ending ==
    ASSUME Base, NEW b \in RowTypes
    PROVE  /\ Ended(b) \in RowTypes
           /\ \/ Ended(b) = Cancelled
              \/ /\ Ended(b).kind = b.kind /\ Ended(b).room = b.room
                 /\ Ended(b).start = b.start /\ Ended(b).event = b.event
                 /\ Ended(b).end = clock /\ b.start < clock /\ clock < b.end
<1>1. CASE Underway(b)
  <2>1. clock \in Times /\ b.start < clock /\ clock < b.end
    BY <1>1, RoomsAssumption DEF Base, Underway, RowTypes, Times
  <2>2. [b EXCEPT !.end = clock] \in RowTypes
    BY <2>1 DEF RowTypes
  <2> QED BY <1>1, <2>1, <2>2 DEF Ended, RowTypes
<1>2. CASE ~Underway(b)
  BY <1>2, Values DEF Ended
<1> QED BY <1>1, <1>2

LEMMA InterviewFits ==
    ASSUME Base, NEW p \in Requests, NEW rooms \in Picks, NEW s \in Slots["interview"],
           NEW S \in NoneOrOne, Interview(p, rooms, s, S)
    PROVE  Fits(p)'
<1>1. /\ s \in Times \X Times /\ s[1] < s[2] /\ rooms \in Seq(Rooms) /\ rooms # <<>>
      /\ S \subseteq Claims
  BY Slot, RoomsAssumption DEF NoneOrOne
<1>2. PICK w : w = Ask(0, s, "Interview")
  OBVIOUS
<1>3. /\ w \in WantTypes /\ w.start = s[1] /\ w.end = s[2]
      /\ w.kind = "Interview" /\ w.event = NoEvent
  BY <1>1, <1>2, AskingNowhere DEF Kinds
<1>4. PICK t : t = [c \in Claims |-> IF c \in S THEN Ended(row[c]) ELSE row[c]]
  OBVIOUS
<1>5. /\ DOMAIN t = Claims
      /\ \A c \in Claims : t[c] \in RowTypes /\ (Live(t, c) => t[c].room \in Rooms)
  <2>1. ASSUME NEW c \in Claims
        PROVE  t[c] \in RowTypes /\ (Live(t, c) => t[c].room \in Rooms)
    <3>1. row[c] \in RowTypes /\ (Live(row, c) => row[c].room \in Rooms)
      BY DEF Base, Placed
    <3>2. CASE c \in S
      <4>1. t[c] = Ended(row[c])
        BY <1>4, <3>2
      <4> QED BY <3>1, <4>1, Ending, Values DEF Live, Kinds
    <3>3. CASE c \notin S
      BY <1>4, <3>1, <3>3 DEF Live
    <3> QED BY <3>2, <3>3
  <2> QED BY <1>4, <2>1
<1>6. Start(p, "interview", "lock", w, S, t, rooms) /\ lock' = lock
  BY <1>2, <1>4 DEF Interview
<1>7. /\ at'[p] = "lock" /\ op'[p] = "interview" /\ want'[p] = w /\ ids'[p] = S
      /\ saw'[p] = t /\ todo'[p] = rooms
  BY <1>6, StartOwn DEF Base
<1>8. Typed(p)'
  BY <1>1, <1>3, <1>5, <1>6, <1>7, Named DEF Typed
<1>9. \A c \in Claims : Live(saw'[p], c) => saw'[p][c].room \in Rooms
  BY <1>5, <1>7
<1>10. Carries(p)'
  BY <1>1, <1>3, <1>5, <1>7, <1>9 DEF Carries
<1> QED BY <1>1, <1>7, <1>8, <1>10 DEF Fits, Shape, Waits

\* An edit takes the rooms it needs in ascending order, each once.
LEMMA InOrder ==
    ASSUME NEW a \in Rooms, NEW b \in Rooms
    PROVE  LET o == LockOrder(a, b)
           IN  /\ o \in Seq(Rooms) /\ Len(o) \in {1, 2} /\ (Len(o) = 2 => o[1] < o[2])
<1>1. a \in Nat /\ b \in Nat
  BY RoomsAssumption
<1>2. CASE a = b
  <2>1. LockOrder(a, b) = <<a>>
    BY <1>2 DEF LockOrder
  <2> QED BY <2>1
<1>3. CASE a # b /\ a < b
  <2>1. LockOrder(a, b) = <<a, b>>
    BY <1>3 DEF LockOrder
  <2> QED BY <1>3, <2>1
<1>4. CASE a # b /\ ~(a < b)
  <2>1. LockOrder(a, b) = <<b, a>> /\ b < a
    BY <1>1, <1>4 DEF LockOrder
  <2> QED BY <2>1
<1> QED BY <1>2, <1>3, <1>4

\* What a request that reads one live row goes by.
LEMMA ReadOne ==
    ASSUME Base, NEW c \in Claims, Live(row, c)
    PROVE  /\ row[c] \in RowTypes /\ row[c].room \in Rooms
           /\ DOMAIN Read({c}) = {c} /\ Read({c})[c] = row[c]
           /\ \A d \in {c} : Read({c})[d] \in RowTypes
BY ReadRows DEF Base, Placed

LEMMA EditFits ==
    ASSUME Base, NEW p \in Requests, NEW c \in Claims, NEW r \in Rooms, Edit(p, c, r)
    PROVE  Fits(p)'
<1>1. /\ row[c] \in RowTypes /\ row[c].room \in Rooms
      /\ DOMAIN Read({c}) = {c} /\ Read({c})[c] = row[c]
      /\ \A d \in {c} : Read({c})[d] \in RowTypes
  BY ReadOne DEF Edit
<1>2. PICK w : w = Ask(r, <<0, 0>>, "Web")
  OBVIOUS
<1>3. w \in WantTypes /\ w.kind = "Web" /\ w.room = r
  <2>1. <<0, 0>> \in Times \X Times
    BY RoomsAssumption DEF Times
  <2> QED BY <1>2, <2>1, Asking DEF Kinds
<1>4. PICK o : o = LockOrder(row[c].room, r)
  OBVIOUS
<1>5. o \in Seq(Rooms) /\ Len(o) \in {1, 2} /\ (Len(o) = 2 => o[1] < o[2])
  BY <1>1, <1>4, InOrder
<1>6. Start(p, "edit", "lock", w, {c}, Read({c}), o) /\ lock' = lock
  BY <1>2, <1>4 DEF Edit
<1>7. /\ at'[p] = "lock" /\ op'[p] = "edit" /\ want'[p] = w /\ ids'[p] = {c}
      /\ saw'[p] = Read({c}) /\ todo'[p] = o
  BY <1>6, StartOwn DEF Base
<1>a. o \in Seq(Rooms \cup Claims)
  BY <1>5
<1>8. Typed(p)'
  BY <1>1, <1>3, <1>a, <1>6, <1>7, Named DEF Typed
<1> QED BY <1>1, <1>3, <1>5, <1>7, <1>8 DEF Fits, Shape, Carries, Waits

LEMMA ExtendFits ==
    ASSUME Base, NEW p \in Requests, NEW c \in Claims, Extend(p, c)
    PROVE  Fits(p)'
<1>1. /\ row[c] \in RowTypes /\ row[c].room \in Rooms
      /\ DOMAIN Read({c}) = {c} /\ Read({c})[c] = row[c]
      /\ \A d \in {c} : Read({c})[d] \in RowTypes
  BY ReadOne DEF Extend
<1>a. PICK b : b = row[c]
  OBVIOUS
<1>2. /\ b.start \in Int /\ b.end \in Int /\ clock \in Int /\ b.start < b.end
      /\ b.end \in Times /\ b.end + STEP \in Times /\ b.end < b.end + STEP
      /\ b.start < b.end + STEP
  BY <1>1, <1>a, RoomsAssumption DEF Extend, RowTypes, Times, Base
<1>3. PICK w : w = Ask(b.room, <<b.end, b.end + STEP>>, "Web")
  OBVIOUS
<1>4. /\ w \in WantTypes /\ w.kind = "Web" /\ w.room = b.room
      /\ w.start = b.end /\ w.end = b.end + STEP
  <2>1. PICK s : s = <<b.end, b.end + STEP>>
    OBVIOUS
  <2>2. s \in Times \X Times /\ s[1] = b.end /\ s[2] = b.end + STEP
    BY <1>2, <2>1
  <2>3. w = Ask(b.room, s, "Web") /\ b.room \in Rooms
    BY <1>1, <1>a, <1>3, <2>1
  <2> QED BY <2>2, <2>3, Asking DEF Kinds
<1>5. PICK o : o = <<b.room>>
  OBVIOUS
<1>6. o \in Seq(Rooms) /\ Len(o) = 1 /\ Head(o) = b.room
  BY <1>1, <1>a, <1>5
<1>7. Start(p, "extend", "lock", w, {c}, Read({c}), o) /\ lock' = lock
  BY <1>a, <1>3, <1>5 DEF Extend
<1>8. /\ at'[p] = "lock" /\ op'[p] = "extend" /\ want'[p] = w /\ ids'[p] = {c}
      /\ saw'[p] = Read({c}) /\ todo'[p] = o
  BY <1>7, StartOwn DEF Base
<1>b. o \in Seq(Rooms \cup Claims)
  BY <1>6
<1>9. Typed(p)'
  BY <1>1, <1>4, <1>b, <1>7, <1>8, Named DEF Typed
<1>10. Carries(p)'
  BY <1>1, <1>a, <1>2, <1>4, <1>8 DEF Carries
<1>11. Waits(p)'
  BY <1>4, <1>6, <1>8 DEF Waits
<1> QED BY <1>8, <1>9, <1>10, <1>11 DEF Fits, Shape

\* A list of all holds of an event.
LEMMA Ordering ==
    ASSUME NEW S \in SUBSET Claims, S # {}, NEW o \in Orders(S)
    PROVE  o \in Seq(S) /\ o # <<>> /\ \A c \in S : \E i \in 1..Len(o) : o[i] = c
<1>1. IsFiniteSet(S)
  BY RoomsAssumption, FS_Subset
<1>2. PICK n : n = Cardinality(S)
  OBVIOUS
<1>3. n \in Nat /\ n # 0
  BY <1>1, <1>2, FS_CardinalityType, FS_EmptySet
<1>4. o \in [1..n -> S] /\ \A c \in S : \E i \in DOMAIN o : o[i] = c
  BY <1>2 DEF Orders
<1>5. o \in Seq(S) /\ Len(o) = n
  BY <1>3, <1>4
<1> QED BY <1>3, <1>4, <1>5

LEMMA RetimeFits ==
    ASSUME Base, NEW p \in Requests, NEW e \in Events, NEW s \in Slots["retime"],
           NEW o \in Orders(Holds(e)), Retime(p, e, s, o)
    PROVE  Fits(p)'
<1> PICK S : S = Holds(e)
  OBVIOUS
<1>1. S \subseteq Claims /\ S # {} /\ \A c \in S : row[c].room \in Rooms
  BY DEF Holds, Retime, Base, Placed
<1>2. o \in Seq(S) /\ o # <<>>
  BY <1>1, Ordering
<1>3. o \in Seq(Rooms \cup Claims)
  BY <1>1, <1>2
<1>4. s \in Times \X Times /\ s[1] < s[2]
  BY Slot
<1>5. PICK w : w = Ask(0, s, "Web")
  OBVIOUS
<1>6. w \in WantTypes /\ w.start = s[1] /\ w.end = s[2] /\ w.kind = "Web"
  BY <1>4, <1>5, AskingNowhere DEF Kinds
<1>7. PICK t : t = Read(S)
  OBVIOUS
<1>8. /\ DOMAIN t = S /\ \A c \in S : t[c] = row[c] /\ t[c] \in RowTypes
  BY <1>1, <1>7, ReadRows
<1>9. Start(p, "retime", "lock", w, S, t, o) /\ lock' = lock
  BY <1>5, <1>7 DEF Retime
<1>10. /\ at'[p] = "lock" /\ op'[p] = "retime" /\ want'[p] = w /\ ids'[p] = S
       /\ saw'[p] = t /\ todo'[p] = o
  BY <1>9, StartOwn DEF Base
<1>11. Typed(p)'
  BY <1>1, <1>3, <1>6, <1>8, <1>9, <1>10, Named DEF Typed
<1>12. Carries(p)'
  BY <1>1, <1>4, <1>6, <1>8, <1>10 DEF Carries
<1>13. Waits(p)'
  BY <1>2, <1>10 DEF Waits
<1> QED BY <1>10, <1>11, <1>12, <1>13 DEF Fits, Shape

LEMMA CancelFits ==
    ASSUME Base, NEW p \in Requests, NEW S \in Cancelable, Cancel(p, S)
    PROVE  Fits(p)'
<1>1. S \subseteq Claims
  BY DEF Cancelable, Holds
<1>2. PICK t : t = Read(S)
  OBVIOUS
<1>3. DOMAIN t = S /\ \A c \in S : t[c] \in RowTypes
  BY <1>1, <1>2, ReadRows
<1>4. Start(p, "cancel", "cancel", NoWant, S, t, <<>>) /\ lock' = lock
  BY <1>2 DEF Cancel
<1>5. /\ at'[p] = "cancel" /\ op'[p] = "cancel" /\ want'[p] = NoWant /\ ids'[p] = S
      /\ saw'[p] = t /\ todo'[p] = <<>>
  BY <1>4, StartOwn DEF Base
<1>6. Typed(p)'
  BY <1>1, <1>3, <1>4, <1>5, Values, Named DEF Typed
<1> QED BY <1>3, <1>5, <1>6 DEF Fits, Shape, Carries, Waits

\* A request that asks carries what it should.
LEMMA AsksFit ==
    ASSUME Base, NEW p \in Requests, Asks(p)
    PROVE  Fits(p)'
<1>1. CASE \E r \in Rooms :
        \/ \E s \in Slots["book"], k \in {"Web", "InterviewHold"} : Book(p, r, s, k)
        \/ \E c \in Claims : Edit(p, c, r)
        \/ \E s \in Slots["meeting"], S \in NoneOrOne : Meeting(p, r, s, S)
  BY <1>1, BookFits, EditFits, MeetingFits
<1>2. CASE \E rooms \in Picks :
        \/ \E s \in Slots["event"] : BookForEvent(p, rooms, s)
        \/ \E s \in Slots["interview"], S \in NoneOrOne : Interview(p, rooms, s, S)
  BY <1>2, BookForEventFits, InterviewFits
<1>3. CASE \E e \in Events, s \in Slots["retime"] : \E order \in Orders(Holds(e)) :
         Retime(p, e, s, order)
  BY <1>3, RetimeFits
<1>4. CASE \/ \E c \in Claims : Extend(p, c)
           \/ \E S \in Cancelable : Cancel(p, S)
  BY <1>4, ExtendFits, CancelFits
<1> QED BY <1>1, <1>2, <1>3, <1>4 DEF Asks

\* A list of members of a set is one of any larger set.
LEMMA Wider ==
    ASSUME NEW S, NEW T, S \subseteq T, NEW s \in Seq(S)
    PROVE  s \in Seq(T)
OBVIOUS

\* A list without its first element.
LEMMA Rest ==
    ASSUME NEW S, NEW T, S \subseteq T, NEW s \in Seq(S), s # <<>>
    PROVE  /\ Head(s) \in S /\ Tail(s) \in Seq(S) /\ Tail(s) \in Seq(T) /\ s \in Seq(T)
           /\ Head(s) = s[1] /\ 1 \in 1..Len(s)
           /\ Len(s) \in Nat /\ Len(Tail(s)) = Len(s) - 1 /\ (Len(s) # 1 => Tail(s) # <<>>)
           /\ \A i \in 1..Len(s) :
                s[i] = Head(s) \/ (Len(s) # 1 /\ \E j \in 1..Len(Tail(s)) : Tail(s)[j] = s[i])
<1>1. Len(s) \in Nat /\ Len(s) # 0
  OBVIOUS
<1>2. /\ Head(s) \in S /\ Tail(s) \in Seq(S) /\ Head(s) = s[1] /\ 1 \in 1..Len(s)
      /\ Len(Tail(s)) = Len(s) - 1
  BY <1>1
<1>3. s \in Seq(T) /\ Tail(s) \in Seq(T)
  BY <1>2, Wider
<1>4. PICK n \in Nat : n = Len(s) /\ n # 0
  BY <1>1
<1>5. n # 1 => Tail(s) # <<>>
  <2>1. Len(<<>>) = 0
    OBVIOUS
  <2>2. n # 1 => Len(Tail(s)) # 0
    BY <1>2, <1>4
  <2> QED BY <2>1, <2>2
<1>6. ASSUME NEW i \in 1..n, i # 1
      PROVE  n # 1 /\ \E j \in 1..Len(Tail(s)) : Tail(s)[j] = s[i]
  <2>1. PICK j \in Int : i = j + 1
    BY <1>4, <1>6
  <2>2. n # 1 /\ j \in 1..(n - 1)
    BY <1>4, <1>6, <2>1
  <2>3. Tail(s)[j] = s[j + 1]
    BY <1>2, <1>4, <2>2
  <2>4. Len(Tail(s)) = n - 1
    BY <1>2, <1>4
  <2> QED BY <2>1, <2>2, <2>3, <2>4
<1>7. \A i \in 1..n :
         s[i] = Head(s) \/ (n # 1 /\ \E j \in 1..Len(Tail(s)) : Tail(s)[j] = s[i])
  <2> SUFFICES ASSUME NEW i \in 1..n
               PROVE  s[i] = Head(s) \/ (n # 1 /\ \E j \in 1..Len(Tail(s)) : Tail(s)[j] = s[i])
    OBVIOUS
  <2>1. CASE i = 1
    BY <1>2, <2>1, Zenon
  <2>2. CASE i # 1
    BY <1>6, <2>2, Zenon
  <2> QED BY <2>1, <2>2
<1> QED BY <1>1, <1>2, <1>3, <1>4, <1>5, <1>7, Zenon

LEMMA BookNextRoomFits ==
    ASSUME Base, NEW p \in Requests, BookNextRoom(p)
    PROVE  Fits(p)'
<1> PICK r : r = Head(todo[p])
  OBVIOUS
<1>1. /\ Fits(p) /\ op[p] = "event" /\ todo[p] \in Seq(Rooms) /\ todo[p] # <<>>
  BY DEF Base, Fits, Shape, Waits, BookNextRoom
<1>2. /\ r \in Rooms /\ Tail(todo[p]) \in Seq(Rooms)
      /\ todo[p] \in Seq(Rooms \cup Claims) /\ Tail(todo[p]) \in Seq(Rooms \cup Claims)
  BY <1>1
<1>3. PICK w : w = [want[p] EXCEPT !.room = r]
  OBVIOUS
<1>4. /\ w \in WantTypes /\ w.room = r /\ w.start = want[p].start /\ w.end = want[p].end
      /\ w.kind = want[p].kind /\ w.event = want[p].event
  BY <1>1, <1>2, <1>3 DEF Fits, Typed, WantTypes
<1>5. /\ op'[p] = "event" /\ ids'[p] = ids[p] /\ saw'[p] = saw[p]
      /\ \/ at'[p] = "release" /\ want'[p] = want[p] /\ todo'[p] = todo[p]
         \/ at'[p] = "write" /\ want'[p] = w /\ todo'[p] = Tail(todo[p])
  BY <1>1, <1>3, BookNextRoomOwn DEF Base
<1>6. Typed(p)'
  BY <1>1, <1>2, <1>4, <1>5 DEF Fits, Typed
<1>7. Carries(p)'
  BY <1>1, <1>2, <1>4, <1>5 DEF Fits, Carries
<1> QED BY <1>1, <1>2, <1>5, <1>6, <1>7 DEF Fits, Shape, Waits

LEMMA GoogleFailsFits ==
    ASSUME Base, NEW p \in Requests, GoogleFails(p)
    PROVE  Fits(p)'
<1>1. Fits(p) /\ op[p] = "event"
  BY DEF Base, Fits, Shape, GoogleFails
<1>2. /\ at'[p] = "release" /\ op'[p] = op[p] /\ want'[p] = want[p] /\ ids'[p] = ids[p]
      /\ saw'[p] = saw[p] /\ todo'[p] = todo[p]
  BY GoogleFailsOwn DEF Base
<1>3. Typed(p)'
  BY <1>1, <1>2 DEF Fits, Typed
<1>4. Carries(p)'
  BY <1>1, <1>2 DEF Fits, Carries
<1> QED BY <1>1, <1>2, <1>3, <1>4 DEF Fits, Shape, Waits

LEMMA LockFirstFits ==
    ASSUME Base, NEW p \in Requests, LockFirst(p)
    PROVE  Fits(p)'
<1>1. /\ Fits(p) /\ op[p] = "edit" /\ at[p] = "lock" /\ Len(todo[p]) = 2
      /\ todo[p] \in Seq(Rooms)
  BY DEF Base, Fits, Waits, LockFirst
<1>2. /\ Tail(todo[p]) \in Seq(Rooms) /\ Len(Tail(todo[p])) = 1
      /\ Tail(todo[p]) \in Seq(Rooms \cup Claims)
  BY <1>1
<1>3. /\ at'[p] = "lock" /\ op'[p] = "edit" /\ want'[p] = want[p] /\ ids'[p] = ids[p]
      /\ saw'[p] = saw[p] /\ todo'[p] = Tail(todo[p])
  BY <1>1, LockFirstOwn DEF Base
<1>4. Typed(p)'
  BY <1>1, <1>2, <1>3 DEF Fits, Typed
<1>5. Carries(p)'
  BY <1>1, <1>3 DEF Fits, Carries
<1>6. Waits(p)'
  BY <1>2, <1>3 DEF Waits
<1>7. Shape(p)'
  BY <1>3 DEF Shape
<1> QED BY <1>4, <1>5, <1>6, <1>7 DEF Fits

LEMMA RetimeNextFits ==
    ASSUME Base, NEW p \in Requests, RetimeNext(p)
    PROVE  Fits(p)'
<1>1. /\ Fits(p) /\ op[p] = "retime" /\ at[p] = "lock"
      /\ todo[p] \in Seq(ids[p]) /\ todo[p] # <<>>
  BY DEF Base, Fits, Waits, RetimeNext
<1>2. CASE Finish(p)
  BY <1>2, FinishFits
<1>3. CASE ~Finish(p)
  <2>1. /\ op'[p] = "retime" /\ ids'[p] = ids[p] /\ saw'[p] = saw[p]
        /\ want'[p] = want[p] /\ todo'[p] = Tail(todo[p])
        /\ at'[p] = IF Len(todo[p]) = 1 THEN "write" ELSE "lock"
    BY <1>1, <1>3, RetimeNextOwn DEF Base
  <2>a. ids[p] \subseteq Rooms \cup Claims
    BY <1>1 DEF Fits, Typed
  <2>2. /\ Tail(todo[p]) \in Seq(ids[p]) /\ (Len(todo[p]) # 1 => Tail(todo[p]) # <<>>)
        /\ Tail(todo[p]) \in Seq(Rooms \cup Claims)
    BY <1>1, <2>a, Rest
  <2>3. Tail(todo[p]) \in Seq(Rooms \cup Claims)
    BY <2>2
  <2>4. Typed(p)'
    BY <1>1, <2>1, <2>3 DEF Fits, Typed
  <2>5. Carries(p)'
    BY <1>1, <2>1 DEF Fits, Carries
  <2>6. Waits(p)'
    BY <2>1, <2>2 DEF Waits
  <2>7. Shape(p)'
    BY <2>1 DEF Shape
  <2> QED BY <2>4, <2>5, <2>6, <2>7 DEF Fits
<1> QED BY <1>2, <1>3

LEMMA InterviewRoomFits ==
    ASSUME Base, NEW p \in Requests, InterviewRoom(p)
    PROVE  Fits(p)'
<1> PICK r : r = Next2Lock(p)
  OBVIOUS
<1>1. /\ Fits(p) /\ op[p] = "interview" /\ at[p] = "lock"
      /\ todo[p] \in Seq(Rooms) /\ todo[p] # <<>>
  BY DEF Base, Fits, Waits, InterviewRoom
<1>2. /\ r \in Rooms /\ Tail(todo[p]) \in Seq(Rooms)
      /\ todo[p] \in Seq(Rooms \cup Claims) /\ Tail(todo[p]) \in Seq(Rooms \cup Claims)
      /\ Len(todo[p]) # 1 => Tail(todo[p]) # <<>>
  <2>1. Rooms \subseteq Rooms \cup Claims
    OBVIOUS
  <2>2. r = Head(todo[p])
    BY <1>1 DEF Next2Lock
  <2> QED BY <1>1, <2>1, <2>2, Rest
<1>3. PICK w : w = [want[p] EXCEPT !.room = r]
  OBVIOUS
<1>4. /\ w \in WantTypes /\ w.room = r /\ w.start = want[p].start /\ w.end = want[p].end
      /\ w.kind = want[p].kind /\ w.event = want[p].event
  BY <1>1, <1>2, <1>3 DEF Fits, Typed, WantTypes
<1>5. CASE Finish(p)
  BY <1>5, FinishFits
<1>6. CASE ~Finish(p)
  <2>1. /\ op'[p] = "interview" /\ ids'[p] = ids[p] /\ saw'[p] = saw[p]
        /\ \/ at'[p] = "lock" /\ want'[p] = want[p] /\ todo'[p] = Tail(todo[p]) /\ Len(todo[p]) # 1
           \/ at'[p] = "write" /\ want'[p] = w /\ todo'[p] = todo[p]
    BY <1>1, <1>3, <1>6, InterviewRoomOwn DEF Base
  <2>2. Typed(p)'
    BY <1>1, <1>2, <1>4, <2>1 DEF Fits, Typed
  <2>3. Carries(p)'
    BY <1>1, <1>2, <1>4, <2>1 DEF Fits, Carries, Live
  <2> QED BY <1>1, <1>2, <2>1, <2>2, <2>3 DEF Fits, Shape, Waits
<1> QED BY <1>5, <1>6

\* What an edit or an extension tests and writes.
LEMMA AskedFor ==
    ASSUME Base, NEW p \in Requests, NEW w \in Asked(p), op[p] \in {"edit", "extend"}, at[p] = "lock"
    PROVE  /\ w \in WantTypes /\ w.room = want[p].room /\ w.kind = "Web" /\ w.start < w.end
           /\ op[p] = "extend" => w = want[p]
<1>1. Fits(p) /\ want[p] \in WantTypes /\ want[p].kind = "Web"
  BY DEF Base, Fits, Typed, Carries
<1>2. CASE op[p] = "extend"
  BY <1>1, <1>2 DEF Asked, Fits, Carries
<1>3. CASE op[p] = "edit"
  <2>1. PICK s \in Slots["edit"] : w = [want[p] EXCEPT !.start = s[1], !.end = s[2]]
    BY <1>3 DEF Asked
  <2>2. s[1] \in Times /\ s[2] \in Times /\ s[1] < s[2]
    BY Slot
  <2> QED BY <1>1, <1>3, <2>1, <2>2 DEF WantTypes
<1> QED BY <1>2, <1>3

LEMMA LockAndTestFits ==
    ASSUME Base, NEW p \in Requests, NEW w \in Asked(p), LockAndTest(p, w)
    PROVE  Fits(p)'
<1>1. Fits(p) /\ op[p] \in {"edit", "extend"} /\ at[p] = "lock"
  BY DEF Base, LockAndTest
<1>2. /\ w \in WantTypes /\ w.room = want[p].room /\ w.kind = "Web" /\ w.start < w.end
      /\ op[p] = "extend" => w = want[p]
  BY <1>1, AskedFor
<1>3. CASE Finish(p)
  BY <1>3, FinishFits
<1>4. CASE ~Finish(p)
  <2>1. /\ op'[p] = op[p] /\ ids'[p] = ids[p] /\ at'[p] = "write" /\ want'[p] = w
        /\ todo'[p] = <<>> /\ (op[p] # "edit" => saw'[p] = saw[p])
    BY <1>4, LockAndTestOwn DEF Base
  <2>2. saw'[p] = saw[p] \/ saw'[p] = <<>>
    BY <1>4 DEF LockAndTest, Base, Functions
  <2>3. Typed(p)'
    BY <1>1, <1>2, <2>1, <2>2 DEF Fits, Typed
  <2>4. want[p].room \in Rooms
    BY <1>1 DEF Fits, Carries
  <2>5. CASE op[p] = "edit"
    <3>1. Carries(p)'
      BY <1>1, <1>2, <2>1, <2>4, <2>5 DEF Fits, Carries
    <3> QED BY <2>1, <2>3, <2>5, <3>1 DEF Fits, Shape, Waits
  <2>6. CASE op[p] = "extend"
    <3>1. Carries(p)'
      BY <1>1, <1>2, <2>1, <2>4, <2>6 DEF Fits, Carries
    <3> QED BY <2>1, <2>3, <2>6, <3>1 DEF Fits, Shape, Waits
  <2> QED BY <1>1, <2>5, <2>6
<1> QED BY <1>3, <1>4

LEMMA TriesFit ==
    ASSUME Base, NEW p \in Requests, Tries(p)
    PROVE  Fits(p)'
<1>1. CASE DeadlockVictim(p) \/ \E c \in Claims : CancelFails(p, c)
  BY <1>1, FinishFits DEF DeadlockVictim, CancelFails
<1>2. CASE \E w \in Asked(p) : LockAndTest(p, w)
  BY <1>2, LockAndTestFits
<1> QED BY <1>1, <1>2, BookNextRoomFits, GoogleFailsFits, LockFirstFits, RetimeNextFits,
           InterviewRoomFits DEF Tries

LEMMA WritesFit ==
    ASSUME Base, NEW p \in Requests, Writes(p)
    PROVE  Fits(p)'
<1>1. ASSUME NEW c \in Claims, WriteBooking(p, c)
      PROVE  Fits(p)'
  <2>1. CASE Finish(p)
    BY <2>1, FinishFits
  <2>2. CASE ~Finish(p)
    <3>1. /\ op[p] = "event" /\ op'[p] = op[p] /\ want'[p] = want[p] /\ at'[p] = "rooms"
          /\ ids'[p] = ids[p] \cup {c} /\ saw'[p] = saw[p] /\ todo'[p] = todo[p]
      BY <1>1, <2>2, WriteBookingOwn DEF Base
    <3>2. Fits(p)
      BY DEF Base
    <3>3. Typed(p)'
      BY <3>1, <3>2 DEF Fits, Typed
    <3>4. Carries(p)'
      BY <3>1, <3>2 DEF Fits, Carries
    <3> QED BY <3>1, <3>2, <3>3, <3>4 DEF Fits, Shape, Waits
  <2> QED BY <2>1, <2>2
<1>2. ASSUME NEW c \in Claims, CancelOne(p, c)
      PROVE  Fits(p)'
  <2>1. CASE Finish(p)
    BY <2>1, FinishFits
  <2>2. CASE ~Finish(p)
    <3>1. /\ op'[p] = op[p] /\ at'[p] = at[p] /\ want'[p] = want[p]
          /\ ids'[p] = ids[p] \ {c} /\ saw'[p] = saw[p] /\ todo'[p] = todo[p]
      BY <1>2, <2>2, CancelOneOwn DEF Base
    <3>2. Fits(p) /\ op[p] = "cancel" /\ at[p] = "cancel"
      BY <1>2 DEF Base, CancelOne, Fits, Typed, Shape
    <3>3. Typed(p)'
      BY <3>1, <3>2 DEF Fits, Typed
    <3>4. Carries(p)'
      BY <3>1, <3>2 DEF Fits, Carries
    <3> QED BY <3>1, <3>2, <3>3, <3>4 DEF Fits, Shape, Waits
  <2> QED BY <2>1, <2>2
<1>3. ASSUME NEW c, WriteInterview(p, c) \/ WriteMeeting(p, c)
      PROVE  Fits(p)'
  BY <1>3, FinishFits DEF WriteInterview, WriteMeeting
<1>4. ASSUME NEW e, EventSaved(p, e)
      PROVE  Fits(p)'
  BY <1>4, FinishFits DEF EventSaved
<1>5. CASE Release(p) \/ RequestDies(p) \/ WriteChange(p)
  BY <1>5, FinishFits DEF Release, RequestDies, WriteChange
<1> QED BY <1>1, <1>2, <1>3, <1>4, <1>5 DEF Writes

-----------------------------------------------------------------------------
(* What the writes make of a row.                                           *)

\* A row given another event is otherwise the same.
LEMMA Retied ==
    ASSUME NEW b \in RowTypes, NEW e \in EventKeys
    PROVE  LET n == [b EXCEPT !.event = e]
           IN  /\ n \in RowTypes /\ n.event = e
               /\ n.kind = b.kind /\ n.room = b.room /\ n.start = b.start /\ n.end = b.end
BY DEF RowTypes

\* A row ended at another time is otherwise the same.
LEMMA EndedAt ==
    ASSUME NEW b \in RowTypes, NEW t \in Times
    PROVE  LET n == [b EXCEPT !.end = t]
           IN  /\ n \in RowTypes /\ n.end = t
               /\ n.kind = b.kind /\ n.room = b.room /\ n.start = b.start /\ n.event = b.event
BY DEF RowTypes

\* The row written for a want is the want.
LEMMA Written ==
    ASSUME NEW w \in WantTypes
    PROVE  LET n == NewRow(w)
           IN  /\ n \in RowTypes /\ n.kind = w.kind /\ n.room = w.room
               /\ n.start = w.start /\ n.end = w.end /\ n.event = w.event
BY DEF NewRow, WantTypes, RowTypes, Kinds

\* The row written for a meeting is the want, as a meeting.
LEMMA WrittenMeeting ==
    ASSUME NEW w \in WantTypes
    PROVE  LET n == NewRow([w EXCEPT !.kind = "Meeting"])
           IN  /\ n \in RowTypes /\ n.kind = "Meeting" /\ n.room = w.room
               /\ n.start = w.start /\ n.end = w.end /\ n.event = w.event
<1>1. PICK v : v = [w EXCEPT !.kind = "Meeting"]
  OBVIOUS
<1>2. /\ v.kind = "Meeting" /\ v.room = w.room /\ v.start = w.start /\ v.end = w.end
      /\ v.event = w.event
  BY <1>1 DEF WantTypes
<1>3. NewRow(v) \in RowTypes
  BY <1>2 DEF NewRow, WantTypes, RowTypes, Kinds
<1> QED BY <1>1, <1>2, <1>3 DEF NewRow

\* A row of its type, in a room if it stands.
Good(b) == b \in RowTypes /\ (b.kind \in Kinds \cup {"Meeting"} => b.room \in Rooms)

\* Rows are well formed exactly when each of them is.
LEMMA GoodRows ==
    row \in [Claims -> RowTypes] /\ Placed
        <=> row = [c \in Claims |-> row[c]] /\ \A c \in Claims : Good(row[c])
BY DEF Good, Placed, Live

\* What an edit, an extension and a retime write.
LEMMA Changes ==
    ASSUME Base, NEW p \in Requests, NEW c \in Claims, op[p] \in {"edit", "extend", "retime"}
    PROVE  LET n == Changed(p, c)
           IN  /\ n \in RowTypes /\ n.kind = row[c].kind /\ n.event = row[c].event
               /\ n.end = want[p].end
               /\ op[p] = "edit" => n.room = want[p].room
               /\ op[p] # "edit" => n.room = row[c].room
               /\ op[p] # "extend" => n.start = want[p].start
               /\ op[p] = "extend" => n.start = row[c].start
<1>1. /\ row[c] \in RowTypes /\ want[p].start \in Times /\ want[p].end \in Times
      /\ op[p] = "edit" => want[p].room \in Rooms
  BY DEF Base, Fits, Typed, Carries, WantTypes
<1>a. PICK b \in RowTypes : b = row[c]
  BY <1>1
<1>2. CASE op[p] = "edit"
  <2>1. PICK r \in Rooms, s \in Times, t \in Times :
          r = want[p].room /\ s = want[p].start /\ t = want[p].end
    BY <1>1, <1>2
  <2>2. Changed(p, c) = [row[c] EXCEPT !.room = r, !.start = s, !.end = t]
    BY <1>2, <2>1 DEF Changed
  <2>3. PICK n : n = [b EXCEPT !.room = r, !.start = s, !.end = t]
    OBVIOUS
  <2>4. /\ n \in RowTypes /\ n.room = r /\ n.start = s /\ n.end = t
        /\ n.kind = b.kind /\ n.event = b.event
    BY <2>3 DEF RowTypes
  <2>5. n = Changed(p, c)
    BY <1>a, <2>2, <2>3
  <2> QED BY <1>a, <1>2, <2>1, <2>4, <2>5
<1>3. CASE op[p] = "extend"
  <2>1. Changed(p, c) = [row[c] EXCEPT !.end = want[p].end]
    BY <1>3 DEF Changed
  <2> QED BY <1>1, <1>3, <2>1, EndedAt
<1>4. CASE op[p] = "retime"
  <2>1. PICK s \in Times, t \in Times : s = want[p].start /\ t = want[p].end
    BY <1>1
  <2>2. Changed(p, c) = [row[c] EXCEPT !.start = s, !.end = t]
    BY <1>4, <2>1 DEF Changed
  <2>3. PICK n : n = [b EXCEPT !.start = s, !.end = t]
    OBVIOUS
  <2>4. /\ n \in RowTypes /\ n.start = s /\ n.end = t
        /\ n.kind = b.kind /\ n.room = b.room /\ n.event = b.event
    BY <2>3 DEF RowTypes
  <2>5. n = Changed(p, c)
    BY <1>a, <2>2, <2>3
  <2> QED BY <1>a, <1>4, <2>1, <2>4, <2>5
<1> QED BY <1>2, <1>3, <1>4

\* A booking that a cancellation finds underway ends at a time of the model.
LEMMA NowIsATime ==
    ASSUME Base, NEW b \in RowTypes, Underway(b)
    PROVE  clock \in Times
BY RoomsAssumption DEF Base, Underway, RowTypes, Times

GoodNow == row = [c \in Claims |-> row[c]] /\ \A c \in Claims : Good(row[c])

\* Writes leave rows well formed.
LEMMA WritesGood ==
    ASSUME Base, NEW p \in Requests, Writes(p)
    PROVE  GoodNow'
<1>1. GoodNow
  BY GoodRows DEF Base, GoodNow
<1>2. /\ want[p] \in WantTypes
      /\ op[p] \in {"meeting", "edit"} => want[p].room \in Rooms
      /\ at[p] = "write" /\ op[p] # "retime" => want[p].room \in Rooms
  BY DEF Base, Fits, Typed, Carries
<1>3. ASSUME NEW c \in Claims, WriteBooking(p, c)
      PROVE  GoodNow'
  <2>1. Good(NewRow(want[p]))
    BY <1>2, <1>3, Written DEF WriteBooking, Good
  <2>2. row' = [row EXCEPT ![c] = NewRow(want[p])]
    BY <1>3 DEF WriteBooking
  <2> QED BY <1>1, <2>1, <2>2 DEF GoodNow
<1>4. ASSUME NEW c \in Claims, WriteInterview(p, c)
      PROVE  GoodNow'
  <2>1. Good(NewRow(want[p]))
    BY <1>2, <1>4, Written DEF WriteInterview, Good
  <2>2. \A d \in Claims : Good(saw[p][d])
    BY <1>4 DEF WriteInterview, Base, Fits, Typed, Carries, Good, Live
  <2>3. CASE SerializationFails(p)
    BY <1>1, <1>4, <2>3 DEF WriteInterview, GoodNow
  <2>4. CASE ~SerializationFails(p)
    <3>1. row' = [d \in Claims |-> IF d = c THEN NewRow(want[p])
                                   ELSE IF d \in ids[p] THEN saw[p][d] ELSE row[d]]
      BY <1>4, <2>4 DEF WriteInterview
    <3> QED BY <1>1, <2>1, <2>2, <3>1 DEF GoodNow
  <2> QED BY <2>3, <2>4
<1>5. ASSUME NEW c \in Claims, CancelOne(p, c)
      PROVE  GoodNow'
  <2>1. CASE row' = row
    BY <1>1, <2>1 DEF GoodNow
  <2>2. CASE row' = [row EXCEPT ![c] = Cancelled]
    <3>1. Good(Cancelled)
      BY Values DEF Good, Kinds
    <3> QED BY <1>1, <2>2, <3>1 DEF GoodNow
  <2>3. CASE Underway(saw[p][c]) /\ row' = [row EXCEPT ![c].end = clock]
    <3>1. c \in DOMAIN saw[p] /\ saw[p][c] \in RowTypes
      BY <1>5 DEF CancelOne, Base, Fits, Typed, Carries
    <3>2. clock \in Times
      BY <2>3, <3>1, NowIsATime
    <3>3. Good([row[c] EXCEPT !.end = clock])
      BY <1>1, <3>2, EndedAt DEF GoodNow, Good
    <3>4. row' = [row EXCEPT ![c] = [row[c] EXCEPT !.end = clock]]
      BY <1>1, <2>3 DEF GoodNow
    <3> QED BY <1>1, <3>3, <3>4 DEF GoodNow
  <2> QED BY <1>5, <2>1, <2>2, <2>3 DEF CancelOne
<1>6. ASSUME NEW c \in Claims, WriteMeeting(p, c)
      PROVE  GoodNow'
  <2>1. op[p] = "meeting"
    BY <1>6 DEF WriteMeeting, Base, Fits, Shape
  <2>2. PICK n : n = NewRow([want[p] EXCEPT !.kind = "Meeting"])
    OBVIOUS
  <2>3. Good(n)
    BY <1>2, <2>1, <2>2, WrittenMeeting DEF Good
  <2>4. row' = [row EXCEPT ![c] = n]
    BY <1>6, <2>2 DEF WriteMeeting
  <2> QED BY <1>1, <2>3, <2>4 DEF GoodNow
<1>7. ASSUME NEW e \in Events \cup {"orphan"},
             row' = [c \in Claims |-> IF c \in ids[p] /\ Live(row, c)
                                      THEN [row[c] EXCEPT !.event = e] ELSE row[c]]
      PROVE  GoodNow'
  <2>1. ASSUME NEW c \in Claims
        PROVE  Good([row[c] EXCEPT !.event = e])
    BY <1>1, Retied DEF Good, GoodNow, EventKeys
  <2> QED BY <1>1, <1>7, <2>1 DEF GoodNow
<1>8. CASE Release(p)
  <2>1. Good(Deleted)
    BY Values DEF Good, Kinds
  <2> QED BY <1>1, <1>8, <2>1 DEF GoodNow, Release
<1>9. CASE WriteChange(p)
  <2>1. op[p] \in {"edit", "extend", "retime"}
    BY <1>9 DEF WriteChange
  <2>2. ASSUME NEW c \in Claims
        PROVE  Good(Changed(p, c))
    <3>1. PICK n : n = Changed(p, c)
      OBVIOUS
    <3> QED BY <1>1, <1>2, <2>1, <3>1, Changes DEF Good, GoodNow
  <2>3. CASE row' = row
    BY <1>1, <2>3 DEF GoodNow
  <2>4. CASE row' = [c \in Claims |-> IF c \in ids[p] /\ Live(row, c) THEN Changed(p, c)
                                      ELSE row[c]]
    BY <1>1, <2>2, <2>4 DEF GoodNow
  <2> QED BY <1>9, <2>3, <2>4 DEF WriteChange
<1> QED BY <1>3, <1>4, <1>5, <1>6, <1>7, <1>8, <1>9 DEF Writes, EventSaved, RequestDies

\* Writes leave the clock, and what the history variables hold is claims.
LEMMA WritesHistory ==
    ASSUME Base, NEW p \in Requests, Writes(p)
    PROVE  clock' = clock /\ stale' \subseteq Claims /\ loose' \subseteq Claims
           /\ late' \subseteq Claims
<1>1. ids[p] \subseteq Claims /\ stale \subseteq Claims /\ loose \subseteq Claims
      /\ late \subseteq Claims
  BY DEF Base, Fits, Typed
<1>2. CASE Release(p) \/ RequestDies(p) \/ WriteChange(p) \/ \E e \in Events : EventSaved(p, e)
  BY <1>1, <1>2 DEF Release, RequestDies, WriteChange, EventSaved, Forget, history
<1>3. CASE \E c \in Claims : WriteBooking(p, c) \/ WriteInterview(p, c) \/ WriteMeeting(p, c)
  BY <1>1, <1>3 DEF WriteBooking, WriteInterview, WriteMeeting, history
<1>4. CASE \E c \in Claims : CancelOne(p, c)
  BY <1>1, <1>4 DEF CancelOne, Forget
<1> QED BY <1>2, <1>3, <1>4 DEF Writes

\* Requests are always typed and shaped as their stage says, and live rows are
\* in rooms: the state each request of rooms.server.ts carries between awaits.
THEOREM BaseHolds == Spec => []Base
<1>1. Init => Base
  <2> SUFFICES ASSUME Init PROVE Base
    OBVIOUS
  <2>1. row \in [Claims -> RowTypes] /\ Placed
    BY Values DEF Init, Placed, Live, Kinds
  <2>2. Functions
    BY DEF Init, Functions
  <2>3. ASSUME NEW p \in Requests
        PROVE  Fits(p)
    <3>1. Typed(p)
      BY Values DEF Init, Typed
    <3> QED BY <3>1 DEF Init, Fits, Shape, Carries, Waits
  <2>4. clock \in 0..MaxClock
    BY RoomsAssumption DEF Init
  <2> QED BY <2>1, <2>2, <2>3, <2>4 DEF Init, Base
<1>2. Base /\ [Next]_vars => Base'
  <2> SUFFICES ASSUME Base, [Next]_vars PROVE Base'
    OBVIOUS
  <2>1. CASE UNCHANGED vars
    BY <2>1 DEF vars, request, history, Base, Functions, Placed, Live, Fits, Typed, Shape, Carries,
                Waits
  <2>2. CASE Tick
    <3>1. UNCHANGED <<row, lock, request, history>> /\ clock' \in 0..MaxClock
      BY <2>2, RoomsAssumption DEF Tick, Base
    <3> QED BY <3>1 DEF request, history, Base, Functions, Placed, Live, Fits, Typed, Shape,
                        Carries, Waits
  <2>3. ASSUME NEW p \in Requests, Step(p)
        PROVE  Base'
    <3>1. Own(p)
      BY <2>3, StepOwn DEF Base
    <3>2. Fits(p)'
      BY <2>3, AsksFit, TriesFit, WritesFit DEF Step
    <3>3. \A q \in Requests : Fits(q)'
      BY <3>1, <3>2, StandingFits
    <3>4. CASE Asks(p) \/ Tries(p)
      <4>1. UNCHANGED <<clock, row, stale, loose, late>>
        BY <3>4, NothingWritten
      <4> QED BY <3>1, <3>3, <4>1 DEF Base, Placed, Live, Own
    <3>5. CASE Writes(p)
      <4>1. (row \in [Claims -> RowTypes] /\ Placed)'
        BY <3>5, WritesGood, GoodRows DEF GoodNow, Good, Placed, Live
      <4> QED BY <3>1, <3>3, <3>5, <4>1, WritesHistory DEF Base, Own
    <3> QED BY <2>3, <3>4, <3>5 DEF Step
  <2> QED BY <2>1, <2>2, <2>3, Steps DEF Next
<1> QED BY <1>1, <1>2, PTL DEF Spec

\* Rows, locks and requests have their types.
THEOREM TypeCorrect == Spec => []TypeOK
BY BaseHolds, BaseTypes, PTL

-----------------------------------------------------------------------------
(* The locks.                                                               *)

LEMMA FinishLocks ==
    ASSUME Base, NEW p \in Requests, Finish(p)
    PROVE  HasLocks(p)'
BY FinishOwn DEF Base, HasLocks

\* A request keeps its locks while another one steps.
LEMMA StandingLocks ==
    ASSUME Base, NEW p \in Requests, Own(p), NEW q \in Requests \ {p}, HasLocks(q)
    PROVE  HasLocks(q)'
<1>1. Stands(p, q)
  BY DEF Own
<1>2. /\ at'[q] = at[q] /\ op'[q] = op[q] /\ want'[q] = want[q] /\ ids'[q] = ids[q]
      /\ saw'[q] = saw[q] /\ todo'[q] = todo[q]
      /\ \A r \in Rooms : lock'[r] = q <=> lock[r] = q
  BY <1>1 DEF Stands
<1>3. /\ at[q] = "write" /\ op[q] # "retime" => want[q].room \in Rooms
      /\ op[q] = "edit" => want[q].room \in Rooms
      /\ op[q] = "retime" => \A c \in ids[q] : saw[q][c].room \in Rooms
  BY DEF Base, Fits, Carries
<1> QED BY <1>2, <1>3 DEF HasLocks

\* A request that only reads starts without locks.
LEMMA StartLocks ==
    ASSUME Base, NEW p \in Requests, HasLocks(p), NEW o, NEW pc, NEW w, NEW S, NEW t, NEW rooms,
           Start(p, o, pc, w, S, t, rooms), lock' = lock, pc # "write",
           o = "edit" => \E i \in 1..Len(rooms) : rooms[i] = w.room,
           o = "retime" => pc = "lock" /\ \A c \in S : \E i \in 1..Len(rooms) : rooms[i] = c
    PROVE  HasLocks(p)'
<1>1. /\ at[p] = "idle" /\ at'[p] = pc /\ op'[p] = o /\ want'[p] = w /\ ids'[p] = S
      /\ saw'[p] = t /\ todo'[p] = rooms
  BY StartOwn DEF Base
<1>2. \A r \in Rooms : lock'[r] # p
  BY <1>1 DEF HasLocks
<1> QED BY <1>1, <1>2 DEF HasLocks

LEMMA BookLocks ==
    ASSUME Base, NEW p \in Requests, HasLocks(p), NEW r \in Rooms, NEW s \in Slots["book"],
           NEW k \in {"Web", "InterviewHold"}, Book(p, r, s, k)
    PROVE  HasLocks(p)'
<1>1. PICK w : w = Ask(r, s, k)
  OBVIOUS
<1>2. w.room = r
  BY <1>1, Slot, Asking DEF Kinds
<1>3. Start(p, "book", "write", w, {}, <<>>, <<>>) /\ lock[r] = Free /\ Locked(p, r)
  BY <1>1 DEF Book
<1>4. at'[p] = "write" /\ op'[p] = "book" /\ want'[p] = w
  BY <1>3, StartOwn DEF Base
<1>5. lock'[r] = p
  BY <1>3 DEF Locked, Base, Functions
<1> QED BY <1>2, <1>4, <1>5 DEF HasLocks

\* A request that starts holds no lock.
LEMMA AsksLocks ==
    ASSUME Base, NEW p \in Requests, Asks(p), HasLocks(p)
    PROVE  HasLocks(p)'
<1>1. ASSUME NEW r \in Rooms, NEW s \in Slots["book"], NEW k \in {"Web", "InterviewHold"},
             Book(p, r, s, k)
      PROVE  HasLocks(p)'
  BY <1>1, BookLocks
<1>2. ASSUME NEW c \in Claims, NEW r \in Rooms, Edit(p, c, r)
      PROVE  HasLocks(p)'
  <2>1. PICK o, w : o = LockOrder(row[c].room, r) /\ w = Ask(r, <<0, 0>>, "Web")
    OBVIOUS
  <2>2. w.room = r
    <3>1. <<0, 0>> \in Times \X Times
      BY RoomsAssumption DEF Times
    <3> QED BY <2>1, <3>1, Asking DEF Kinds
  <2>3. \E i \in 1..Len(o) : o[i] = r
    <3>1. o = <<r>> \/ o = <<row[c].room, r>> \/ o = <<r, row[c].room>>
      BY <2>1 DEF LockOrder
    <3>2. CASE o = <<r>>
      BY <3>2
    <3>3. CASE o = <<row[c].room, r>>
      BY <3>3
    <3>4. CASE o = <<r, row[c].room>>
      BY <3>4
    <3> QED BY <3>1, <3>2, <3>3, <3>4
  <2>4. Start(p, "edit", "lock", w, {c}, Read({c}), o) /\ lock' = lock
    BY <1>2, <2>1 DEF Edit
  <2> QED BY <2>2, <2>3, <2>4, StartLocks
<1>3. ASSUME NEW r, NEW s, NEW S, Meeting(p, r, s, S)
      PROVE  HasLocks(p)'
  BY <1>3, StartLocks DEF Meeting
<1>4. ASSUME NEW rooms, NEW s, BookForEvent(p, rooms, s)
      PROVE  HasLocks(p)'
  BY <1>4, StartLocks DEF BookForEvent
<1>5. ASSUME NEW rooms, NEW s, NEW S, Interview(p, rooms, s, S)
      PROVE  HasLocks(p)'
  BY <1>5, StartLocks DEF Interview
<1>6. ASSUME NEW e, NEW s, NEW o \in Orders(Holds(e)), Retime(p, e, s, o)
      PROVE  HasLocks(p)'
  <2>1. PICK S : S = Holds(e)
    OBVIOUS
  <2>2. S \subseteq Claims /\ S # {} /\ o \in Orders(S)
    BY <1>6, <2>1 DEF Retime, Holds
  <2>3. \A c \in S : \E i \in 1..Len(o) : o[i] = c
    BY <2>2, Ordering
  <2> QED BY <1>6, <2>1, <2>3, StartLocks DEF Retime
<1>7. ASSUME NEW c, Extend(p, c)
      PROVE  HasLocks(p)'
  BY <1>7, StartLocks DEF Extend
<1>8. ASSUME NEW S, Cancel(p, S)
      PROVE  HasLocks(p)'
  BY <1>8, StartLocks DEF Cancel
<1> QED BY <1>1, <1>2, <1>3, <1>4, <1>5, <1>6, <1>7, <1>8 DEF Asks

LEMMA LockFirstLocks ==
    ASSUME Base, NEW p \in Requests, HasLocks(p), LockFirst(p)
    PROVE  HasLocks(p)'
<1>1. /\ op[p] = "edit" /\ at[p] = "lock" /\ Len(todo[p]) = 2
      /\ todo[p] \in Seq(Rooms) /\ todo[p][1] < todo[p][2] /\ want[p].room \in Rooms
  BY DEF LockFirst, Base, Fits, Waits, Carries
<1>2. PICK s : s = todo[p]
  OBVIOUS
<1>3. /\ Head(s) = s[1] /\ s[1] \in Rooms /\ Len(Tail(s)) = 1 /\ Head(Tail(s)) = s[2]
      /\ Tail(s)[1] = s[2]
  BY <1>1, <1>2
<1>4. /\ at'[p] = "lock" /\ op'[p] = "edit" /\ want'[p] = want[p] /\ ids'[p] = ids[p]
      /\ saw'[p] = saw[p] /\ todo'[p] = Tail(s)
      /\ lock' = [lock EXCEPT ![s[1]] = p]
  BY <1>1, <1>2, <1>3, LockFirstOwn DEF Base, Next2Lock, Locked
<1>5. \A r \in Rooms : lock[r] # p
  BY <1>1 DEF HasLocks
<1>6. lock'[s[1]] = p /\ \A r \in Rooms : lock'[r] = p => r = s[1]
  BY <1>3, <1>4, <1>5 DEF Base, Functions
<1>7. want[p].room = s[1] \/ want[p].room = s[2]
  BY <1>1, <1>2, <1>5 DEF HasLocks
<1>8. \/ lock'[want[p].room] = p
      \/ \E i \in 1..Len(Tail(s)) : Tail(s)[i] = want[p].room
  <2>1. CASE want[p].room = s[1]
    BY <1>6, <2>1
  <2>2. CASE want[p].room = s[2]
    <3>1. PICK i : i = 1
      OBVIOUS
    <3>2. i \in 1..Len(Tail(s)) /\ Tail(s)[i] = want[p].room
      BY <1>3, <2>2, <3>1
    <3> QED BY <3>2
  <2> QED BY <1>7, <2>1, <2>2
<1>9. s[1] < s[2]
  BY <1>1, <1>2
<1> QED BY <1>3, <1>4, <1>6, <1>8, <1>9 DEF HasLocks

LEMMA LockAndTestLocks ==
    ASSUME Base, NEW p \in Requests, HasLocks(p), NEW w \in Asked(p), LockAndTest(p, w)
    PROVE  HasLocks(p)'
<1>1. CASE Finish(p)
  BY <1>1, FinishLocks
<1>2. CASE ~Finish(p)
  <2>1. /\ op[p] \in {"edit", "extend"} /\ at[p] = "lock" /\ Len(todo[p]) = 1
        /\ todo[p] \in Seq(Rooms)
    BY DEF LockAndTest, Base, Fits, Waits
  <2>2. w.room = want[p].room /\ w.room \in Rooms
    BY <2>1, AskedFor DEF Base, Fits, Carries, Waits
  <2>3. /\ op'[p] = op[p] /\ at'[p] = "write" /\ want'[p] = w
        /\ Locked(p, Head(todo[p]))
    BY <1>2, <2>1, LockAndTestOwn DEF Base, Next2Lock
  <2>4. Head(todo[p]) = todo[p][1] /\ Head(todo[p]) \in Rooms
    BY <2>1
  <2>5. lock'[Head(todo[p])] = p /\ \A r \in Rooms : lock[r] = p => lock'[r] = p
    BY <2>3, <2>4 DEF Locked, Base, Functions
  <2>6. lock[w.room] = p \/ Head(todo[p]) = w.room
    <3>1. CASE op[p] = "extend"
      BY <2>1, <2>2, <3>1 DEF Base, Fits, Waits
    <3>2. CASE op[p] = "edit"
      <4>1. \/ lock[want[p].room] = p
            \/ \E i \in 1..Len(todo[p]) : todo[p][i] = want[p].room
        BY <2>1, <3>2 DEF HasLocks
      <4> QED BY <2>1, <2>2, <2>4, <4>1
    <3> QED BY <2>1, <3>1, <3>2
  <2>7. lock'[w.room] = p
    BY <2>2, <2>5, <2>6
  <2> QED BY <2>1, <2>3, <2>7 DEF HasLocks
<1> QED BY <1>1, <1>2

LEMMA RetimeNextLocks ==
    ASSUME Base, NEW p \in Requests, HasLocks(p), RetimeNext(p)
    PROVE  HasLocks(p)'
<1>1. CASE Finish(p)
  BY <1>1, FinishLocks
<1>2. CASE ~Finish(p)
  <2>1. PICK s, d : s = todo[p] /\ d = Head(s)
    OBVIOUS
  <2>2. /\ op[p] = "retime" /\ at[p] = "lock" /\ s \in Seq(ids[p]) /\ s # <<>>
        /\ \A c \in ids[p] : saw[p][c].room \in Rooms
    BY <2>1 DEF RetimeNext, Base, Fits, Waits, Carries
  <2>3. /\ op'[p] = "retime" /\ ids'[p] = ids[p] /\ saw'[p] = saw[p] /\ todo'[p] = Tail(s)
        /\ at'[p] = IF Len(s) = 1 THEN "write" ELSE "lock"
        /\ Locked(p, [want[p] EXCEPT !.room = saw[p][d].room].room)
    BY <1>2, <2>1, <2>2, RetimeNextOwn DEF Base
  <2>4. [want[p] EXCEPT !.room = saw[p][d].room].room = saw[p][d].room
    BY DEF Base, Fits, Typed, WantTypes
  <2>5. /\ d \in ids[p]
        /\ \A i \in 1..Len(s) :
             s[i] = d \/ (Len(s) # 1 /\ \E j \in 1..Len(Tail(s)) : Tail(s)[j] = s[i])
    BY <2>1, <2>2, Rest
  <2>6. lock'[saw[p][d].room] = p /\ \A r \in Rooms : lock[r] = p => lock'[r] = p
    BY <2>2, <2>3, <2>4, <2>5 DEF Locked, Base, Functions
  <2>7. ASSUME NEW c \in ids[p]
        PROVE  \/ Len(s) # 1 /\ \E i \in 1..Len(Tail(s)) : Tail(s)[i] = c
               \/ lock'[saw[p][c].room] = p
    <3>1. CASE lock[saw[p][c].room] = p
      BY <2>2, <2>6, <3>1
    <3>2. CASE \E i \in 1..Len(s) : s[i] = c
      BY <2>5, <2>6, <3>2, Zenon
    <3> QED BY <2>1, <2>2, <3>1, <3>2 DEF HasLocks
  <2> QED BY <2>3, <2>7 DEF HasLocks
<1> QED BY <1>1, <1>2

LEMMA TriesLocks ==
    ASSUME Base, NEW p \in Requests, Tries(p), HasLocks(p)
    PROVE  HasLocks(p)'
<1>1. CASE DeadlockVictim(p) \/ \E c \in Claims : CancelFails(p, c)
  BY <1>1, FinishLocks DEF DeadlockVictim, CancelFails
<1>2. CASE BookNextRoom(p)
  <2>1. at[p] = "rooms" /\ op[p] = "event" /\ Head(todo[p]) \in Rooms
    BY <1>2 DEF BookNextRoom, Base, Fits, Shape, Waits
  <2>2. CASE at'[p] = "release" /\ lock' = lock /\ op'[p] = op[p]
    BY <2>1, <2>2 DEF HasLocks
  <2>3. CASE /\ at'[p] = "write" /\ want'[p] = [want[p] EXCEPT !.room = Head(todo[p])]
             /\ Locked(p, Head(todo[p])) /\ op'[p] = op[p]
    <3>1. want'[p].room = Head(todo[p])
      BY <2>3 DEF Base, Fits, Typed, WantTypes
    <3>2. lock'[Head(todo[p])] = p
      BY <2>1, <2>3 DEF Locked, Base, Functions
    <3> QED BY <2>1, <2>3, <3>1, <3>2 DEF HasLocks
  <2> QED BY <1>2, <2>2, <2>3, BookNextRoomOwn DEF Base
<1>3. CASE GoogleFails(p)
  <2>1. at[p] = "rooms" /\ op[p] = "event"
    BY <1>3 DEF GoogleFails, Base, Fits, Shape
  <2>2. at'[p] = "release" /\ lock' = lock /\ op'[p] = op[p]
    BY <1>3, GoogleFailsOwn DEF Base
  <2> QED BY <2>1, <2>2 DEF HasLocks
<1>4. CASE InterviewRoom(p) /\ ~Finish(p)
  <2>1. PICK r, w : r = Next2Lock(p) /\ w = [want[p] EXCEPT !.room = r]
    OBVIOUS
  <2>2. w.room = r
    BY <2>1 DEF Base, Fits, Typed, WantTypes
  <2>3. op[p] = "interview" /\ at[p] = "lock" /\ r \in Rooms
    BY <1>4, <2>1 DEF InterviewRoom, Base, Fits, Waits, Next2Lock
  <2>4. /\ op'[p] = op[p] /\ Locked(p, r)
        /\ at'[p] = "lock" \/ (at'[p] = "write" /\ want'[p] = w)
    BY <1>4, <2>1, <2>2, <2>3, InterviewRoomOwn DEF Base
  <2>5. lock'[r] = p
    BY <2>3, <2>4 DEF Locked, Base, Functions
  <2> QED BY <2>2, <2>3, <2>4, <2>5 DEF HasLocks
<1>5. CASE \E w \in Asked(p) : LockAndTest(p, w)
  BY <1>5, LockAndTestLocks
<1> QED BY <1>1, <1>2, <1>3, <1>4, <1>5, FinishLocks, LockFirstLocks, RetimeNextLocks DEF Tries

LEMMA WritesLocks ==
    ASSUME Base, NEW p \in Requests, Writes(p), HasLocks(p)
    PROVE  HasLocks(p)'
<1>1. ASSUME NEW c \in Claims, WriteBooking(p, c), ~Finish(p)
      PROVE  HasLocks(p)'
  <2>1. op'[p] = "event" /\ at'[p] = "rooms" /\ lock' = Unlocked(p)
    BY <1>1, WriteBookingOwn DEF Base
  <2>2. \A r \in Rooms : lock'[r] # p
    BY <2>1, RoomsAssumption DEF Unlocked
  <2> QED BY <2>1, <2>2 DEF HasLocks
<1>2. ASSUME NEW c \in Claims, CancelOne(p, c), ~Finish(p)
      PROVE  HasLocks(p)'
  <2>1. op[p] = "cancel" /\ at[p] = "cancel"
    BY <1>2 DEF CancelOne, Base, Fits, Typed, Shape
  <2>2. op'[p] = op[p] /\ at'[p] = at[p] /\ lock' = lock
    BY <1>2, CancelOneOwn DEF Base
  <2> QED BY <2>1, <2>2 DEF HasLocks
<1>3. CASE Finish(p)
  BY <1>3, FinishLocks
<1> QED BY <1>1, <1>2, <1>3
        DEF Writes, WriteInterview, WriteMeeting, EventSaved, Release, RequestDies, WriteChange

\* Every request has the locks it should.
LockedInv == Base /\ \A p \in Requests : HasLocks(p)

\* The locks a request needs at each stage are its own.
LEMMA LocksHold == Spec => []LockedInv
<1>1. Init => \A p \in Requests : HasLocks(p)
  BY RoomsAssumption DEF Init, HasLocks
<1>2. Base /\ (\A p \in Requests : HasLocks(p)) /\ [Next]_vars => (\A p \in Requests : HasLocks(p))'
  <2> SUFFICES ASSUME Base, \A p \in Requests : HasLocks(p), [Next]_vars
               PROVE  \A p \in Requests : HasLocks(p)'
    OBVIOUS
  <2>1. CASE UNCHANGED vars \/ Tick
    BY <2>1 DEF vars, request, history, Tick, HasLocks
  <2>2. ASSUME NEW p \in Requests, Step(p)
        PROVE  \A q \in Requests : HasLocks(q)'
    <3>1. HasLocks(p)'
      BY <2>2, AsksLocks, TriesLocks, WritesLocks DEF Step
    <3>2. \A q \in Requests \ {p} : HasLocks(q)'
      BY <2>2, StepOwn, StandingLocks DEF Base
    <3> QED BY <3>1, <3>2
  <2> QED BY <2>1, <2>2, Steps
<1> QED BY <1>1, <1>2, BaseHolds, PTL DEF Spec, LockedInv

\* Two edits that swap rooms do not wait for each other: the locks an edit
\* holds are all below the one it waits for (updateRoomBookingAsMember's order).
THEOREM NoEditsDeadlock == Spec => []EditsNeverDeadlock
<1>1. LockedInv => EditsNeverDeadlock
  <2> SUFFICES ASSUME LockedInv, NEW p \in Requests, NEW q \in Requests,
                      op[p] = "edit", op[q] = "edit", Deadlocked(p, q)
               PROVE  FALSE
    BY DEF EditsNeverDeadlock
  <2>1. PICK a, b : a = Head(todo[p]) /\ b = Head(todo[q])
    OBVIOUS
  <2>2. at[p] = "lock" /\ at[q] = "lock" /\ lock[a] = q /\ lock[b] = p
    BY <2>1 DEF Deadlocked, Next2Lock
  <2>3. a \in Rooms /\ b \in Rooms
    <3>1. /\ todo[p] \in Seq(Rooms) /\ Len(todo[p]) \in {1, 2}
          /\ todo[q] \in Seq(Rooms) /\ Len(todo[q]) \in {1, 2}
      BY <2>2 DEF LockedInv, Base, Fits, Waits
    <3> QED BY <2>1, <3>1
  <2>4. a < b /\ b < a
    BY <2>1, <2>2, <2>3 DEF LockedInv, HasLocks
  <2> QED BY <2>3, <2>4, RoomsAssumption
<1> QED BY <1>1, LocksHold, PTL

-----------------------------------------------------------------------------
(* The effect of a write on each claim.                                     *)

Kept(c) ==
    /\ c \in stale' <=> c \in stale
    /\ c \in loose' <=> c \in loose
    /\ c \in late' <=> c \in late

Plain(c) == row'[c] = row[c] /\ (Live(row, c) => Kept(c))

Booked(p, c) ==
    /\ Fresh(c) /\ op[p] \in {"book", "event", "interview", "meeting"}
    /\ op[p] # "meeting" => at[p] = "write" /\ row'[c].kind = want[p].kind
    /\ op[p] = "meeting" => row'[c].kind = "Meeting"
    /\ row'[c].room = want[p].room /\ row'[c].start = want[p].start
    /\ row'[c].end = want[p].end /\ row'[c].event = want[p].event
    /\ op[p] = "event" => op'[p] = "event" /\ ids'[p] = ids[p] \cup {c}
    /\ op[p] = "interview" =>
         /\ ~SerializationFails(p)
         /\ c \in stale' \/ ~Taken(row, want[p], want[p].start, want[p].end, ids[p])
         /\ \A d \in ids[p] \ {c} : row'[d] = saw[p][d]
         /\ \A d \in Claims \ (ids[p] \cup {c}) : row'[d] = row[d]
    /\ op[p] \in {"book", "event"} => \A d \in Claims \ {c} : row'[d] = row[d]

Tied(p, c) ==
    /\ op[p] = "event" /\ c \in ids[p] /\ Live(row, c) /\ Kept(c) /\ op'[p] = "none"
    /\ row'[c].kind = row[c].kind /\ row'[c].room = row[c].room
    /\ row'[c].start = row[c].start /\ row'[c].end = row[c].end
    /\ \/ row'[c].event = "orphan"
       \/ row'[c].event \in Events /\ \A d \in Claims : row[d].event # row'[c].event

Dropped(p, c) == op[p] = "event" /\ c \in ids[p] /\ row'[c] = Deleted /\ op'[p] = "none"

Altered(p, c) ==
    /\ op[p] \in {"edit", "extend", "retime"} /\ at[p] = "write"
    /\ c \in ids[p] /\ Live(row, c)
    /\ row'[c].kind = row[c].kind /\ row'[c].event = row[c].event
    /\ row'[c].end = want[p].end
    /\ op[p] = "edit" => row'[c].room = want[p].room
    /\ op[p] # "edit" => row'[c].room = row[c].room
    /\ op[p] # "extend" => row'[c].start = want[p].start
    /\ op[p] = "extend" => row'[c].start = row[c].start
    /\ c \in stale' <=> (op[p] = "extend" /\ c \in stale) \/ WroteUntested(p, c)
    /\ c \in loose' <=> c \in loose \/ (op[p] = "edit" /\ row[c].event # NoEvent)
    /\ c \in late' <=> op[p] = "extend" /\ c \in late

Given(p, c) ==
    /\ op[p] = "interview" /\ at[p] = "write" /\ c \in ids[p]
    /\ row'[c] = saw[p][c] /\ Kept(c)

Off(p, c) ==
    op[p] = "cancel" /\ c \in ids[p] /\ ~Held(c) /\ Exists(c) /\ row'[c] = Cancelled

Cut(p, c) ==
    /\ op[p] = "cancel" /\ c \in ids[p] /\ ~Held(c) /\ Live(row, c) /\ Underway(saw[p][c])
    /\ row'[c].kind = row[c].kind /\ row'[c].room = row[c].room
    /\ row'[c].start = row[c].start /\ row'[c].event = row[c].event
    /\ row'[c].end = clock
    /\ c \in stale' <=> c \in stale
    /\ c \in loose' <=> c \in loose
    /\ c \in late' <=> c \in late \/ ~Underway(row[c])

Replaced(p, c) ==
    /\ op[p] = "meeting" /\ c \in ids[p] /\ row'[c].kind = "Meeting"
    /\ row'[c].event = want[p].event

Effect(p, c) ==
    \/ Plain(c) \/ Booked(p, c) \/ Tied(p, c) \/ Dropped(p, c) \/ Altered(p, c)
    \/ Given(p, c) \/ Off(p, c) \/ Cut(p, c) \/ Replaced(p, c)

LEMMA WriteBookingEffect ==
    ASSUME Base, NEW p \in Requests, NEW d \in Claims, WriteBooking(p, d), NEW c \in Claims
    PROVE  Effect(p, c)
<1>1. PICK n : n = NewRow(want[p])
  OBVIOUS
<1>2. /\ n.kind = want[p].kind /\ n.room = want[p].room /\ n.start = want[p].start
      /\ n.end = want[p].end /\ n.event = want[p].event
  BY <1>1, Written DEF Base, Fits, Typed
<1>3. row' = [row EXCEPT ![d] = n] /\ UNCHANGED history /\ Fresh(d) /\ at[p] = "write"
      /\ op[p] \in {"book", "event"}
  BY <1>1 DEF WriteBooking
<1>4. CASE c # d
  BY <1>3, <1>4 DEF Base, Effect, Plain, Kept, history
<1>5. CASE c = d
  <2>1. row'[c] = n
    BY <1>3, <1>5 DEF Base
  <2>2. op[p] = "event" => op'[p] = "event" /\ ids'[p] = ids[p] \cup {c}
    BY <1>5, WriteBookingOwn DEF Base
  <2>3. \A x \in Claims \ {c} : row'[x] = row[x]
    BY <1>3, <1>5 DEF Base
  <2> QED BY <1>2, <1>3, <1>5, <2>1, <2>2, <2>3 DEF Effect, Booked
<1> QED BY <1>4, <1>5

LEMMA WriteInterviewEffect ==
    ASSUME Base, NEW p \in Requests, NEW d \in Claims, WriteInterview(p, d), NEW c \in Claims
    PROVE  Effect(p, c)
<1>1. PICK n : n = NewRow(want[p])
  OBVIOUS
<1>2. /\ n.kind = want[p].kind /\ n.room = want[p].room /\ n.start = want[p].start
      /\ n.end = want[p].end /\ n.event = want[p].event
  BY <1>1, Written DEF Base, Fits, Typed
<1>3. CASE SerializationFails(p)
  BY <1>3 DEF WriteInterview, Effect, Plain, Kept
<1>4. CASE ~SerializationFails(p)
  <2>1. /\ op[p] = "interview" /\ at[p] = "write" /\ Fresh(d) /\ UNCHANGED <<loose, late>>
        /\ stale' = IF Taken(row, want[p], want[p].start, want[p].end, ids[p])
                    THEN stale \cup {d} ELSE stale
    BY <1>4 DEF WriteInterview
  <2>2. row' = [x \in Claims |-> IF x = d THEN n
                                 ELSE IF x \in ids[p] THEN saw[p][x] ELSE row[x]]
    BY <1>1, <1>4 DEF WriteInterview
  <2>3. CASE c = d
    <3>1. row'[c] = n
      BY <2>2, <2>3
    <3>2. /\ \A x \in ids[p] \ {c} : row'[x] = saw[p][x]
          /\ \A x \in Claims \ (ids[p] \cup {c}) : row'[x] = row[x]
      BY <2>2, <2>3 DEF Base, Fits, Typed
    <3> QED BY <1>2, <1>4, <2>1, <2>3, <3>1, <3>2 DEF Effect, Booked
  <2>4. CASE c # d
    <3>1. Kept(c)
      BY <2>1, <2>4 DEF Kept
    <3>2. CASE c \in ids[p]
      BY <2>1, <2>2, <2>4, <3>1, <3>2 DEF Effect, Given
    <3>3. CASE c \notin ids[p]
      BY <2>2, <2>4, <3>1, <3>3 DEF Effect, Plain
    <3> QED BY <3>2, <3>3
  <2> QED BY <2>3, <2>4
<1> QED BY <1>3, <1>4

LEMMA CancelOneEffect ==
    ASSUME Base, NEW p \in Requests, NEW d \in Claims, CancelOne(p, d), NEW c \in Claims
    PROVE  Effect(p, c)
<1>1. op[p] = "cancel" /\ d \in ids[p] /\ Exists(d) /\ ~Held(d)
  BY DEF CancelOne
<1>2. CASE Underway(saw[p][d])
  <2>1. /\ row' = IF Live(row, d) THEN [row EXCEPT ![d].end = clock] ELSE row
        /\ late' = IF Live(row, d) /\ ~Underway(row[d]) THEN late \cup {d} ELSE late
        /\ UNCHANGED <<stale, loose>>
    BY <1>2 DEF CancelOne
  <2>2. CASE c # d \/ ~Live(row, d)
    BY <2>1, <2>2 DEF Base, Effect, Plain, Kept
  <2>3. CASE c = d /\ Live(row, d)
    <3>1. row'[c] = [row[c] EXCEPT !.end = clock]
      BY <2>1, <2>3 DEF Base
    <3>2. /\ row'[c].kind = row[c].kind /\ row'[c].room = row[c].room
          /\ row'[c].start = row[c].start /\ row'[c].event = row[c].event
          /\ row'[c].end = clock
      BY <3>1 DEF Base, RowTypes
    <3> QED BY <1>1, <1>2, <2>1, <2>3, <3>2 DEF Effect, Cut
  <2> QED BY <2>2, <2>3
<1>3. CASE ~Underway(saw[p][d])
  <2>1. row' = [row EXCEPT ![d] = Cancelled] /\ Forget({d})
    BY <1>3 DEF CancelOne
  <2>2. CASE c # d
    BY <2>1, <2>2 DEF Base, Effect, Plain, Kept, Forget
  <2>3. CASE c = d
    BY <1>1, <2>1, <2>3 DEF Base, Effect, Off
  <2> QED BY <2>2, <2>3
<1> QED BY <1>2, <1>3

LEMMA WriteMeetingEffect ==
    ASSUME Base, NEW p \in Requests, NEW d \in Claims, WriteMeeting(p, d), NEW c \in Claims
    PROVE  Effect(p, c)
<1>1. PICK n : n = NewRow([want[p] EXCEPT !.kind = "Meeting"])
  OBVIOUS
<1>2. /\ n.kind = "Meeting" /\ n.room = want[p].room /\ n.start = want[p].start
      /\ n.end = want[p].end /\ n.event = want[p].event
  BY <1>1, WrittenMeeting DEF Base, Fits, Typed
<1>3. /\ row' = [row EXCEPT ![d] = n] /\ UNCHANGED history /\ op[p] = "meeting"
      /\ Fresh(d) \/ d \in ids[p]
  BY <1>1 DEF WriteMeeting, Base, Fits, Shape
<1>4. CASE c # d
  BY <1>3, <1>4 DEF Base, Effect, Plain, Kept, history
<1>5. CASE c = d
  <2>1. row'[c] = n
    BY <1>3, <1>5 DEF Base
  <2> QED BY <1>2, <1>3, <1>5, <2>1 DEF Effect, Booked, Replaced
<1> QED BY <1>4, <1>5

LEMMA TieEffect ==
    ASSUME Base, NEW p \in Requests, NEW e \in Events \cup {"orphan"}, op[p] = "event", Finish(p),
           row' = [c \in Claims |-> IF c \in ids[p] /\ Live(row, c)
                                    THEN [row[c] EXCEPT !.event = e] ELSE row[c]],
           e = "orphan" \/ \A d \in Claims : row[d].event # e,
           UNCHANGED history, NEW c \in Claims
    PROVE  Effect(p, c)
<1>1. Kept(c) /\ op'[p] = "none"
  BY FinishOwn DEF Kept, history, Base
<1>2. CASE c \in ids[p] /\ Live(row, c)
  <2>1. row'[c] = [row[c] EXCEPT !.event = e]
    BY <1>2
  <2>2. /\ row'[c].kind = row[c].kind /\ row'[c].room = row[c].room
        /\ row'[c].start = row[c].start /\ row'[c].end = row[c].end /\ row'[c].event = e
    BY <2>1 DEF Base, RowTypes
  <2> QED BY <1>1, <1>2, <2>2 DEF Effect, Tied
<1>3. CASE ~(c \in ids[p] /\ Live(row, c))
  BY <1>1, <1>3 DEF Effect, Plain
<1> QED BY <1>2, <1>3

LEMMA WriteChangeEffect ==
    ASSUME Base, NEW p \in Requests, WriteChange(p), NEW c \in Claims
    PROVE  Effect(p, c)
<1>1. op[p] \in {"edit", "extend", "retime"} /\ at[p] = "write"
  BY DEF WriteChange
<1>2. CASE ~\A d \in ids[p] : Exists(d)
  BY <1>2 DEF WriteChange, Effect, Plain, Kept, history
<1>3. CASE \A d \in ids[p] : Exists(d)
  <2>1. /\ row' = [d \in Claims |-> IF d \in ids[p] /\ Live(row, d) THEN Changed(p, d)
                                    ELSE row[d]]
        /\ stale' = (IF op[p] = "extend" THEN stale ELSE stale \ ids[p])
                        \cup {d \in ids[p] : Live(row, d) /\ WroteUntested(p, d)}
        /\ loose' = IF op[p] = "edit"
                    THEN loose \cup {d \in ids[p] : row[d].event # NoEvent /\ Live(row, d)}
                    ELSE loose
        /\ late' = IF op[p] = "extend" THEN late ELSE late \ ids[p]
    BY <1>3 DEF WriteChange
  <2>2. CASE c \in ids[p] /\ Live(row, c)
    <3>1. PICK n : n = Changed(p, c)
      OBVIOUS
    <3>2. /\ n.kind = row[c].kind /\ n.event = row[c].event /\ n.end = want[p].end
          /\ op[p] = "edit" => n.room = want[p].room
          /\ op[p] # "edit" => n.room = row[c].room
          /\ op[p] # "extend" => n.start = want[p].start
          /\ op[p] = "extend" => n.start = row[c].start
      BY <1>1, <3>1, Changes
    <3>3. row'[c] = n
      BY <2>1, <2>2, <3>1
    <3>4. /\ c \in stale' <=> (op[p] = "extend" /\ c \in stale) \/ WroteUntested(p, c)
          /\ c \in loose' <=> c \in loose \/ (op[p] = "edit" /\ row[c].event # NoEvent)
          /\ c \in late' <=> op[p] = "extend" /\ c \in late
      BY <2>1, <2>2
    <3> QED BY <1>1, <2>2, <3>2, <3>3, <3>4 DEF Effect, Altered
  <2>3. CASE ~(c \in ids[p] /\ Live(row, c))
    <3>1. row'[c] = row[c]
      BY <2>1, <2>3
    <3>2. Live(row, c) => Kept(c)
      BY <2>1, <2>3 DEF Kept
    <3> QED BY <3>1, <3>2 DEF Effect, Plain
  <2> QED BY <2>2, <2>3
<1> QED BY <1>2, <1>3

\* Every write does one of a few things to each claim.
LEMMA Effects ==
    ASSUME Base, NEW p \in Requests, Writes(p), NEW c \in Claims
    PROVE  Effect(p, c)
<1>1. CASE \E d \in Claims : \/ WriteBooking(p, d) \/ WriteInterview(p, d)
                             \/ CancelOne(p, d) \/ WriteMeeting(p, d)
  BY <1>1, WriteBookingEffect, WriteInterviewEffect, CancelOneEffect, WriteMeetingEffect
<1>2. ASSUME NEW e \in Events, EventSaved(p, e)
      PROVE  Effect(p, c)
  <2>1. op[p] = "event"
    BY <1>2 DEF EventSaved, Base, Fits, Shape
  <2> QED BY <1>2, <2>1, TieEffect DEF EventSaved
<1>3. CASE RequestDies(p)
  BY <1>3, TieEffect DEF RequestDies
<1>4. CASE Release(p)
  <2>1. op[p] = "event" /\ op'[p] = "none"
    BY <1>4, FinishOwn DEF Release, Base, Fits, Shape
  <2>2. /\ row' = [d \in Claims |-> IF d \in ids[p] THEN Deleted ELSE row[d]]
        /\ Forget(ids[p])
    BY <1>4 DEF Release
  <2>3. CASE c \in ids[p]
    BY <2>1, <2>2, <2>3 DEF Effect, Dropped
  <2>4. CASE c \notin ids[p]
    BY <2>2, <2>4 DEF Effect, Plain, Kept, Forget
  <2> QED BY <2>3, <2>4
<1>5. CASE WriteChange(p)
  BY <1>5, WriteChangeEffect
<1> QED BY <1>1, <1>2, <1>3, <1>4, <1>5 DEF Writes

-----------------------------------------------------------------------------
(* Whose rows they are.                                                     *)

Owned ==
    /\ \A p \in Requests : Rows(p) /\ Releases(p)
    /\ \A p, q \in Requests : Apart(p, q)
    /\ Keyed /\ EventAllOrNone

\* What can become of a claim while p writes.
Fate(p, c) ==
    /\ Member(c) => Member(c)'
    /\ row[c].kind = "Meeting" => row'[c].kind = "Meeting"
    /\ row[c].kind = "Interview" => row'[c].kind \in {"Interview", "Cancelled"}
    /\ Live(row', c) => Live(row, c) \/ Booked(p, c)
    /\ Live(row', c) =>
         \/ row'[c].event = row[c].event \/ Tied(p, c) \/ Booked(p, c)
         \/ row'[c].kind = "Meeting" /\ row'[c].event = NoEvent

\* What a write does to a claim, given whose claim it was.
LEMMA Fates ==
    ASSUME Base, Owned, NEW p \in Requests, Writes(p), NEW c \in Claims
    PROVE  Fate(p, c)
<1>1. Effect(p, c) /\ Rows(p) /\ Releases(p) /\ Carries(p)
  BY Effects DEF Owned, Base, Fits
<1>2. CASE Plain(c)
  BY <1>2 DEF Plain, Fate, Member, Live
<1>3. CASE Booked(p, c)
  BY <1>3 DEF Booked, Fresh, Fate, Member
<1>4. CASE Tied(p, c)
  BY <1>1, <1>4 DEF Tied, Rows, Fate, Member, Live, Kinds
<1>5. CASE Dropped(p, c) \/ Off(p, c)
  BY <1>1, <1>5, Values DEF Dropped, Off, Rows, Fate, Member, Live, Kinds, Exists
<1>6. CASE Altered(p, c)
  BY <1>1, <1>6 DEF Altered, Rows, Fate, Member, Live, Kinds
<1>7. CASE Given(p, c)
  <2>1. row[c].kind = "Interview" /\ Released(row'[c], row[c])
    BY <1>1, <1>7 DEF Given, Rows, Releases
  <2> QED BY <2>1 DEF Fate, Member, Live, Kinds, Released
<1>8. CASE Cut(p, c)
  BY <1>1, <1>8 DEF Cut, Rows, Fate, Member, Live, Kinds
<1>9. CASE Replaced(p, c)
  BY <1>1, <1>9 DEF Replaced, Rows, Carries, Fate, Member, Live, Kinds
<1> QED BY <1>1, <1>2, <1>3, <1>4, <1>5, <1>6, <1>7, <1>8, <1>9 DEF Effect

\* Nobody else writes the booking of an interview that is being moved.
LEMMA HeldStays ==
    ASSUME Base, Owned, NEW p \in Requests, Writes(p), NEW q \in Requests \ {p},
           op[q] = "interview", NEW c \in ids[q]
    PROVE  row'[c] = row[c]
<1>1. c \in Claims /\ row[c].kind = "Interview" /\ Rows(p)
  BY DEF Owned, Rows, Base, Fits, Typed
<1>2. Effect(p, c)
  BY <1>1, Effects
<1>3. Held(c)
  BY DEF Held
<1>4. op[p] = "interview" => c \notin ids[p]
  BY DEF Owned, Apart
<1> QED BY <1>1, <1>2, <1>3, <1>4 DEF Effect, Plain, Booked, Fresh, Tied, Dropped, Altered,
                                      Given, Off, Cut, Replaced, Rows, Member

\* How a request is after it has written.
LEMMA AfterWrite ==
    ASSUME Base, NEW p \in Requests, Writes(p)
    PROVE  \/ op'[p] = "none"
           \/ /\ op[p] = "event" /\ op'[p] = "event" /\ want'[p] = want[p]
              /\ at[p] = "write" /\ at'[p] = "rooms"
              /\ \E d \in Claims : Booked(p, d) /\ ids'[p] = ids[p] \cup {d}
           \/ /\ op[p] = "cancel" /\ op'[p] = "cancel" /\ ids'[p] \subseteq ids[p]
              /\ saw'[p] = saw[p]
<1>1. CASE Finish(p)
  BY <1>1, FinishOwn DEF Base
<1>2. ASSUME NEW c \in Claims, WriteBooking(p, c), ~Finish(p)
      PROVE  /\ op[p] = "event" /\ op'[p] = "event" /\ want'[p] = want[p]
             /\ at[p] = "write" /\ at'[p] = "rooms"
             /\ \E d \in Claims : Booked(p, d) /\ ids'[p] = ids[p] \cup {d}
  <2>1. /\ op[p] = "event" /\ op'[p] = "event" /\ want'[p] = want[p] /\ at'[p] = "rooms"
        /\ ids'[p] = ids[p] \cup {c}
    BY <1>2, WriteBookingOwn DEF Base
  <2>2. at[p] = "write" /\ Fresh(c) /\ row' = [row EXCEPT ![c] = NewRow(want[p])]
    BY <1>2 DEF WriteBooking
  <2>3. row'[c].kind = want[p].kind
    BY <2>2, Written DEF Base, Fits, Typed
  <2>4. want[p].kind \in Kinds /\ row[c].kind = "None"
    BY <2>2 DEF Base, Fits, Typed, WantTypes, Fresh
  <2>5. Effect(p, c)
    BY <1>2, WriteBookingEffect
  <2>6. Booked(p, c)
    BY <2>1, <2>3, <2>4, <2>5 DEF Effect, Plain, Tied, Dropped, Altered, Given, Off, Cut, Replaced,
                                  Kinds
  <2> QED BY <2>1, <2>2, <2>6
<1>3. ASSUME NEW c \in Claims, CancelOne(p, c), ~Finish(p)
      PROVE  /\ op[p] = "cancel" /\ op'[p] = "cancel" /\ ids'[p] \subseteq ids[p]
             /\ saw'[p] = saw[p]
  <2>1. op[p] = "cancel"
    BY <1>3 DEF CancelOne
  <2> QED BY <1>3, <2>1, CancelOneOwn DEF Base
<1>4. \/ Finish(p)
      \/ \E c \in Claims : (WriteBooking(p, c) \/ CancelOne(p, c)) /\ ~Finish(p)
  BY DEF Writes, WriteInterview, WriteMeeting, EventSaved, Release, RequestDies, WriteChange
<1> QED BY <1>1, <1>2, <1>3, <1>4

\* An event's request that is answered leaves none of its holds pending.
LEMMA EventDone ==
    ASSUME Base, NEW p \in Requests, Writes(p), op[p] = "event", op'[p] = "none",
           NEW c \in ids[p], Live(row', c)
    PROVE  row'[c].event # "pending"
<1>1. c \in Claims
  BY DEF Base, Fits, Typed
<1>2. CASE \E d \in Claims : WriteBooking(p, d)
  BY <1>2, WriteBookingOwn DEF Base
<1>3. ASSUME NEW e \in Events \cup {"orphan"},
             row' = [d \in Claims |-> IF d \in ids[p] /\ Live(row, d)
                                      THEN [row[d] EXCEPT !.event = e] ELSE row[d]]
      PROVE  row'[c].event # "pending"
  <2>1. Live(row, c)
    BY <1>1, <1>3 DEF Live
  <2>2. row'[c] = [row[c] EXCEPT !.event = e]
    BY <1>1, <1>3, <2>1
  <2>3. row'[c].event = e
    BY <1>1, <2>2 DEF Base, RowTypes
  <2> QED BY <2>3, RoomsAssumption
<1>4. CASE Release(p)
  BY <1>1, <1>4, Values, RoomsAssumption DEF Release
<1>5. CASE \E e \in Events : EventSaved(p, e)
  BY <1>3, <1>5 DEF EventSaved
<1>6. CASE RequestDies(p)
  BY <1>3, <1>6 DEF RequestDies
<1> QED BY <1>2, <1>4, <1>5, <1>6
        DEF Writes, WriteInterview, WriteMeeting, CancelOne, WriteChange, Base, Fits, Shape

\* The rows of the requests that stand while p writes.
LEMMA StandingRows ==
    ASSUME Base, Owned, NEW p \in Requests, Writes(p), NEW q \in Requests \ {p}
    PROVE  Rows(q)'
<1>1. op'[q] = op[q] /\ ids'[q] = ids[q] /\ ids[q] \subseteq Claims
  BY WritesOwn DEF Own, Stands, Base, Fits, Typed
<1>2. Rows(q) /\ Apart(p, q)
  BY DEF Owned
<1>3. \A c \in ids[q] : Fate(p, c)
  BY <1>1, Fates
<1>4. op[q] \in {"event", "edit", "extend", "retime"} =>
        \A c \in ids[q] : Member(c)' /\ (Live(row', c) => Live(row, c))
  BY <1>2, <1>3 DEF Rows, Fate, Member, Booked, Fresh
<1>5. op[q] = "cancel" => \A c \in ids[q] : Member(c)' \/ row'[c].kind = "Interview"
  BY <1>2, <1>3 DEF Rows, Fate, Member
<1>6. op[q] = "meeting" => \A c \in ids[q] : row'[c].kind = "Meeting"
  BY <1>2, <1>3 DEF Rows, Fate
<1>7. op[q] = "interview" => \A c \in ids[q] : row'[c].kind = "Interview"
  BY <1>2, HeldStays DEF Rows
<1>8. op[q] \in {"event", "retime"} =>
        \A c \in ids[q] : Live(row', c) => row'[c].event = row[c].event \/ Tied(p, c)
  BY <1>2, <1>3, <1>4 DEF Rows, Fate, Member, Booked, Fresh
<1>9. ASSUME op[q] = "event", NEW c \in ids[q], Live(row', c)
      PROVE  row'[c].event = "pending"
  <2>1. Live(row, c) /\ row[c].event = "pending"
    BY <1>2, <1>4, <1>9 DEF Rows
  <2>2. ~Tied(p, c)
    BY <1>2, <1>9 DEF Apart, Tied
  <2> QED BY <1>8, <1>9, <2>1, <2>2
<1>10. ASSUME op[q] = "retime"
       PROVE  \E e \in Events :
                /\ \A c \in ids[q] : Live(row', c) => row'[c].event = e
                /\ (Holds(e) \subseteq ids[q])' \/ \A c \in ids[q] : ~Live(row', c)
  <2>1. PICK e \in Events :
          /\ \A c \in ids[q] : Live(row, c) => row[c].event = e
          /\ Holds(e) \subseteq ids[q] \/ \A c \in ids[q] : ~Live(row, c)
    BY <1>2, <1>10 DEF Rows
  <2>2. e # "pending" /\ e # NoEvent /\ e # "orphan"
    BY RoomsAssumption
  <2>3. \A c \in ids[q] : Live(row', c) => Live(row, c)
    BY <1>4, <1>10
  <2>4. ASSUME NEW c \in ids[q], Live(row', c)
        PROVE  row'[c].event = e
    <3>1. ~Tied(p, c)
      BY <2>1, <2>2, <2>3, <2>4 DEF Tied, Owned, Rows
    <3> QED BY <1>8, <1>10, <2>1, <2>3, <2>4, <3>1
  <2>5. CASE \A c \in ids[q] : ~Live(row, c)
    BY <2>3, <2>4, <2>5
  <2>6. CASE Holds(e) \subseteq ids[q] /\ \E c \in ids[q] : Live(row, c)
    <3>1. PICK d \in Claims : row[d].event = e
      BY <1>1, <2>1, <2>6
    <3>2. ASSUME NEW c \in Claims, Live(row', c), row'[c].event = e
          PROVE  c \in ids[q]
      <4>1. Fate(p, c)
        BY Fates
      <4>2. ~Tied(p, c)
        BY <2>2, <3>1, <3>2 DEF Tied
      <4>3. ~Booked(p, c)
        BY <2>2, <3>2 DEF Booked, Base, Fits, Carries
      <4>4. Live(row, c) /\ row[c].event = e
        BY <2>2, <3>2, <4>1, <4>2, <4>3 DEF Fate
      <4> QED BY <2>6, <4>4 DEF Holds
    <3>3. (Holds(e) \subseteq ids[q])'
      BY <1>1, <3>2 DEF Holds
    <3> QED BY <2>4, <3>3
  <2> QED BY <2>1, <2>5, <2>6
<1>11. op[q] = "event" => \A c \in ids[q] : Live(row', c) => row'[c].event = "pending"
  BY <1>9
<1> QED BY <1>1, <1>4, <1>5, <1>6, <1>7, <1>10, <1>11 DEF Rows

\* A request keeps the rows it is entitled to across its own write.
LEMMA WritersRows ==
    ASSUME Base, Owned, NEW p \in Requests, Writes(p)
    PROVE  Rows(p)'
<1>1. Rows(p) /\ Carries(p) /\ ids[p] \subseteq Claims
  BY DEF Owned, Base, Fits, Typed
<1>2. \A c \in Claims : Fate(p, c)
  BY Fates
<1>3. CASE op'[p] = "none"
  BY <1>3 DEF Rows
<1>4. ASSUME op[p] = "event", op'[p] = "event", at[p] = "write",
             NEW d \in Claims, Booked(p, d), ids'[p] = ids[p] \cup {d}
      PROVE  Rows(p)'
  <2>1. row'[d].kind = "Web" /\ row'[d].event = "pending"
    BY <1>1, <1>4 DEF Booked, Carries
  <2>2. ASSUME NEW c \in ids[p]
        PROVE  Member(c)' /\ (Live(row', c) => row'[c].event = "pending")
    <3>1. Member(c) /\ (Live(row, c) => row[c].event = "pending") /\ Fate(p, c)
      BY <1>1, <1>2, <1>4 DEF Rows
    <3>2. ~Tied(p, c) /\ ~Booked(p, c)
      BY <1>4, <3>1 DEF Tied, Booked, Fresh, Member
    <3> QED BY <3>1, <3>2 DEF Fate, Member
  <2>3. \A c \in ids'[p] : Member(c)' /\ (Live(row', c) => row'[c].event = "pending")
    BY <1>4, <2>1, <2>2 DEF Member
  <2> QED BY <1>4, <2>3 DEF Rows
<1>5. CASE op[p] = "cancel" /\ op'[p] = "cancel" /\ ids'[p] \subseteq ids[p]
  <2>1. \A c \in ids[p] : Member(c)' \/ row'[c].kind = "Interview"
    BY <1>1, <1>2, <1>5 DEF Rows, Fate, Member
  <2> QED BY <1>5, <2>1 DEF Rows
<1> QED BY <1>3, <1>4, <1>5, AfterWrite

\* No two requests that book for an event, or for interviews, share a claim.
LEMMA WritesApart ==
    ASSUME Base, Owned, NEW p \in Requests, Writes(p), NEW q \in Requests, NEW r \in Requests
    PROVE  Apart(q, r)'
<1>1. ASSUME NEW a \in Requests \ {p}
      PROVE  op'[a] = op[a] /\ ids'[a] = ids[a]
  BY WritesOwn DEF Own, Stands, Base
<1>2. Apart(q, r)
  BY DEF Owned
<1>3. CASE q # p /\ r # p
  BY <1>1, <1>2, <1>3 DEF Apart
<1>4. ASSUME NEW a \in Requests \ {p}, op'[p] = op'[a], op'[p] \in {"event", "interview"}
      PROVE  ids'[p] \cap ids'[a] = {}
  <2>1. /\ op[p] = "event" /\ op'[p] = "event"
        /\ \E d \in Claims : Booked(p, d) /\ ids'[p] = ids[p] \cup {d}
    BY <1>4, AfterWrite
  <2>2. PICK d \in Claims : Booked(p, d) /\ ids'[p] = ids[p] \cup {d}
    BY <2>1
  <2>3. op[a] = "event" /\ ids'[a] = ids[a]
    BY <1>1, <1>4, <2>1
  <2>4. ids[p] \cap ids[a] = {}
    BY <2>1, <2>3 DEF Owned, Apart
  <2>5. d \notin ids[a]
    BY <2>2, <2>3 DEF Booked, Fresh, Owned, Rows, Member
  <2> QED BY <2>2, <2>3, <2>4, <2>5
<1> QED BY <1>3, <1>4 DEF Apart

LEMMA WritesKeyed ==
    ASSUME Base, Owned, NEW p \in Requests, Writes(p)
    PROVE  Keyed'
<1> SUFFICES ASSUME NEW c \in Claims, row'[c].event # NoEvent
             PROVE  row'[c].kind = "Web"
  BY DEF Keyed
<1>1. /\ Effect(p, c) /\ Rows(p) /\ Releases(p) /\ Carries(p)
      /\ row[c].event # NoEvent => row[c].kind = "Web"
  BY Effects DEF Owned, Base, Fits, Keyed
<1>2. CASE Plain(c) \/ Altered(p, c) \/ Cut(p, c)
  BY <1>1, <1>2 DEF Plain, Altered, Cut
<1>3. CASE Booked(p, c)
  BY <1>1, <1>3 DEF Booked, Carries
<1>4. CASE Tied(p, c)
  BY <1>1, <1>4 DEF Tied, Rows, Member, Live, Kinds
<1>5. CASE Dropped(p, c) \/ Off(p, c)
  BY <1>5, Values DEF Dropped, Off
<1>6. CASE Given(p, c)
  <2>1. Released(row'[c], row[c])
    BY <1>1, <1>6 DEF Given, Releases
  <2> QED BY <1>1, <2>1 DEF Released
<1>7. CASE Replaced(p, c)
  BY <1>1, <1>7 DEF Replaced, Carries
<1> QED BY <1>1, <1>2, <1>3, <1>4, <1>5, <1>6, <1>7 DEF Effect

LEMMA WritesAllOrNone ==
    ASSUME Base, Owned, NEW p \in Requests, Writes(p)
    PROVE  EventAllOrNone'
<1> SUFFICES ASSUME NEW c \in Claims, Live(row', c), row'[c].event = "pending"
             PROVE  \E q \in Requests : op'[q] = "event" /\ c \in ids'[q]
  BY DEF EventAllOrNone, Live
<1>1. Fate(p, c)
  BY Fates
<1>2. "pending" # NoEvent /\ "pending" \notin Events
  BY RoomsAssumption
<1>3. CASE Booked(p, c)
  <2>1. op[p] = "event"
    BY <1>2, <1>3 DEF Booked, Base, Fits, Carries
  <2> QED BY <1>3, <2>1 DEF Booked
<1>4. CASE ~Booked(p, c)
  <2>1. ~Tied(p, c)
    BY <1>2 DEF Tied
  <2>2. Live(row, c) /\ row[c].event = "pending"
    BY <1>1, <1>2, <1>4, <2>1 DEF Fate
  <2>3. PICK q \in Requests : op[q] = "event" /\ c \in ids[q]
    BY <2>2 DEF Owned, EventAllOrNone
  <2>4. CASE q # p
    BY <2>3, <2>4, WritesOwn DEF Own, Stands, Base
  <2>5. CASE q = p
    <3>1. op'[p] # "none"
      BY <2>3, <2>5, EventDone
    <3> QED BY <2>3, <2>5, <3>1, AfterWrite
  <2> QED BY <2>4, <2>5
<1> QED BY <1>3, <1>4

LEMMA WritesReleases ==
    ASSUME Base, Owned, NEW p \in Requests, Writes(p), NEW q \in Requests
    PROVE  Releases(q)'
<1>1. CASE q = p
  BY <1>1, AfterWrite DEF Releases
<1>2. CASE q # p
  <2>1. /\ op'[q] = op[q] /\ ids'[q] = ids[q] /\ saw'[q] = saw[q] /\ want'[q] = want[q]
        /\ at'[q] = at[q]
    BY <1>2, WritesOwn DEF Own, Stands, Base
  <2>2. op[q] = "interview" => \A c \in ids[q] : row'[c] = row[c]
    BY <1>2, HeldStays
  <2>3. Releases(q)
    BY DEF Owned
  <2> QED BY <2>1, <2>2, <2>3 DEF Releases, Taken, Live
<1> QED BY <1>1, <1>2

\* Writes keep every claim in its owner's hands.
LEMMA WritesOwned ==
    ASSUME Base, Owned, NEW p \in Requests, Writes(p)
    PROVE  Owned'
BY StandingRows, WritersRows, WritesApart, WritesKeyed, WritesAllOrNone, WritesReleases DEF Owned

\* How a request is after an attempt.
LEMMA AfterTry ==
    ASSUME Base, NEW p \in Requests, Tries(p)
    PROVE  \/ op'[p] = "none" /\ op[p] # "event"
           \/ /\ op'[p] = op[p] /\ ids'[p] = ids[p]
              /\ op[p] = "interview" =>
                   /\ saw'[p] = saw[p]
                   /\ at'[p] = "write" =>
                        ~Taken(saw'[p], want'[p], want'[p].start, want'[p].end, {})
<1>1. CASE Finish(p)
  BY <1>1, FinishOwn DEF Tries, DeadlockVictim, Deadlocked, CancelFails, LockAndTest, RetimeNext,
                         InterviewRoom, BookNextRoom, GoogleFails, LockFirst, Base, Fits, Shape
<1>2. CASE BookNextRoom(p)
  BY <1>2, BookNextRoomOwn DEF Base, BookNextRoom, Fits, Shape
<1>3. CASE GoogleFails(p)
  BY <1>3, GoogleFailsOwn DEF Base, GoogleFails, Fits, Shape
<1>4. CASE LockFirst(p)
  BY <1>4, LockFirstOwn DEF Base, LockFirst
<1>5. CASE RetimeNext(p) /\ ~Finish(p)
  BY <1>5, RetimeNextOwn DEF Base, RetimeNext
<1>6. CASE InterviewRoom(p) /\ ~Finish(p)
  <2>1. PICK w : w = [want[p] EXCEPT !.room = Next2Lock(p)]
    OBVIOUS
  <2>2. at[p] = "lock"
    BY <1>6 DEF InterviewRoom
  <2>3. /\ op'[p] = op[p] /\ ids'[p] = ids[p] /\ saw'[p] = saw[p]
        /\ at'[p] = "write" => want'[p] = w /\ ~Taken(saw[p], w, w.start, w.end, {})
    BY <1>6, <2>1, <2>2, InterviewRoomOwn DEF Base
  <2> QED BY <2>3
<1>7. CASE (\E w \in Asked(p) : LockAndTest(p, w)) /\ ~Finish(p)
  BY <1>7, LockAndTestOwn DEF Base, LockAndTest
<1> QED BY <1>1, <1>2, <1>3, <1>4, <1>5, <1>6, <1>7 DEF Tries, DeadlockVictim, CancelFails

LEMMA TriesOwned ==
    ASSUME Base, Owned, NEW p \in Requests, Tries(p)
    PROVE  Owned'
<1>1. row' = row
  BY NothingWritten
<1>2. ASSUME NEW q \in Requests \ {p}
      PROVE  /\ op'[q] = op[q] /\ ids'[q] = ids[q] /\ saw'[q] = saw[q] /\ want'[q] = want[q]
             /\ at'[q] = at[q]
  BY TriesOwn DEF Own, Stands, Base
<1>3. ASSUME NEW q \in Requests
      PROVE  op'[q] = "none" \/ (op'[q] = op[q] /\ ids'[q] = ids[q])
  BY <1>2, AfterTry
<1>4. ASSUME NEW q \in Requests
      PROVE  Rows(q)'
  BY <1>1, <1>3 DEF Owned, Rows, Member, Live, Holds
<1>5. ASSUME NEW q \in Requests, NEW r \in Requests
      PROVE  Apart(q, r)'
  BY <1>3 DEF Owned, Apart
<1>6. ASSUME NEW q \in Requests
      PROVE  Releases(q)'
  <2>1. Releases(q)
    BY DEF Owned
  <2>2. CASE q # p
    BY <1>1, <1>2, <2>1, <2>2 DEF Releases, Taken, Live
  <2>3. CASE q = p
    BY <1>1, <2>1, <2>3, AfterTry DEF Releases, Taken, Live
  <2> QED BY <2>2, <2>3
<1>7. Keyed' /\ EventAllOrNone'
  <2>1. \A q \in Requests : op[q] = "event" => op'[q] = "event" /\ ids'[q] = ids[q]
    BY <1>2, AfterTry
  <2> QED BY <1>1, <2>1 DEF Owned, Keyed, EventAllOrNone, Live
<1> QED BY <1>4, <1>5, <1>6, <1>7 DEF Owned

\* What an interview sees of the booking it releases.
LEMMA EndedReleases ==
    ASSUME Base, NEW c \in Claims
    PROVE  Released(Ended(row[c]), row[c])
<1>1. PICK b \in RowTypes : b = row[c]
  BY DEF Base
<1>2. CASE Underway(b)
  <2>1. PICK n : n = [b EXCEPT !.end = clock]
    OBVIOUS
  <2>2. /\ n.kind = b.kind /\ n.room = b.room /\ n.start = b.start /\ n.event = b.event
        /\ n.end = clock
    BY <2>1 DEF RowTypes
  <2>3. clock <= b.end /\ b.start < clock
    BY <1>2 DEF Underway, RowTypes, Times, Base
  <2> QED BY <1>1, <1>2, <2>1, <2>2, <2>3 DEF Ended, Released
<1>3. CASE ~Underway(b)
  BY <1>1, <1>3, Values DEF Ended, Released
<1> QED BY <1>2, <1>3

\* How a request is when it has asked.
LEMMA AfterAsking ==
    ASSUME Base, NEW p \in Requests, Asks(p)
    PROVE  /\ at[p] = "idle" /\ op[p] = "none"
           /\ \/ op'[p] = "book"
              \/ op'[p] = "event" /\ ids'[p] = {}
              \/ /\ op'[p] \in {"edit", "extend"}
                 /\ \E c \in Claims : ids'[p] = {c} /\ Live(row, c) /\ row[c].kind = "Web"
              \/ op'[p] = "meeting" /\ \A c \in ids'[p] : row[c].kind = "Meeting"
              \/ /\ op'[p] = "interview" /\ at'[p] = "lock"
                 /\ \A c \in ids'[p] : Live(row, c) /\ row[c].kind = "Interview" /\ ~Held(c)
                 /\ saw'[p] = [c \in Claims |-> IF c \in ids'[p] THEN Ended(row[c]) ELSE row[c]]
              \/ /\ op'[p] = "retime"
                 /\ \E e \in Events : ids'[p] = Holds(e)
              \/ op'[p] = "cancel" /\ ids'[p] \in Cancelable /\ saw'[p] = Read(ids'[p])
<1>1. ASSUME NEW r, NEW s, NEW k, Book(p, r, s, k), r \in Rooms
      PROVE  at[p] = "idle" /\ op'[p] = "book"
  BY <1>1, StartOwn DEF Book, Base
<1>2. ASSUME NEW c \in Claims, NEW r, Edit(p, c, r)
      PROVE  at[p] = "idle" /\ op'[p] = "edit" /\ ids'[p] = {c} /\ Live(row, c)
             /\ row[c].kind = "Web"
  BY <1>2, StartOwn DEF Edit, Base
<1>3. ASSUME NEW r, NEW s, NEW S, Meeting(p, r, s, S)
      PROVE  at[p] = "idle" /\ op'[p] = "meeting" /\ \A c \in ids'[p] : row[c].kind = "Meeting"
  BY <1>3, StartOwn DEF Meeting, Base
<1>4. ASSUME NEW rooms, NEW s, BookForEvent(p, rooms, s)
      PROVE  at[p] = "idle" /\ op'[p] = "event" /\ ids'[p] = {}
  BY <1>4, StartOwn DEF BookForEvent, Base
<1>5. ASSUME NEW rooms, NEW s, NEW S, Interview(p, rooms, s, S)
      PROVE  /\ at[p] = "idle" /\ op'[p] = "interview" /\ at'[p] = "lock"
             /\ \A c \in ids'[p] : Live(row, c) /\ row[c].kind = "Interview" /\ ~Held(c)
             /\ saw'[p] = [c \in Claims |-> IF c \in ids'[p] THEN Ended(row[c]) ELSE row[c]]
  <2>1. PICK w, t : /\ w = Ask(0, s, "Interview")
                    /\ t = [c \in Claims |-> IF c \in S THEN Ended(row[c]) ELSE row[c]]
    OBVIOUS
  <2>2. Start(p, "interview", "lock", w, S, t, rooms) /\ lock' = lock
    BY <1>5, <2>1 DEF Interview
  <2>3. /\ at[p] = "idle" /\ op'[p] = "interview" /\ at'[p] = "lock" /\ ids'[p] = S
        /\ saw'[p] = t
    BY <2>2, StartOwn DEF Base
  <2> QED BY <1>5, <2>1, <2>3 DEF Interview
<1>6. ASSUME NEW e \in Events, NEW s, NEW o, Retime(p, e, s, o)
      PROVE  at[p] = "idle" /\ op'[p] = "retime" /\ ids'[p] = Holds(e)
  BY <1>6, StartOwn DEF Retime, Base
<1>7. ASSUME NEW c \in Claims, Extend(p, c)
      PROVE  at[p] = "idle" /\ op'[p] = "extend" /\ ids'[p] = {c} /\ Live(row, c)
             /\ row[c].kind = "Web"
  BY <1>7, StartOwn DEF Extend, Base
<1>8. ASSUME NEW S \in Cancelable, Cancel(p, S)
      PROVE  at[p] = "idle" /\ op'[p] = "cancel" /\ ids'[p] \in Cancelable
             /\ saw'[p] = Read(ids'[p])
  BY <1>8, StartOwn DEF Cancel, Base
<1>9. at[p] = "idle" => op[p] = "none"
  BY DEF Base, Fits, Shape
<1>10. CASE \E r \in Rooms :
        \/ \E s \in Slots["book"], k \in {"Web", "InterviewHold"} : Book(p, r, s, k)
        \/ \E c \in Claims : Edit(p, c, r)
        \/ \E s \in Slots["meeting"], S \in NoneOrOne : Meeting(p, r, s, S)
  BY <1>1, <1>2, <1>3, <1>9, <1>10, Zenon
<1>11. CASE \E rooms \in Picks :
        \/ \E s \in Slots["event"] : BookForEvent(p, rooms, s)
        \/ \E s \in Slots["interview"], S \in NoneOrOne : Interview(p, rooms, s, S)
  BY <1>4, <1>5, <1>9, <1>11
<1>12. CASE \E e \in Events, s \in Slots["retime"] : \E order \in Orders(Holds(e)) :
         Retime(p, e, s, order)
  BY <1>6, <1>9, <1>12
<1>13. CASE \/ \E c \in Claims : Extend(p, c)
            \/ \E S \in Cancelable : Cancel(p, S)
  BY <1>7, <1>8, <1>9, <1>13
<1> QED BY <1>10, <1>11, <1>12, <1>13 DEF Asks

LEMMA AsksRows ==
    ASSUME Base, Owned, NEW p \in Requests, Asks(p)
    PROVE  Rows(p)'
<1>1. row' = row
  BY NothingWritten
<1>2. CASE op'[p] = "book" \/ (op'[p] = "event" /\ ids'[p] = {})
  BY <1>2 DEF Rows
<1>3. CASE /\ op'[p] \in {"edit", "extend"}
           /\ \E c \in Claims : ids'[p] = {c} /\ Live(row, c) /\ row[c].kind = "Web"
  BY <1>1, <1>3 DEF Rows, Member
<1>4. CASE op'[p] = "meeting" /\ \A c \in ids'[p] : row[c].kind = "Meeting"
  BY <1>1, <1>4 DEF Rows
<1>5. CASE op'[p] = "interview" /\ \A c \in ids'[p] : row[c].kind = "Interview"
  BY <1>1, <1>5 DEF Rows
<1>6. ASSUME NEW e \in Events, ids'[p] = Holds(e), op'[p] = "retime"
      PROVE  Rows(p)'
  <2>1. \A c \in Holds(e) : row[c].event = e /\ row[c].kind = "Web"
    BY RoomsAssumption DEF Holds, Owned, Keyed
  <2>2. \A c \in ids'[p] : row'[c].event = e /\ Member(c)'
    BY <1>1, <1>6, <2>1 DEF Member
  <2>3. (Holds(e) \subseteq ids[p])'
    BY <1>1, <1>6 DEF Holds, Live
  <2> QED BY <1>6, <2>2, <2>3 DEF Rows
<1>7. CASE op'[p] = "cancel" /\ ids'[p] \in Cancelable
  <2>1. \A c \in ids'[p] : row[c].kind \in {"Web", "Interview"}
    BY <1>7, RoomsAssumption DEF Cancelable, Holds, Owned, Keyed
  <2> QED BY <1>1, <1>7, <2>1 DEF Rows, Member
<1> QED BY <1>2, <1>3, <1>4, <1>5, <1>6, <1>7, AfterAsking

LEMMA AsksOwned ==
    ASSUME Base, Owned, NEW p \in Requests, Asks(p)
    PROVE  Owned'
<1>1. row' = row
  BY NothingWritten
<1>2. ASSUME NEW q \in Requests \ {p}
      PROVE  /\ op'[q] = op[q] /\ ids'[q] = ids[q] /\ saw'[q] = saw[q] /\ want'[q] = want[q]
             /\ at'[q] = at[q]
  BY AsksOwn DEF Own, Stands, Base
<1>3. ASSUME NEW q \in Requests
      PROVE  Rows(q)'
  <2>1. CASE q # p
    BY <1>1, <1>2, <2>1 DEF Owned, Rows, Member, Live, Holds
  <2> QED BY <2>1, AsksRows
<1>4. ASSUME NEW q \in Requests \ {p}, op'[p] = op'[q], op'[p] \in {"event", "interview"}
      PROVE  ids'[p] \cap ids'[q] = {}
  <2>1. CASE op'[p] = "event"
    BY <2>1, AfterAsking
  <2>2. CASE op'[p] = "interview"
    <3>1. \A c \in ids'[p] : ~Held(c)
      BY <2>2, AfterAsking
    <3>2. op[q] = "interview" /\ ids'[q] = ids[q]
      BY <1>2, <1>4, <2>2
    <3> QED BY <3>1, <3>2 DEF Held
  <2> QED BY <1>4, <2>1, <2>2
<1>5. ASSUME NEW q \in Requests, NEW r \in Requests
      PROVE  Apart(q, r)'
  <2>1. CASE q # p /\ r # p
    BY <1>2, <2>1 DEF Owned, Apart
  <2> QED BY <1>4, <2>1 DEF Apart
<1>6. ASSUME NEW q \in Requests
      PROVE  Releases(q)'
  <2>1. CASE q # p
    BY <1>1, <1>2, <2>1 DEF Owned, Releases, Taken, Live
  <2>2. CASE q = p /\ op'[p] = "interview"
    <3>1. /\ at'[p] = "lock"
          /\ saw'[p] = [c \in Claims |-> IF c \in ids'[p] THEN Ended(row[c]) ELSE row[c]]
      BY <2>2, AfterAsking
    <3>2. ids'[p] \subseteq Claims
      BY AsksFit DEF Fits, Typed
    <3>3. \A c \in ids'[p] : Released(saw'[p][c], row'[c])
      BY <1>1, <3>1, <3>2, EndedReleases
    <3> QED BY <2>2, <3>1, <3>3 DEF Releases
  <2> QED BY <2>1, <2>2 DEF Releases
<1>7. Keyed' /\ EventAllOrNone'
  <2>1. op[p] = "none"
    BY AfterAsking
  <2>2. \A q \in Requests : op[q] = "event" => op'[q] = "event" /\ ids'[q] = ids[q]
    BY <1>2, <2>1
  <2> QED BY <1>1, <2>2 DEF Owned, Keyed, EventAllOrNone, Live
<1> QED BY <1>3, <1>5, <1>6, <1>7 DEF Owned

\* Base and Owned together.
OwnedInv == Base /\ Owned

\* Claims are always tied, released or in the hands of their request.
LEMMA OwnedHolds == Spec => []OwnedInv
<1>1. Init => Owned
  BY RoomsAssumption DEF Init, Owned, Rows, Releases, Apart, Keyed, EventAllOrNone, NoRow, Live, Kinds
<1>2. Base /\ Owned /\ [Next]_vars => Owned'
  <2> SUFFICES ASSUME Base, Owned, [Next]_vars PROVE Owned'
    OBVIOUS
  <2>1. CASE UNCHANGED vars \/ Tick
    BY <2>1 DEF vars, request, history, Tick, Owned, Rows, Releases, Apart, Keyed, EventAllOrNone,
                Member, Live, Holds, Taken
  <2>2. ASSUME NEW p \in Requests, Step(p)
        PROVE  Owned'
    BY <2>2, AsksOwned, TriesOwned, WritesOwned DEF Step
  <2> QED BY <2>1, <2>2, Steps
<1> QED BY <1>1, <1>2, BaseHolds, PTL DEF Spec, OwnedInv

\* A hold made for an event is tied to it, released or in the hands of the
\* request that books the rooms (bookRoomsForEvent).
THEOREM EventHoldsKept == Spec => []EventAllOrNone
<1>1. OwnedInv => EventAllOrNone
  BY DEF OwnedInv, Owned
<1> QED BY <1>1, OwnedHolds, PTL

-----------------------------------------------------------------------------
(* The holds of an event start together.                                    *)

Gathered == Together /\ \A p \in Requests : Gathers(p)

\* A row that a request has is not a new one.
LEMMA OwnRows ==
    ASSUME Base, Owned, NEW p \in Requests, NEW c \in ids[p],
           op[p] \in {"event", "edit", "extend", "retime", "cancel", "interview"}
    PROVE  /\ c \in Claims /\ row[c] \in RowTypes /\ row[c].kind # "None"
           /\ row[c].kind # "Meeting"
BY DEF Base, Fits, Typed, Owned, Rows, Member

\* What p's write leaves of a hold nobody has edited, whose event is pending.
LEMMA FirmHold ==
    ASSUME Base, Owned, NEW p \in Requests, Writes(p), NEW c \in Claims,
           Member(c), Firm(c)', row[c].event = "pending", Gathers(p),
           row[c].end > row[c].start
    PROVE  /\ Firm(c) /\ row'[c].room = row[c].room /\ row'[c].start = row[c].start
           /\ row'[c].end > row'[c].start
<1>1. /\ Effect(p, c) /\ Rows(p) /\ Carries(p) /\ Typed(p) /\ Live(row', c) /\ c \notin loose'
      /\ row[c] \in RowTypes
  BY Effects DEF Base, Fits, Owned, Firm, Live
<1>2. "pending" # NoEvent /\ "pending" \notin Events
  BY RoomsAssumption
<1>3. CASE Plain(c)
  <2>1. Live(row, c) /\ row'[c] = row[c]
    BY <1>1, <1>3 DEF Plain, Live
  <2> QED BY <1>1, <1>3, <2>1 DEF Plain, Kept, Firm
<1>4. CASE Tied(p, c)
  BY <1>1, <1>4 DEF Tied, Kept, Firm
<1>5. CASE Altered(p, c)
  <2>1. op[p] # "edit"
    BY <1>1, <1>2, <1>5 DEF Altered
  <2>2. op[p] # "retime"
    BY <1>1, <1>2, <1>5 DEF Altered, Rows
  <2>3. op[p] = "extend" /\ c \in ids[p] /\ Firm(c)
    BY <1>1, <1>5, <2>1, <2>2 DEF Altered, Firm
  <2>4. saw[p][c].start = row[c].start /\ want[p].end > saw[p][c].start
    BY <1>1, <2>3 DEF Gathers, Carries
  <2> QED BY <1>5, <2>3, <2>4 DEF Altered
<1>6. CASE Cut(p, c)
  <2>1. Firm(c) /\ op[p] = "cancel" /\ c \in ids[p] /\ saw[p][c].start < clock
    BY <1>1, <1>6 DEF Cut, Firm, Underway
  <2>2. saw[p][c].start = row[c].start
    BY <2>1 DEF Gathers
  <2>3. row[c].start \in Int /\ clock \in Int
    BY <1>1 DEF RowTypes, Times, Base
  <2> QED BY <1>6, <2>1, <2>2, <2>3 DEF Cut
<1>7. ~Booked(p, c) /\ ~Given(p, c) /\ ~Replaced(p, c)
  BY <1>1 DEF Booked, Given, Replaced, Fresh, Rows, Member
<1>8. ~Dropped(p, c) /\ ~Off(p, c)
  BY <1>1, Values DEF Dropped, Off, Live, Kinds
<1> QED BY <1>1, <1>3, <1>4, <1>5, <1>6, <1>7, <1>8 DEF Effect

\* Pending holds come from pending holds.
LEMMA StillPending ==
    ASSUME Base, Owned, NEW p \in Requests, Writes(p), NEW c \in Claims, row[c].kind # "None",
           Live(row', c), row'[c].event = "pending"
    PROVE  row[c].event = "pending" /\ Live(row, c) /\ row[c].kind = "Web"
<1>1. "pending" # NoEvent /\ "pending" \notin Events
  BY RoomsAssumption
<1>2. ~Tied(p, c) /\ ~Booked(p, c)
  BY <1>1 DEF Tied, Booked, Fresh
<1>3. Live(row, c) /\ row[c].event = "pending"
  BY <1>1, <1>2, Fates DEF Fate
<1> QED BY <1>1, <1>3 DEF Owned, Keyed

\* What an extension and a cancellation go by, while p writes.
LEMMA StillRead ==
    ASSUME Base, Owned, NEW p \in Requests, Writes(p), NEW q \in Requests,
           op[q] \in {"extend", "cancel"}, Gathers(q), NEW c \in ids[q],
           Firm(c)', row'[c].event = "pending"
    PROVE  saw[q][c].start = row'[c].start
<1>1. c \in Claims /\ row[c].kind # "None"
  BY OwnRows
<1>2. /\ row[c].event = "pending" /\ Live(row, c) /\ row[c].kind = "Web"
  BY <1>1, StillPending DEF Firm
<1>3. /\ Effect(p, c) /\ Rows(p) /\ Live(row', c) /\ c \notin loose'
  BY <1>1, Effects DEF Owned, Firm, Live
<1>4. "pending" # NoEvent /\ "pending" \notin Events
  BY RoomsAssumption
<1>5. Firm(c) /\ row'[c].start = row[c].start
  <2>1. CASE Plain(c) \/ Tied(p, c) \/ Cut(p, c)
    BY <1>2, <1>3, <2>1 DEF Plain, Tied, Cut, Kept, Firm
  <2>2. CASE Altered(p, c)
    <3>1. op[p] # "edit"
      BY <1>2, <1>3, <1>4, <2>2 DEF Altered
    <3>2. op[p] # "retime"
      BY <1>2, <1>3, <1>4, <2>2 DEF Altered, Rows
    <3> QED BY <1>2, <1>3, <2>2, <3>1, <3>2 DEF Altered, Firm
  <2>3. ~Booked(p, c) /\ ~Given(p, c) /\ ~Replaced(p, c)
    BY <1>2, <1>3 DEF Booked, Given, Replaced, Fresh, Rows
  <2>4. ~Dropped(p, c) /\ ~Off(p, c)
    BY <1>3, Values DEF Dropped, Off, Live, Kinds
  <2> QED BY <1>3, <2>1, <2>2, <2>3, <2>4 DEF Effect
<1>6. saw[q][c].start = row[c].start
  BY <1>2, <1>5 DEF Gathers
<1> QED BY <1>5, <1>6

LEMMA StandingGathers ==
    ASSUME Base, Owned, Gathered, NEW p \in Requests, Writes(p), NEW q \in Requests \ {p}
    PROVE  Gathers(q)'
<1>1. /\ op'[q] = op[q] /\ ids'[q] = ids[q] /\ saw'[q] = saw[q] /\ want'[q] = want[q]
      /\ at'[q] = at[q]
  BY WritesOwn DEF Own, Stands, Base
<1>2. Gathers(q) /\ Gathers(p) /\ Rows(q)
  BY DEF Gathered, Owned
<1>3. ASSUME op[q] = "event", NEW c \in ids[q], Firm(c)'
      PROVE  /\ Firm(c) /\ row'[c].room = row[c].room /\ row'[c].start = row[c].start
             /\ row'[c].end > row'[c].start
  <2>1. c \in Claims /\ row[c].kind # "None" /\ Member(c)
    BY <1>2, <1>3, OwnRows DEF Rows
  <2>2. Live(row, c)
    BY <1>3, <2>1, Fates DEF Firm, Fate, Booked, Fresh, Live
  <2>3. row[c].event = "pending"
    BY <1>2, <1>3, <2>2 DEF Rows
  <2>4. ~Tied(p, c)
    BY <1>3 DEF Owned, Apart, Tied
  <2>5. Firm(c)
    <3>1. /\ Effect(p, c) /\ Rows(p) /\ Live(row', c) /\ c \notin loose'
      BY <1>3, <2>1, Effects DEF Owned, Firm, Live
    <3>2. Plain(c) \/ Altered(p, c) \/ Cut(p, c)
      BY <2>1, <2>4, <3>1, Values DEF Effect, Booked, Given, Replaced, Fresh, Rows, Member,
                                      Dropped, Off, Live, Kinds
    <3> QED BY <2>2, <3>1, <3>2 DEF Plain, Altered, Cut, Kept, Firm
  <2>6. row[c].end > row[c].start
    BY <1>2, <1>3, <2>5 DEF Gathers
  <2> QED BY <1>2, <1>3, <2>1, <2>3, <2>6, FirmHold
<1>4. ASSUME op[q] = "event"
      PROVE  /\ \A c \in ids[q] : Firm(c)' =>
                  row'[c].start = want[q].start /\ row'[c].end > row'[c].start
             /\ \A c, d \in ids[q] : Firm(c)' /\ Firm(d)' /\ c # d => row'[c].room # row'[d].room
             /\ at[q] = "write" => \A c \in ids[q] : Firm(c)' => row'[c].room # want[q].room
  <2>1. /\ \A c \in ids[q] : Firm(c) => row[c].start = want[q].start
        /\ \A c, d \in ids[q] : Firm(c) /\ Firm(d) /\ c # d => row[c].room # row[d].room
        /\ at[q] = "write" => \A c \in ids[q] : Firm(c) => row[c].room # want[q].room
    BY <1>2, <1>4 DEF Gathers
  <2> QED BY <1>3, <1>4, <2>1
<1>5. op[q] \in {"extend", "cancel"} =>
        \A c \in ids[q] : Firm(c)' /\ row'[c].event = "pending" => saw[q][c].start = row'[c].start
  BY <1>2, StillRead
<1> QED BY <1>1, <1>4, <1>5 DEF Gathers

LEMMA WritersGathers ==
    ASSUME Base, Owned, Gathered, NEW p \in Requests, Writes(p)
    PROVE  Gathers(p)'
<1>1. Gathers(p) /\ Rows(p) /\ Carries(p) /\ Typed(p)
  BY DEF Gathered, Owned, Base, Fits
<1>2. CASE op'[p] = "none"
  BY <1>2 DEF Gathers
<1>3. CASE /\ op[p] = "cancel" /\ op'[p] = "cancel" /\ ids'[p] \subseteq ids[p]
           /\ saw'[p] = saw[p]
  <2>1. \A c \in ids[p] : Firm(c)' /\ row'[c].event = "pending" => saw[p][c].start = row'[c].start
    BY <1>1, <1>3, StillRead
  <2> QED BY <1>3, <2>1 DEF Gathers
<1>4. ASSUME op[p] = "event", op'[p] = "event", want'[p] = want[p], at[p] = "write",
             at'[p] = "rooms", NEW d \in Claims, Booked(p, d), ids'[p] = ids[p] \cup {d}
      PROVE  Gathers(p)'
  <2>1. ASSUME NEW c \in ids[p], Firm(c)'
        PROVE  /\ Firm(c) /\ row'[c].room = row[c].room /\ row'[c].start = row[c].start
               /\ row'[c].end > row'[c].start
    <3>1. c \in Claims /\ row[c].kind # "None" /\ Member(c)
      BY <1>1, <1>4, <2>1, OwnRows DEF Rows
    <3>2. Live(row, c)
      BY <2>1, <3>1, Fates DEF Firm, Fate, Booked, Fresh, Live
    <3>3. row[c].event = "pending"
      BY <1>1, <1>4, <2>1, <3>2 DEF Rows
    <3>4. Firm(c)
      <4>1. /\ Effect(p, c) /\ Live(row', c) /\ c \notin loose'
        BY <2>1, <3>1, Effects DEF Firm, Live
      <4>2. Plain(c) \/ Tied(p, c)
        BY <1>4, <3>1, <4>1 DEF Effect, Booked, Fresh, Altered, Dropped, Given, Off, Cut, Replaced
      <4> QED BY <3>2, <4>1, <4>2 DEF Plain, Tied, Kept, Firm
    <3>5. row[c].end > row[c].start
      BY <1>1, <1>4, <2>1, <3>4 DEF Gathers
    <3> QED BY <1>1, <2>1, <3>1, <3>3, <3>5, FirmHold
  <2>2. /\ row'[d].start = want[p].start /\ row'[d].end = want[p].end
        /\ row'[d].room = want[p].room /\ want[p].end > want[p].start
    <3>1. want[p].start < want[p].end /\ want[p].start \in Int /\ want[p].end \in Int
      BY <1>1, <1>4 DEF Carries, Typed, WantTypes, Times
    <3> QED BY <1>4, <3>1 DEF Booked
  <2>3. /\ \A c \in ids[p] : Firm(c) => row[c].start = want[p].start
        /\ \A c, b \in ids[p] : Firm(c) /\ Firm(b) /\ c # b => row[c].room # row[b].room
        /\ \A c \in ids[p] : Firm(c) => row[c].room # want[p].room
    BY <1>1, <1>4 DEF Gathers
  <2>4. \A c \in ids'[p] : Firm(c)' => row'[c].start = want[p].start /\ row'[c].end > row'[c].start
    BY <1>4, <2>1, <2>2, <2>3
  <2>5. ASSUME NEW c \in ids'[p], NEW b \in ids'[p], Firm(c)', Firm(b)', c # b
        PROVE  row'[c].room # row'[b].room
    <3>1. CASE c \in ids[p] /\ b \in ids[p]
      BY <2>1, <2>3, <2>5, <3>1
    <3>2. CASE c = d
      BY <1>4, <2>1, <2>2, <2>3, <2>5, <3>2
    <3>3. CASE b = d
      BY <1>4, <2>1, <2>2, <2>3, <2>5, <3>3
    <3> QED BY <1>4, <3>1, <3>2, <3>3
  <2> QED BY <1>4, <2>4, <2>5 DEF Gathers
<1> QED BY <1>2, <1>3, <1>4, AfterWrite

\* A retime writes the time of all its holds or of none.
LEMMA RetimesAll ==
    ASSUME Base, NEW p \in Requests, Writes(p), op[p] = "retime",
           NEW c \in ids[p], NEW d \in ids[p], Live(row, c), Live(row, d)
    PROVE  \/ row'[c] = row[c] /\ row'[d] = row[d]
           \/ row'[c].start = want[p].start /\ row'[d].start = want[p].start
<1>1. WriteChange(p)
  BY DEF Writes, WriteBooking, WriteInterview, CancelOne, WriteMeeting, EventSaved, Release,
         RequestDies, Base, Fits, Shape
<1>2. ids[p] \subseteq Claims
  BY DEF Base, Fits, Typed
<1>3. CASE ~\A b \in ids[p] : Exists(b)
  BY <1>1, <1>3 DEF WriteChange
<1>4. CASE \A b \in ids[p] : Exists(b)
  <2>1. row'[c] = Changed(p, c) /\ row'[d] = Changed(p, d)
    BY <1>1, <1>2, <1>4 DEF WriteChange
  <2>2. Changed(p, c).start = want[p].start /\ Changed(p, d).start = want[p].start
    BY <1>2, Changes
  <2> QED BY <2>1, <2>2
<1> QED BY <1>3, <1>4

\* The holds of an event after a write: the event was saved now ...
SavedNow(p, e, c) == Tied(p, c) /\ Firm(c) /\ \A d \in Claims : row[d].event # e

\* ... or they were its holds before.
HeldBefore(p, e, c) ==
    /\ c \in Holds(e) /\ Firm(c) /\ row'[c].room = row[c].room
    /\ (op[p] = "retime" /\ c \in ids[p]) \/ row'[c].start = row[c].start

\* A hold of an event was saved by this write or was one before it.
LEMMA HoldsAfter ==
    ASSUME Base, Owned, NEW p \in Requests, Writes(p), NEW e \in Events,
           NEW c \in Claims, Firm(c)', row'[c].event = e
    PROVE  SavedNow(p, e, c) \/ HeldBefore(p, e, c)
<1>1. /\ Effect(p, c) /\ Rows(p) /\ Carries(p) /\ Live(row', c) /\ c \notin loose' /\ Fate(p, c)
  BY Effects, Fates DEF Owned, Base, Fits, Firm, Live
<1>2. e # NoEvent /\ e # "pending" /\ e # "orphan"
  BY RoomsAssumption
<1>3. CASE Tied(p, c)
  BY <1>1, <1>2, <1>3 DEF Tied, Kept, Firm, SavedNow
<1>4. ~Booked(p, c)
  BY <1>1, <1>2 DEF Booked, Carries
<1>5. CASE ~Tied(p, c)
  <2>1. Live(row, c) /\ row[c].event = e /\ c \in Holds(e) /\ row[c].kind = "Web"
    BY <1>1, <1>2, <1>4, <1>5 DEF Fate, Holds, Owned, Keyed
  <2>2. CASE Plain(c) \/ Cut(p, c)
    BY <1>1, <2>1, <2>2 DEF Plain, Cut, Kept, Firm, HeldBefore
  <2>3. CASE Altered(p, c)
    <3>1. op[p] # "edit"
      BY <1>1, <1>2, <2>1, <2>3 DEF Altered
    <3> QED BY <1>1, <2>1, <2>3, <3>1 DEF Altered, Firm, HeldBefore
  <2>4. ~Given(p, c) /\ ~Replaced(p, c)
    BY <1>1, <2>1 DEF Given, Replaced, Rows
  <2>5. ~Dropped(p, c) /\ ~Off(p, c)
    BY <1>1, Values DEF Dropped, Off, Live, Kinds
  <2> QED BY <1>1, <1>4, <1>5, <2>2, <2>3, <2>4, <2>5 DEF Effect
<1> QED BY <1>3, <1>5

\* Writes keep the holds of each event together.
LEMMA WritesTogether ==
    ASSUME Base, Owned, Gathered, NEW p \in Requests, Writes(p)
    PROVE  Together'
<1> SUFFICES ASSUME NEW e \in Events, NEW c \in Claims, NEW d \in Claims,
                    Firm(c)', Firm(d)', row'[c].event = e, row'[d].event = e
             PROVE  row'[c].start = row'[d].start /\ (c # d => row'[c].room # row'[d].room)
  BY DEF Together, SameStart, Holds
<1>1. /\ SavedNow(p, e, c) \/ HeldBefore(p, e, c)
      /\ SavedNow(p, e, d) \/ HeldBefore(p, e, d)
  BY HoldsAfter
<1>2. CASE SavedNow(p, e, c)
  <2>1. Tied(p, d) /\ Firm(d) /\ Tied(p, c) /\ Firm(c)
    BY <1>1, <1>2 DEF SavedNow, HeldBefore, Holds
  <2>2. /\ row[c].start = want[p].start /\ row[d].start = want[p].start
        /\ c # d => row[c].room # row[d].room
    BY <2>1 DEF Tied, Gathered, Gathers
  <2> QED BY <2>1, <2>2 DEF Tied
<1>3. CASE HeldBefore(p, e, c)
  <2>1. HeldBefore(p, e, d)
    BY <1>1, <1>3 DEF SavedNow, HeldBefore, Holds
  <2>2. row[c].start = row[d].start /\ (c # d => row[c].room # row[d].room)
    BY <1>3, <2>1 DEF HeldBefore, Gathered, Together, SameStart
  <2>3. row'[c].room = row[c].room /\ row'[d].room = row[d].room
    BY <1>3, <2>1 DEF HeldBefore
  <2>4. ASSUME op[p] = "retime", c \in ids[p] \/ d \in ids[p]
        PROVE  row'[c].start = row'[d].start
    <3>1. Live(row, c) /\ Live(row, d) /\ c \in Holds(e) /\ d \in Holds(e)
      BY <1>3, <2>1 DEF HeldBefore, Firm
    <3>2. row[c].event = e /\ row[d].event = e
      BY <3>1 DEF Holds
    <3>3. c \in ids[p] /\ d \in ids[p]
      BY <2>4, <3>1, <3>2 DEF Owned, Rows
    <3> QED BY <2>2, <2>4, <3>1, <3>3, RetimesAll
  <2> QED BY <1>3, <2>1, <2>2, <2>3, <2>4 DEF HeldBefore
<1> QED BY <1>1, <1>2, <1>3

\* Trying and asking.
LEMMA StillTogether ==
    ASSUME row' = row, loose' = loose, Together
    PROVE  Together'
BY DEF Together, SameStart, Holds, Firm, Live

LEMMA StandsGathers ==
    ASSUME Base, NEW p \in Requests, Own(p), NEW q \in Requests \ {p}, row' = row, loose' = loose,
           Gathers(q)
    PROVE  Gathers(q)'
BY DEF Own, Stands, Gathers, Firm, Live

LEMMA BookNextRoomGathers ==
    ASSUME Base, Owned, NEW p \in Requests, BookNextRoom(p), Gathers(p), row' = row, loose' = loose
    PROVE  Gathers(p)'
<1>1. PICK w : w = [want[p] EXCEPT !.room = Head(todo[p])]
  OBVIOUS
<1>2. op[p] = "event" /\ at[p] = "rooms"
  BY DEF BookNextRoom, Base, Fits, Shape
<1>3. /\ w.room = Head(todo[p]) /\ w.start = want[p].start /\ w.end = want[p].end
      /\ w.kind = "Web" /\ w.start < w.end /\ w.start \in Int /\ w.end \in Int
  BY <1>1, <1>2 DEF Base, Fits, Typed, WantTypes, Carries, Times
<1>4. /\ op'[p] = "event" /\ ids'[p] = ids[p]
      /\ \/ at'[p] = "release" /\ want'[p] = want[p]
         \/ at'[p] = "write" /\ want'[p] = w /\ ~Taken(row, w, w.start, w.end, {})
  BY <1>1, <1>2, BookNextRoomOwn DEF Base
<1>5. /\ \A c \in ids[p] : Firm(c)' => Firm(c)
      /\ \A c \in ids[p] : Firm(c) => row[c].start = want[p].start /\ row[c].end > row[c].start
      /\ \A c, d \in ids[p] : Firm(c) /\ Firm(d) /\ c # d => row[c].room # row[d].room
  BY <1>2 DEF Gathers, Firm, Live
<1>6. ASSUME ~Taken(row, w, w.start, w.end, {}), NEW c \in ids[p], Firm(c)
      PROVE  row[c].room # w.room
  <2>1. c \in Claims /\ row[c].kind = "Web" /\ Live(row, c) /\ row[c] \in RowTypes
    BY <1>2, <1>6, OwnRows DEF Firm, Live, Owned, Rows, Member, Kinds
  <2>2. Overlap(row[c], w.start, w.end)
    <3>1. row[c].start = w.start /\ row[c].end > row[c].start
      BY <1>3, <1>5, <1>6
    <3>2. row[c].start \in Int /\ row[c].end \in Int
      BY <2>1 DEF RowTypes, Times
    <3> QED BY <1>3, <3>1, <3>2 DEF Overlap
  <2>3. Blocks(row[c].kind, w.kind)
    BY <1>3, <2>1 DEF Blocks, System
  <2> QED BY <1>6, <2>1, <2>2, <2>3 DEF Taken
<1>7. /\ want'[p].start = want[p].start
      /\ at'[p] = "write" => \A c \in ids[p] : Firm(c) => row[c].room # want'[p].room
  BY <1>3, <1>4, <1>6
<1> QED BY <1>4, <1>5, <1>7 DEF Gathers

LEMMA TriesGathers ==
    ASSUME Base, Owned, NEW p \in Requests, Tries(p), Gathers(p)
    PROVE  Gathers(p)'
<1>1. row' = row /\ loose' = loose
  BY NothingWritten
<1>2. CASE BookNextRoom(p)
  BY <1>1, <1>2, BookNextRoomGathers
<1>3. CASE GoogleFails(p)
  BY <1>1, <1>3, GoogleFailsOwn DEF Base, Gathers, Firm, Live
<1>4. CASE Finish(p)
  BY <1>4, FinishOwn DEF Base, Gathers
<1>5. CASE LockFirst(p)
  BY <1>5, LockFirstOwn DEF Base, LockFirst, Gathers
<1>6. CASE RetimeNext(p) /\ ~Finish(p)
  BY <1>6, RetimeNextOwn DEF Base, RetimeNext, Gathers
<1>7. CASE InterviewRoom(p) /\ ~Finish(p)
  BY <1>7, InterviewRoomOwn DEF Base, InterviewRoom, Gathers
<1>8. ASSUME NEW w, LockAndTest(p, w), ~Finish(p)
      PROVE  Gathers(p)'
  <2>1. op[p] \in {"edit", "extend"} /\ op'[p] = op[p] /\ ids'[p] = ids[p]
        /\ (op[p] # "edit" => saw'[p] = saw[p])
    BY <1>8, LockAndTestOwn DEF Base, LockAndTest
  <2> QED BY <1>1, <2>1 DEF Gathers, Firm, Live
<1> QED BY <1>2, <1>3, <1>4, <1>5, <1>6, <1>7, <1>8 DEF Tries, DeadlockVictim, CancelFails

LEMMA AsksGathers ==
    ASSUME Base, Owned, NEW p \in Requests, Asks(p)
    PROVE  Gathers(p)'
<1>1. row' = row /\ loose' = loose
  BY NothingWritten
<1>2. CASE op'[p] = "event" /\ ids'[p] = {}
  BY <1>2 DEF Gathers
<1>3. CASE op'[p] = "cancel" /\ ids'[p] \in Cancelable /\ saw'[p] = Read(ids'[p])
  <2>1. ids'[p] \subseteq Claims
    BY <1>3 DEF Cancelable, Holds
  <2>2. \A c \in ids'[p] : saw'[p][c] = row[c]
    BY <1>3, <2>1, ReadRows
  <2> QED BY <1>1, <1>3, <2>2 DEF Gathers
<1>4. ASSUME NEW c \in Claims, Extend(p, c)
      PROVE  Gathers(p)'
  <2>1. op'[p] = "extend" /\ ids'[p] = {c} /\ saw'[p] = Read({c})
    BY <1>4, StartOwn DEF Extend, Base
  <2>2. Read({c})[c] = row[c]
    BY DEF Read
  <2> QED BY <1>1, <2>1, <2>2 DEF Gathers
<1>5. op'[p] = "extend" => \E c \in Claims : Extend(p, c)
  <2>1. ASSUME NEW o, NEW pc, NEW w, NEW S, NEW t, NEW rooms,
               Start(p, o, pc, w, S, t, rooms)
        PROVE  op'[p] = o
    BY <2>1 DEF Start, Base, Functions
  <2> QED BY <2>1 DEF Asks, Book, Edit, Meeting, BookForEvent, Interview, Retime, Cancel
<1>6. CASE op'[p] \notin {"event", "extend", "cancel"}
  BY <1>6 DEF Gathers
<1> QED BY <1>2, <1>3, <1>4, <1>5, <1>6, AfterAsking

GatheredInv == OwnedInv /\ Gathered

\* The holds that requests gather for an event always start together.
LEMMA GatheredHolds == Spec => []GatheredInv
<1>1. Init => Gathered
  BY RoomsAssumption DEF Init, Gathered, Together, SameStart, Holds, Gathers, NoRow, Live, Kinds
<1>2. OwnedInv /\ Gathered /\ [Next]_vars => Gathered'
  <2> SUFFICES ASSUME Base, Owned, Gathered, [Next]_vars PROVE Gathered'
    BY DEF OwnedInv
  <2>1. CASE UNCHANGED vars \/ Tick
    BY <2>1 DEF vars, request, history, Tick, Gathered, Together, SameStart, Holds, Gathers, Firm,
                Live
  <2>2. ASSUME NEW p \in Requests, Asks(p) \/ Tries(p)
        PROVE  Gathered'
    <3>1. row' = row /\ loose' = loose
      BY <2>2, NothingWritten
    <3>2. Own(p)
      BY <2>2, AsksOwn, TriesOwn DEF Base
    <3>3. Gathers(p)'
      BY <2>2, AsksGathers, TriesGathers DEF Gathered
    <3>4. \A q \in Requests \ {p} : Gathers(q)'
      BY <3>1, <3>2, StandsGathers DEF Gathered
    <3> QED BY <3>1, <3>3, <3>4, StillTogether DEF Gathered
  <2>3. ASSUME NEW p \in Requests, Writes(p)
        PROVE  Gathered'
    BY <2>3, StandingGathers, WritersGathers, WritesTogether DEF Gathered
  <2> QED BY <2>1, <2>2, <2>3, Steps DEF Step
<1> QED BY <1>1, <1>2, OwnedHolds, PTL DEF Spec, GatheredInv

\* The holds of an event that no edit touched while it was being saved start
\* together (retimeEventRoomBookings: all or none).
THEOREM EventHoldsTogether == Spec => []HoldsTogether
<1>1. GatheredInv => HoldsTogether
  BY DEF GatheredInv, Gathered, Together, SameStart, HoldsTogether, Holds, Firm
<1> QED BY <1>1, GatheredHolds, PTL

-----------------------------------------------------------------------------
(* Bookings do not clash.                                                   *)

Excludes(a, b) ==
    a.room = b.room /\ Overlap(a, b.start, b.end) /\ Blocks(a.kind, b.kind)

\* Holds of one event that an edit brought into one room.
Brought(c, d) ==
    {c, d} \cap loose # {} /\ row[c].event = row[d].event /\ row[c].event \in Events

SoundApart ==
    \A c, d \in Claims :
        c # d /\ Sound(c) /\ Sound(d) /\ Excludes(row[c], row[d]) => Brought(c, d)

InterviewsApart ==
    \A c, d \in Claims :
        c # d /\ row[c].kind = "Interview" /\ row[d].kind = "Interview" /\ {c, d} \cap late = {}
          => ~Excludes(row[c], row[d])

Scheduled ==
    Proper /\ SoundApart /\ InterviewsApart /\ \A p \in Requests : Tested(p)

\* All that holds of the locks, the rows and the holds.
Known == Base /\ Owned /\ Gathered /\ \A p \in Requests : HasLocks(p)

\* Exclusion is symmetric.
LEMMA ExcludesBoth ==
    ASSUME NEW a \in RowTypes, NEW b \in RowTypes, Excludes(a, b)
    PROVE  Excludes(b, a)
BY DEF Excludes, Overlap, Blocks, RowTypes, Times

\* A claim that a write leaves where it is, or ends earlier.
Shrunk(c) ==
    /\ Sound(c) /\ row'[c].kind = row[c].kind /\ row'[c].room = row[c].room
    /\ row'[c].start = row[c].start /\ row'[c].end <= row[c].end
    /\ row'[c].end = row[c].end \/ row'[c].start < row'[c].end
    /\ c \in loose' <=> c \in loose
    /\ row[c].event \in Events => row'[c].event = row[c].event

\* A sound claim after a write had its place before, or was put there by it.
LEMMA ShrinksOrLands ==
    ASSUME Known, NEW p \in Requests, Writes(p), NEW c \in Claims, Sound(c)'
    PROVE  /\ Shrunk(c) \/ (Booked(p, c) /\ op[p] # "meeting") \/ Altered(p, c)
           /\ row'[c].kind \in Kinds /\ c \notin stale' /\ c \notin late'
           /\ row[c] \in RowTypes /\ row'[c] \in RowTypes
<1>1. /\ Effect(p, c) /\ Rows(p) /\ Releases(p) /\ row'[c].kind \in Kinds
      /\ c \notin stale' /\ c \notin late' /\ row[c] \in RowTypes
  BY Effects DEF Known, Base, Fits, Owned, Sound
<1>2. row'[c] \in RowTypes
  BY WritesGood DEF Known, GoodNow, Good
<1>3. row[c].end \in Int /\ row[c].start \in Int /\ clock \in Int
  BY <1>1 DEF RowTypes, Times, Known, Base
<1>4. CASE Plain(c)
  BY <1>1, <1>2, <1>3, <1>4 DEF Plain, Live, Kept, Sound, Shrunk
<1>5. CASE Tied(p, c)
  <2>1. row[c].event \notin Events
    BY <1>1, <1>5, RoomsAssumption DEF Tied, Rows
  <2>2. /\ Kept(c) /\ row'[c].kind = row[c].kind /\ row'[c].room = row[c].room
        /\ row'[c].start = row[c].start /\ row'[c].end = row[c].end
    BY <1>5 DEF Tied
  <2> QED BY <1>1, <1>2, <1>3, <2>1, <2>2 DEF Kept, Sound, Shrunk
<1>6. CASE Given(p, c)
  <2>1. row[c].kind = "Interview" /\ Released(row'[c], row[c])
    BY <1>1, <1>6 DEF Given, Rows, Releases
  <2>2. row'[c].kind # "Cancelled"
    BY <1>1 DEF Kinds
  <2>3. /\ Kept(c) /\ row'[c].kind = row[c].kind /\ row'[c].room = row[c].room
        /\ row'[c].start = row[c].start /\ row'[c].end <= row[c].end
        /\ row'[c].event = row[c].event /\ row'[c].start < row'[c].end
    BY <1>6, <2>1, <2>2 DEF Given, Released
  <2> QED BY <1>1, <1>2, <2>3 DEF Kept, Sound, Shrunk
<1>7. CASE Cut(p, c)
  <2>1. Underway(row[c])
    BY <1>1, <1>7 DEF Cut
  <2>2. clock <= row[c].end
    BY <1>3, <2>1 DEF Underway
  <2>3. /\ row'[c].kind = row[c].kind /\ row'[c].room = row[c].room
        /\ row'[c].start = row[c].start /\ row'[c].end <= row[c].end
        /\ row'[c].event = row[c].event /\ c \notin stale /\ c \notin late
        /\ c \in loose' <=> c \in loose
        /\ row'[c].start < row'[c].end
    BY <1>1, <1>7, <2>1, <2>2 DEF Cut, Underway
  <2> QED BY <1>1, <1>2, <2>3 DEF Sound, Shrunk
<1>8. ~Dropped(p, c) /\ ~Off(p, c) /\ ~Replaced(p, c)
  BY <1>1, Values DEF Dropped, Off, Replaced, Kinds
<1>9. ~(Booked(p, c) /\ op[p] = "meeting")
  BY <1>1 DEF Booked, Kinds
<1> QED BY <1>1, <1>2, <1>4, <1>5, <1>6, <1>7, <1>8, <1>9 DEF Effect

\* What p alters it went by, if it is sound afterwards.
LEMMA AlteredAsRead ==
    ASSUME Known, NEW p \in Requests, NEW c \in Claims, Altered(p, c), c \notin stale',
           c \notin late', row[c].kind \in Kinds
    PROVE  /\ op[p] \in {"extend", "retime"} => row[c].room = saw[p][c].room
           /\ op[p] = "extend" => row[c].end = saw[p][c].end /\ Sound(c)
           /\ op[p] \in {"edit", "extend"} => ids[p] = {c}
BY DEF Altered, WroteUntested, Sound, Known, Base, Fits, Carries

\* A claim lands in a room whose lock its writer holds.
LEMMA LandsLocked ==
    ASSUME Known, NEW p \in Requests, Writes(p), NEW c \in Claims, Sound(c)', ~Shrunk(c)
    PROVE  row'[c].room \in Rooms /\ lock[row'[c].room] = p
<1>1. /\ (Booked(p, c) /\ op[p] # "meeting") \/ Altered(p, c)
      /\ row'[c].kind \in Kinds /\ c \notin stale' /\ c \notin late' /\ HasLocks(p) /\ Carries(p)
  BY ShrinksOrLands DEF Known, Base, Fits
<1>2. CASE Booked(p, c) /\ op[p] # "meeting"
  BY <1>1, <1>2 DEF Booked, HasLocks, Carries
<1>3. CASE Altered(p, c)
  <2>1. row[c].kind \in Kinds
    BY <1>1, <1>3 DEF Altered
  <2>2. CASE op[p] = "edit"
    BY <1>1, <1>3, <2>2 DEF Altered, HasLocks, Carries
  <2>3. CASE op[p] = "extend"
    BY <1>1, <1>3, <2>1, <2>3, AlteredAsRead DEF Altered, HasLocks, Carries
  <2>4. CASE op[p] = "retime"
    <3>1. row'[c].room = saw[p][c].room /\ c \in ids[p] /\ at[p] = "write"
      BY <1>1, <1>3, <2>1, <2>4, AlteredAsRead DEF Altered
    <3> QED BY <1>1, <2>4, <3>1 DEF HasLocks, Carries
  <2> QED BY <1>3, <2>2, <2>3, <2>4 DEF Altered
<1> QED BY <1>1, <1>2, <1>3

\* A claim that shrinks is in the way of nothing new.
LEMMA ShrunkClears ==
    ASSUME NEW d \in Claims, Shrunk(d), row[d] \in RowTypes, row'[d] \in RowTypes,
           NEW s \in Int, NEW e \in Int, Overlap(row'[d], s, e)
    PROVE  Overlap(row[d], s, e)
BY DEF Shrunk, Overlap, RowTypes, Times

\* What the holder of a room's lock has tested stays so.
LEMMA StaysClear ==
    ASSUME Known, NEW p \in Requests, Writes(p), NEW q \in Requests \ {p},
           NEW w \in WantTypes, NEW X, lock[w.room] = q, Clear(w, X)
    PROVE  Clear(w, X)'
<1> SUFFICES ASSUME NEW d \in Claims \ X, Sound(d)', row'[d].room = w.room,
                    Overlap(row'[d], w.start, w.end)
             PROVE  ~Blocks(row'[d].kind, w.kind)
  BY DEF Clear
<1>1. Shrunk(d) /\ row[d] \in RowTypes /\ row'[d] \in RowTypes
  BY LandsLocked, ShrinksOrLands
<1>2. w.start \in Int /\ w.end \in Int
  BY DEF WantTypes, Times
<1>3. Overlap(row[d], w.start, w.end)
  BY <1>1, <1>2, ShrunkClears
<1> QED BY <1>1, <1>3 DEF Clear, Shrunk

\* What a request has tested stays clear while another one writes: that one
\* writes only in rooms whose lock it holds.
LEMMA StandingTested ==
    ASSUME Known, NEW p \in Requests, Writes(p), NEW q \in Requests \ {p}, Tested(q)
    PROVE  Tested(q)'
<1>1. /\ at'[q] = at[q] /\ op'[q] = op[q] /\ want'[q] = want[q] /\ ids'[q] = ids[q]
      /\ saw'[q] = saw[q] /\ todo'[q] = todo[q]
  BY WritesOwn DEF Own, Stands, Known, Base
<1>2. want[q] \in WantTypes /\ HasLocks(q) /\ Carries(q)
  BY DEF Known, Base, Fits, Typed
<1>3. ASSUME NEW X, Clear(want[q], X), at[q] = "write", op[q] # "retime"
      PROVE  Clear(want[q], X)'
  <2>1. PICK w \in WantTypes : w = want[q] /\ w = want'[q]
    BY <1>1, <1>2
  <2>2. lock[w.room] = q /\ Clear(w, X)
    BY <1>2, <1>3, <2>1 DEF HasLocks
  <2>3. Clear(w, X)'
    BY <2>2, StaysClear
  <2> QED BY <2>1, <2>3
<1>4. ASSUME op[q] = "retime", NEW c \in ids[q],
             ~(at[q] = "lock" /\ \E i \in 1..Len(todo[q]) : todo[q][i] = c)
      PROVE  Clear([want[q] EXCEPT !.room = saw[q][c].room], {c})'
  <2>1. PICK w : w = [want[q] EXCEPT !.room = saw[q][c].room]
    OBVIOUS
  <2>2. saw[q][c].room \in Rooms /\ lock[saw[q][c].room] = q
    BY <1>2, <1>4 DEF Carries, HasLocks
  <2>3. w \in WantTypes /\ w.room = saw[q][c].room
    BY <1>2, <2>1, <2>2 DEF WantTypes
  <2>4. Clear(w, {c})
    BY <1>4, <2>1 DEF Tested
  <2>5. Clear(w, {c})'
    BY <2>2, <2>3, <2>4, StaysClear
  <2>6. w = [want'[q] EXCEPT !.room = saw'[q][c].room]
    BY <1>1, <2>1
  <2> QED BY <2>5, <2>6
<1>5. at[q] = "write" /\ op[q] \in {"book", "event"} => Clear(want[q], {})'
  BY <1>3 DEF Tested
<1>6. at[q] = "write" /\ op[q] \in {"edit", "extend"} => Clear(want[q], ids[q])'
  <2>1. PICK X : X = ids[q] /\ X = ids'[q]
    BY <1>1
  <2> QED BY <1>3, <2>1 DEF Tested
<1>7. op[q] = "retime" => \A c \in ids[q] :
        \/ at[q] = "lock" /\ \E i \in 1..Len(todo[q]) : todo[q][i] = c
        \/ Clear([want[q] EXCEPT !.room = saw[q][c].room], {c})'
  BY <1>4
<1> QED BY <1>1, <1>5, <1>6, <1>7 DEF Tested

LEMMA WritesProper ==
    ASSUME Known, Scheduled, NEW p \in Requests, Writes(p)
    PROVE  Proper'
<1> SUFFICES ASSUME NEW c \in Claims, Sound(c)' PROVE row'[c].start < row'[c].end
  BY DEF Proper
<1>1. /\ Shrunk(c) \/ (Booked(p, c) /\ op[p] # "meeting") \/ Altered(p, c)
      /\ c \notin stale' /\ c \notin late' /\ row'[c].kind \in Kinds
      /\ row[c] \in RowTypes /\ Carries(p) /\ Typed(p)
  BY ShrinksOrLands DEF Known, Base, Fits
<1>2. CASE Shrunk(c)
  BY <1>2 DEF Shrunk, Scheduled, Proper
<1>3. CASE Booked(p, c) /\ op[p] # "meeting"
  BY <1>1, <1>3 DEF Booked, Carries
<1>4. CASE Altered(p, c)
  <2>1. CASE op[p] # "extend"
    BY <1>1, <1>4, <2>1 DEF Altered, Carries
  <2>2. CASE op[p] = "extend"
    <3>1. row[c].kind \in Kinds /\ c \in ids[p]
      BY <1>1, <1>4 DEF Altered
    <3>2. row[c].end = saw[p][c].end /\ Sound(c)
      BY <1>1, <1>4, <2>2, <3>1, AlteredAsRead
    <3>3. row[c].start < row[c].end /\ want[p].end > row[c].end
      BY <1>1, <2>2, <3>1, <3>2 DEF Scheduled, Proper, Carries
    <3>4. row[c].start \in Int /\ row[c].end \in Int /\ want[p].end \in Int
      BY <1>1 DEF RowTypes, Typed, WantTypes, Times
    <3> QED BY <1>4, <2>2, <3>3, <3>4 DEF Altered
  <2> QED BY <2>1, <2>2
<1> QED BY <1>1, <1>2, <1>3, <1>4

\* A new booking is in nobody's way.
LEMMA BookedApart ==
    ASSUME Known, Scheduled, NEW p \in Requests, Writes(p), NEW c \in Claims, NEW d \in Claims,
           c # d, Sound(c)', Sound(d)', Booked(p, c), op[p] # "meeting", Shrunk(d)
    PROVE  ~Excludes(row'[d], row'[c])
<1> SUFFICES ASSUME Excludes(row'[d], row'[c]) PROVE FALSE
  OBVIOUS
<1>1. PICK w \in WantTypes : w = want[p]
  BY DEF Known, Base, Fits, Typed
<1>2. /\ row'[c].room = w.room /\ row'[c].start = w.start /\ row'[c].end = w.end
      /\ row'[c].kind = w.kind /\ at[p] = "write"
  BY <1>1 DEF Booked
<1>3. /\ row'[d].room = w.room /\ Overlap(row'[d], w.start, w.end)
      /\ Blocks(row'[d].kind, w.kind)
  BY <1>2 DEF Excludes
<1>4. /\ row[d] \in RowTypes /\ row'[d] \in RowTypes /\ row'[d].kind \in Kinds
      /\ c \notin stale'
  BY ShrinksOrLands
<1>5. w.start \in Int /\ w.end \in Int
  BY DEF WantTypes, Times
<1>6. /\ row[d].room = w.room /\ Overlap(row[d], w.start, w.end) /\ Sound(d)
      /\ Blocks(row[d].kind, w.kind)
  BY <1>3, <1>4, <1>5, ShrunkClears DEF Shrunk
<1>7. CASE op[p] \in {"book", "event"}
  BY <1>1, <1>2, <1>6, <1>7 DEF Scheduled, Tested, Clear
<1>8. CASE op[p] = "interview"
  <2>1. d \notin ids[p] => FALSE
    BY <1>1, <1>4, <1>6, <1>8 DEF Booked, Taken, Live, Sound
  <2>2. d \in ids[p] => row'[d] = saw[p][d]
    BY <1>8 DEF Booked
  <2>3. ~Taken(saw[p], w, w.start, w.end, {})
    BY <1>1, <1>2, <1>8 DEF Known, Owned, Releases
  <2> QED BY <1>3, <1>4, <2>1, <2>2, <2>3 DEF Taken, Live
<1> QED BY <1>7, <1>8 DEF Booked

\* The two rows of a pair exclude each other or neither does.
LEMMA BroughtBoth ==
    ASSUME NEW c, NEW d, Brought(c, d)
    PROVE  Brought(d, c)
BY DEF Brought

\* A change is in the way only of a hold of the same event.
LEMMA AlteredApart ==
    ASSUME Known, Scheduled, NEW p \in Requests, Writes(p), NEW c \in Claims, NEW d \in Claims,
           c # d, Sound(c)', Sound(d)', Altered(p, c), Shrunk(d), Excludes(row'[d], row'[c])
    PROVE  Brought(c, d)'
<1>1. PICK w \in WantTypes : w = want[p]
  BY DEF Known, Base, Fits, Typed
<1>2. /\ row[d] \in RowTypes /\ row'[d] \in RowTypes /\ row[c] \in RowTypes
      /\ row'[c].kind \in Kinds /\ c \notin stale' /\ c \notin late' /\ Carries(p) /\ Rows(p)
  BY ShrinksOrLands DEF Known, Owned, Base, Fits
<1>3. /\ row[c].kind = "Web" /\ row'[c].kind = "Web" /\ w.kind = "Web" /\ at[p] = "write"
      /\ c \in ids[p] /\ row'[c].end = w.end /\ op[p] \in {"edit", "extend", "retime"}
  BY <1>1, <1>2 DEF Altered, Rows, Member, Carries, Kinds
<1>4. /\ row[d].room = row'[c].room /\ Overlap(row'[d], row'[c].start, row'[c].end)
      /\ Blocks(row[d].kind, "Web") /\ Sound(d)
  BY <1>3 DEF Excludes, Shrunk
<1>5. /\ w.start \in Int /\ w.end \in Int /\ row[d].start \in Int /\ row[d].end \in Int
      /\ row'[d].end \in Int /\ row'[d].start \in Int
      /\ row[c].start \in Int /\ row[c].end \in Int
  BY <1>2 DEF WantTypes, RowTypes, Times
<1>6. row[c].kind \in Kinds
  BY <1>3 DEF Kinds
<1>7. CASE op[p] = "edit"
  <2>1. ids[p] = {c} /\ row'[c].room = w.room /\ row'[c].start = w.start
    BY <1>1, <1>2, <1>6, <1>7, AlteredAsRead DEF Altered
  <2>2. Overlap(row[d], w.start, w.end)
    BY <1>2, <1>3, <1>4, <1>5, <2>1, ShrunkClears
  <2>3. Clear(w, {c})
    BY <1>1, <1>3, <1>7, <2>1 DEF Scheduled, Tested
  <2> QED BY <1>3, <1>4, <2>1, <2>2, <2>3 DEF Clear
<1>8. CASE op[p] = "retime"
  <2>1. PICK v : v = [w EXCEPT !.room = saw[p][c].room]
    OBVIOUS
  <2>2. v.room = saw[p][c].room /\ v.start = w.start /\ v.end = w.end /\ v.kind = "Web"
    BY <1>3, <2>1 DEF WantTypes
  <2>3. row'[c].room = v.room /\ row'[c].start = w.start
    BY <1>1, <1>2, <1>6, <1>8, <2>2, AlteredAsRead DEF Altered
  <2>4. Overlap(row[d], w.start, w.end)
    BY <1>2, <1>3, <1>4, <1>5, <2>3, ShrunkClears
  <2>5. Clear(v, {c})
    BY <1>1, <1>3, <1>8, <2>1 DEF Scheduled, Tested
  <2> QED BY <1>4, <2>2, <2>3, <2>4, <2>5 DEF Clear
<1>9. CASE op[p] = "extend"
  <2>1. /\ ids[p] = {c} /\ row[c].end = saw[p][c].end /\ Sound(c)
        /\ row[c].room = saw[p][c].room
    BY <1>2, <1>6, <1>9, AlteredAsRead
  <2>2. /\ row'[c].room = row[c].room /\ row'[c].start = row[c].start /\ row[c].room = w.room
        /\ w.start = row[c].end
    BY <1>1, <1>2, <1>3, <1>9, <2>1 DEF Altered, Carries
  <2>3. Overlap(row[d], row[c].start, w.end)
    BY <1>2, <1>3, <1>4, <1>5, <2>2, ShrunkClears
  <2>4. row[d].start < row[d].end
    BY <1>4 DEF Scheduled, Proper
  <2>5. Overlap(row[d], row[c].start, row[c].end) \/ Overlap(row[d], w.start, w.end)
    BY <1>5, <2>2, <2>3, <2>4 DEF Overlap
  <2>6. Clear(w, {c})
    BY <1>1, <1>3, <1>9, <2>1 DEF Scheduled, Tested
  <2>7. ~Overlap(row[d], w.start, w.end)
    BY <1>3, <1>4, <2>2, <2>6 DEF Clear
  <2>8. Excludes(row[d], row[c])
    BY <1>3, <1>4, <2>2, <2>5, <2>7 DEF Excludes
  <2>9. Brought(d, c)
    BY <1>4, <2>1, <2>8 DEF Scheduled, SoundApart
  <2> QED BY <1>9, <2>9 DEF Brought, Shrunk, Altered
<1> QED BY <1>3, <1>7, <1>8, <1>9

\* A retime of two holds in one room.
LEMMA AlteredBoth ==
    ASSUME Known, Scheduled, NEW p \in Requests, Writes(p), NEW c \in Claims, NEW d \in Claims,
           c # d, Sound(c)', Sound(d)', Altered(p, c), Altered(p, d), Excludes(row'[d], row'[c])
    PROVE  Brought(c, d)'
<1>1. /\ row'[c].kind \in Kinds /\ c \notin stale' /\ c \notin late'
      /\ row'[d].kind \in Kinds /\ d \notin stale' /\ d \notin late'
  BY ShrinksOrLands
<1>2. /\ c \in ids[p] /\ d \in ids[p] /\ op[p] \in {"edit", "extend", "retime"}
      /\ row[c].kind \in Kinds
  BY <1>1 DEF Altered
<1>3. op[p] = "retime"
  BY <1>1, <1>2, AlteredAsRead
<1>4. PICK e \in Events : \A b \in ids[p] : Live(row, b) => row[b].event = e
  BY <1>3 DEF Known, Owned, Rows
<1>5. /\ row[c].event = e /\ row[d].event = e /\ c \in Holds(e) /\ d \in Holds(e)
      /\ row'[c].event = e /\ row'[d].event = e
      /\ row'[c].room = row[c].room /\ row'[d].room = row[d].room
      /\ c \in loose' <=> c \in loose
      /\ d \in loose' <=> d \in loose
      /\ Live(row, c) /\ Live(row, d)
  BY <1>2, <1>3, <1>4 DEF Altered, Holds
<1>6. c \in loose \/ d \in loose
  BY <1>5 DEF Known, Gathered, Together, SameStart, Firm, Excludes
<1> QED BY <1>5, <1>6 DEF Brought

\* Only one claim is new.
LEMMA BookedOne ==
    ASSUME Known, NEW p \in Requests, Writes(p), NEW c \in Claims, NEW d \in Claims, c # d,
           Booked(p, c), op[p] # "meeting"
    PROVE  ~Booked(p, d) /\ ~Altered(p, d)
<1>1. op[p] \in {"book", "event", "interview"} /\ Rows(p)
  BY DEF Booked, Known, Owned
<1>2. want[p].kind \in Kinds
  BY DEF Known, Base, Fits, Typed, WantTypes
<1>3. ~Altered(p, d)
  BY <1>1 DEF Altered
<1>4. ASSUME Booked(p, d)
      PROVE  FALSE
  <2>1. row[d].kind = "None" /\ row'[d].kind \in Kinds
    BY <1>2, <1>4 DEF Booked, Fresh
  <2>2. row'[d] # row[d]
    BY <2>1 DEF Kinds
  <2>3. op[p] = "interview" /\ d \in ids[p]
    BY <1>1, <2>2 DEF Booked
  <2> QED BY <1>1, <2>1, <2>3 DEF Rows
<1> QED BY <1>3, <1>4

\* A write that tested its claim under the lock clashes with nothing sound.
LEMMA WritesSoundApart ==
    ASSUME Known, Scheduled, NEW p \in Requests, Writes(p)
    PROVE  SoundApart'
<1> SUFFICES ASSUME NEW c \in Claims, NEW d \in Claims, c # d, Sound(c)', Sound(d)',
                    Excludes(row'[c], row'[d])
             PROVE  Brought(c, d)'
  BY DEF SoundApart
<1>1. /\ Shrunk(c) \/ (Booked(p, c) /\ op[p] # "meeting") \/ Altered(p, c)
      /\ row'[c] \in RowTypes /\ row[c] \in RowTypes
  BY ShrinksOrLands
<1>2. /\ Shrunk(d) \/ (Booked(p, d) /\ op[p] # "meeting") \/ Altered(p, d)
      /\ row'[d] \in RowTypes /\ row[d] \in RowTypes
  BY ShrinksOrLands
<1>3. Excludes(row'[d], row'[c])
  BY <1>1, <1>2, ExcludesBoth
<1>4. CASE Shrunk(c) /\ Shrunk(d)
  <2>1. row'[d].start \in Int /\ row'[d].end \in Int
    BY <1>2 DEF RowTypes, Times
  <2>2. Overlap(row[c], row'[d].start, row'[d].end)
    BY <1>1, <1>4, <2>1, ShrunkClears DEF Excludes
  <2>3. Overlap(row[c], row[d].start, row[d].end)
    BY <1>1, <1>2, <1>4, <2>1, <2>2 DEF Overlap, Shrunk, RowTypes, Times
  <2>4. Excludes(row[c], row[d])
    BY <1>4, <2>3 DEF Excludes, Shrunk
  <2>5. Brought(c, d)
    BY <1>4, <2>4 DEF Shrunk, Scheduled, SoundApart
  <2> QED BY <1>4, <2>5 DEF Brought, Shrunk
<1>5. CASE Booked(p, c) /\ op[p] # "meeting"
  <2>1. Shrunk(d)
    BY <1>2, <1>5, BookedOne
  <2> QED BY <1>3, <1>5, <2>1, BookedApart
<1>6. CASE Booked(p, d) /\ op[p] # "meeting"
  <2>1. Shrunk(c)
    BY <1>1, <1>6, BookedOne
  <2> QED BY <1>6, <2>1, BookedApart
<1>7. CASE Altered(p, c) /\ Altered(p, d)
  BY <1>3, <1>7, AlteredBoth
<1>8. CASE Altered(p, c) /\ Shrunk(d)
  BY <1>3, <1>8, AlteredApart
<1>9. CASE Altered(p, d) /\ Shrunk(c)
  <2>1. Brought(d, c)'
    BY <1>9, AlteredApart
  <2> QED BY <2>1, BroughtBoth DEF Brought
<1> QED BY <1>1, <1>2, <1>4, <1>5, <1>6, <1>7, <1>8, <1>9

\* An interview after a write was one before, or is the one just booked.
LEMMA InterviewFate ==
    ASSUME Known, NEW p \in Requests, Writes(p), NEW c \in Claims, row'[c].kind = "Interview",
           c \notin late'
    PROVE  /\ row[c] \in RowTypes /\ row'[c] \in RowTypes
           /\ \/ /\ row[c].kind = "Interview" /\ c \notin late /\ row'[c].room = row[c].room
                 /\ row'[c].start = row[c].start /\ row'[c].end <= row[c].end
              \/ Booked(p, c) /\ op[p] = "interview"
<1>1. /\ Effect(p, c) /\ Rows(p) /\ Releases(p) /\ Carries(p) /\ row[c] \in RowTypes
  BY Effects DEF Known, Base, Fits, Owned
<1>2. row'[c] \in RowTypes
  BY WritesGood DEF Known, GoodNow, Good
<1>3. row[c].end \in Int /\ row[c].start \in Int /\ clock \in Int
  BY <1>1 DEF RowTypes, Times, Known, Base
<1>4. CASE Plain(c)
  BY <1>1, <1>2, <1>3, <1>4 DEF Plain, Live, Kinds, Kept
<1>5. CASE Given(p, c)
  <2>1. row[c].kind = "Interview" /\ Released(row'[c], row[c]) /\ c \notin late
    BY <1>1, <1>5 DEF Given, Rows, Releases, Kept
  <2> QED BY <1>1, <1>2, <2>1 DEF Released
<1>6. CASE Cut(p, c)
  <2>1. Underway(row[c]) /\ c \notin late
    BY <1>6 DEF Cut
  <2> QED BY <1>1, <1>2, <1>3, <1>6, <2>1 DEF Cut, Underway
<1>7. CASE Booked(p, c)
  <2>1. op[p] = "interview"
    BY <1>1, <1>7 DEF Booked, Carries
  <2> QED BY <1>1, <1>2, <1>7, <2>1
<1>8. ~Tied(p, c) /\ ~Altered(p, c)
  BY <1>1 DEF Tied, Altered, Rows, Member
<1>9. ~Dropped(p, c) /\ ~Off(p, c) /\ ~Replaced(p, c)
  BY Values DEF Dropped, Off, Replaced
<1> QED BY <1>1, <1>4, <1>5, <1>6, <1>7, <1>8, <1>9 DEF Effect

\* A new interview is in no interview's way: one that its snapshot showed was
\* tested, one that changed since fails the transaction.
LEMMA InterviewBooked ==
    ASSUME Known, NEW p \in Requests, Writes(p), NEW c \in Claims, NEW d \in Claims, c # d,
           Booked(p, c), op[p] = "interview", row[d].kind = "Interview",
           row'[d].kind = "Interview", row'[c].kind = "Interview"
    PROVE  ~Excludes(row'[d], row'[c])
<1> SUFFICES ASSUME Excludes(row'[d], row'[c]) PROVE FALSE
  OBVIOUS
<1>1. PICK w : w = want[p]
  OBVIOUS
<1>2. /\ row'[c].room = w.room /\ row'[c].start = w.start /\ row'[c].end = w.end
      /\ at[p] = "write" /\ w.kind = "Interview" /\ ~SerializationFails(p)
      /\ \A b \in ids[p] \ {c} : row'[b] = saw[p][b]
      /\ \A b \in Claims \ (ids[p] \cup {c}) : row'[b] = row[b]
  BY <1>1 DEF Booked
<1>3. /\ row'[d].room = w.room /\ Overlap(row'[d], w.start, w.end)
      /\ Blocks(row'[d].kind, w.kind)
  BY <1>2 DEF Excludes
<1>4. ~Taken(saw[p], w, w.start, w.end, {})
  BY <1>1, <1>2 DEF Known, Owned, Releases
<1>5. CASE row'[d] = saw[p][d]
  BY <1>3, <1>4, <1>5 DEF Taken, Live, Kinds
<1>6. CASE row'[d] = row[d] /\ d \notin ids[p] /\ row[d] # saw[p][d]
  BY <1>1, <1>2, <1>3, <1>6 DEF SerializationFails, Live, Kinds
<1> QED BY <1>2, <1>5, <1>6

\* Claims that exclude each other still do where each keeps its place and ends no sooner.
LEMMA ExcludesNarrower ==
    ASSUME NEW a \in RowTypes, NEW b \in RowTypes, NEW a0 \in RowTypes, NEW b0 \in RowTypes,
           a0.kind = a.kind, a0.room = a.room, a0.start = a.start, a.end <= a0.end,
           b0.kind = b.kind, b0.room = b.room, b0.start = b.start, b.end <= b0.end,
           Excludes(a, b)
    PROVE  Excludes(a0, b0)
<1>1. a.end \in Int /\ b.end \in Int /\ a0.end \in Int /\ b0.end \in Int
      /\ a.start \in Int /\ b.start \in Int
  BY DEF RowTypes, Times
<1> QED BY <1>1 DEF Excludes, Overlap, Blocks

\* Two interviews do not clash: the serializable transaction of the later one
\* fails when a row it read has changed.
LEMMA WritesInterviewsApart ==
    ASSUME Known, Scheduled, NEW p \in Requests, Writes(p)
    PROVE  InterviewsApart'
<1> SUFFICES ASSUME NEW c \in Claims, NEW d \in Claims, c # d, row'[c].kind = "Interview",
                    row'[d].kind = "Interview", c \notin late', d \notin late',
                    Excludes(row'[c], row'[d])
             PROVE  FALSE
  BY DEF InterviewsApart
<1> DEFINE Old(b) == /\ row[b].kind = "Interview" /\ b \notin late /\ row'[b].room = row[b].room
                     /\ row'[b].start = row[b].start /\ row'[b].end <= row[b].end
<1>1. /\ row[c] \in RowTypes /\ row'[c] \in RowTypes
      /\ Old(c) \/ (Booked(p, c) /\ op[p] = "interview")
  BY InterviewFate
<1>2. /\ row[d] \in RowTypes /\ row'[d] \in RowTypes
      /\ Old(d) \/ (Booked(p, d) /\ op[p] = "interview")
  BY InterviewFate
<1>3. Excludes(row'[d], row'[c])
  BY <1>1, <1>2, ExcludesBoth
<1>4. CASE Old(c) /\ Old(d)
  <2>1. /\ row[c].kind = row'[c].kind /\ row[d].kind = row'[d].kind
        /\ row[c].room = row'[c].room /\ row[d].room = row'[d].room
        /\ row[c].start = row'[c].start /\ row[d].start = row'[d].start
        /\ row'[c].end <= row[c].end /\ row'[d].end <= row[d].end
    BY <1>4
  <2>2. Excludes(row[c], row[d])
    BY <1>1, <1>2, <2>1, ExcludesNarrower
  <2> QED BY <1>4, <2>2 DEF Scheduled, InterviewsApart
<1>5. CASE Booked(p, c) /\ op[p] = "interview"
  <2>1. Old(d)
    BY <1>2, <1>5, BookedOne
  <2> QED BY <1>3, <1>5, <2>1, InterviewBooked
<1>6. CASE Booked(p, d) /\ op[p] = "interview"
  <2>1. Old(c)
    BY <1>1, <1>6, BookedOne
  <2> QED BY <1>6, <2>1, InterviewBooked
<1> QED BY <1>1, <1>2, <1>4, <1>5, <1>6

LEMMA WritesScheduled ==
    ASSUME Known, Scheduled, NEW p \in Requests, Writes(p)
    PROVE  Scheduled'
<1>1. Tested(p)'
  <2>1. at'[p] # "write" \/ op'[p] \notin {"book", "event", "edit", "extend"}
    BY AfterWrite DEF Known
  <2>2. op'[p] # "retime"
    BY AfterWrite DEF Known
  <2> QED BY <2>1, <2>2 DEF Tested
<1>2. \A q \in Requests : Tested(q)'
  BY <1>1, StandingTested DEF Scheduled
<1> QED BY <1>2, WritesProper, WritesSoundApart, WritesInterviewsApart DEF Scheduled

\* While nobody writes, what was tested stays so.
LEMMA QuietClear ==
    ASSUME row' = row, stale' = stale, late' = late, NEW w, NEW X, Clear(w, X)
    PROVE  Clear(w, X)'
BY DEF Clear, Sound

\* A test of the schedule clears what it tests.
LEMMA TestClears ==
    ASSUME NEW w, NEW X, ~Taken(row, w, w.start, w.end, X)
    PROVE  Clear(w, X)
BY DEF Taken, Clear, Sound, Live

\* What a request has tested stays clear while nothing is written.
LEMMA QuietStanding ==
    ASSUME Base, NEW p \in Requests, Own(p), NEW q \in Requests \ {p}, row' = row, stale' = stale,
           late' = late, Tested(q)
    PROVE  Tested(q)'
BY DEF Own, Stands, Tested, Clear, Sound

LEMMA BookNextRoomTested ==
    ASSUME Base, NEW p \in Requests, BookNextRoom(p)
    PROVE  Tested(p)'
<1>1. PICK w : w = [want[p] EXCEPT !.room = Head(todo[p])]
  OBVIOUS
<1>2. op[p] = "event"
  BY DEF BookNextRoom, Base, Fits, Shape
<1>3. /\ op'[p] = "event"
      /\ \/ at'[p] = "release"
         \/ at'[p] = "write" /\ want'[p] = w /\ ~Taken(row, w, w.start, w.end, {})
  BY <1>1, <1>2, BookNextRoomOwn DEF Base
<1>4. row' = row /\ stale' = stale /\ late' = late
  BY DEF BookNextRoom, history
<1>5. ~Taken(row, w, w.start, w.end, {}) => Clear(w, {})'
  BY <1>4, TestClears, QuietClear
<1> QED BY <1>3, <1>5 DEF Tested

LEMMA LockAndTestTested ==
    ASSUME Base, NEW p \in Requests, NEW w, LockAndTest(p, w), ~Finish(p)
    PROVE  Tested(p)'
<1>1. /\ op[p] \in {"edit", "extend"} /\ op'[p] = op[p] /\ ids'[p] = ids[p] /\ want'[p] = w
      /\ \A c \in ids[p] : ~Taken(row, w, w.start, w.end, {c})
  BY LockAndTestOwn DEF Base, LockAndTest
<1>2. PICK c \in Claims : ids[p] = {c}
  BY <1>1 DEF Base, Fits, Carries
<1>3. row' = row /\ stale' = stale /\ late' = late
  BY DEF LockAndTest, history
<1>4. ~Taken(row, w, w.start, w.end, {c})
  BY <1>1, <1>2
<1>5. Clear(w, {c})'
  BY <1>3, <1>4, TestClears, QuietClear
<1>6. want'[p] = w /\ ids'[p] = {c} /\ op'[p] \in {"edit", "extend"}
  BY <1>1, <1>2
<1> QED BY <1>5, <1>6 DEF Tested

LEMMA RetimeNextTested ==
    ASSUME Base, NEW p \in Requests, RetimeNext(p), ~Finish(p), Tested(p)
    PROVE  Tested(p)'
<1>1. PICK s, d, v : s = todo[p] /\ d = Head(s) /\ v = [want[p] EXCEPT !.room = saw[p][d].room]
  OBVIOUS
<1>2. op[p] = "retime" /\ at[p] = "lock" /\ s \in Seq(ids[p]) /\ s # <<>>
  BY <1>1 DEF RetimeNext, Base, Fits, Waits
<1>3. /\ op'[p] = "retime" /\ ids'[p] = ids[p] /\ saw'[p] = saw[p] /\ want'[p] = want[p]
      /\ todo'[p] = Tail(s) /\ at'[p] = IF Len(s) = 1 THEN "write" ELSE "lock"
      /\ ~Taken(row, v, v.start, v.end, {d})
  BY <1>1, <1>2, RetimeNextOwn DEF Base
<1>4. row' = row /\ stale' = stale /\ late' = late
  BY DEF RetimeNext, history
<1>5. \A i \in 1..Len(s) :
        s[i] = d \/ (Len(s) # 1 /\ \E j \in 1..Len(Tail(s)) : Tail(s)[j] = s[i])
  BY <1>1, <1>2, Rest
<1>6. ASSUME NEW c \in ids[p],
             ~(Len(s) # 1 /\ \E i \in 1..Len(Tail(s)) : Tail(s)[i] = c)
      PROVE  Clear([want[p] EXCEPT !.room = saw[p][c].room], {c})'
  <2>1. PICK w : w = [want[p] EXCEPT !.room = saw[p][c].room]
    OBVIOUS
  <2>2. CASE c = d
    <3>1. Clear(w, {c})'
      BY <1>1, <1>3, <1>4, <2>1, <2>2, TestClears, QuietClear
    <3> QED BY <1>3, <2>1, <3>1
  <2>3. CASE c # d
    <3>1. ~\E i \in 1..Len(s) : s[i] = c
      BY <1>5, <1>6, <2>3, Zenon
    <3>2. Clear(w, {c})
      BY <1>1, <1>2, <2>1, <3>1 DEF Tested
    <3>3. Clear(w, {c})'
      BY <1>4, <3>2, QuietClear
    <3> QED BY <1>3, <2>1, <3>3
  <2> QED BY <2>2, <2>3
<1>7. \A c \in ids'[p] :
        \/ at'[p] = "lock" /\ \E i \in 1..Len(todo'[p]) : todo'[p][i] = c
        \/ Clear([want[p] EXCEPT !.room = saw[p][c].room], {c})'
  BY <1>3, <1>6
<1> QED BY <1>3, <1>7 DEF Tested

LEMMA TriesTested ==
    ASSUME Base, NEW p \in Requests, Tries(p), Tested(p)
    PROVE  Tested(p)'
<1>1. CASE Finish(p)
  BY <1>1, FinishOwn DEF Base, Tested
<1>2. CASE GoogleFails(p)
  BY <1>2, GoogleFailsOwn DEF Base, GoogleFails, Tested, Fits, Shape
<1>3. CASE LockFirst(p)
  BY <1>3, LockFirstOwn DEF Base, LockFirst, Tested
<1>4. CASE InterviewRoom(p) /\ ~Finish(p)
  BY <1>4, InterviewRoomOwn DEF Base, InterviewRoom, Tested
<1> QED BY <1>1, <1>2, <1>3, <1>4, BookNextRoomTested, LockAndTestTested, RetimeNextTested
        DEF Tries, DeadlockVictim, CancelFails

LEMMA AsksTested ==
    ASSUME Base, NEW p \in Requests, Asks(p)
    PROVE  Tested(p)'
<1>1. row' = row /\ stale' = stale /\ late' = late
  BY NothingWritten
<1>2. ASSUME NEW r \in Rooms, NEW s \in Slots["book"], NEW k \in {"Web", "InterviewHold"},
             Book(p, r, s, k)
      PROVE  Tested(p)'
  <2>1. PICK w : w = Ask(r, s, k)
    OBVIOUS
  <2>2. w.start = s[1] /\ w.end = s[2]
    BY <2>1, Slot, Asking DEF Kinds
  <2>3. op'[p] = "book" /\ want'[p] = w
    BY <1>2, <2>1, StartOwn DEF Book, Base
  <2>4. ~Taken(row, w, w.start, w.end, {})
    BY <1>2, <2>1, <2>2 DEF Book
  <2>5. Clear(w, {})'
    BY <1>1, <2>4, TestClears, QuietClear
  <2> QED BY <2>3, <2>5 DEF Tested
<1>3. ASSUME NEW e \in Events, NEW s, NEW o \in Orders(Holds(e)), Retime(p, e, s, o)
      PROVE  Tested(p)'
  <2>1. PICK S : S = Holds(e)
    OBVIOUS
  <2>2. S \subseteq Claims /\ S # {} /\ o \in Orders(S)
    BY <1>3, <2>1 DEF Retime, Holds
  <2>3. \A c \in S : \E i \in 1..Len(o) : o[i] = c
    BY <2>2, Ordering
  <2>4. op'[p] = "retime" /\ at'[p] = "lock" /\ ids'[p] = S /\ todo'[p] = o
    BY <1>3, <2>1, StartOwn DEF Retime, Base
  <2> QED BY <2>3, <2>4 DEF Tested
<1>4. ASSUME NEW o, NEW pc, NEW w, NEW S, NEW t, NEW rooms, pc # "write", o # "retime",
             Start(p, o, pc, w, S, t, rooms), lock' = lock
      PROVE  Tested(p)'
  BY <1>4, StartOwn DEF Base, Tested
<1>5. CASE \E r \in Rooms :
        \/ \E c \in Claims : Edit(p, c, r)
        \/ \E s \in Slots["meeting"], S \in NoneOrOne : Meeting(p, r, s, S)
  BY <1>4, <1>5 DEF Edit, Meeting
<1>6. CASE \E rooms \in Picks :
        \/ \E s \in Slots["event"] : BookForEvent(p, rooms, s)
        \/ \E s \in Slots["interview"], S \in NoneOrOne : Interview(p, rooms, s, S)
  BY <1>4, <1>6 DEF BookForEvent, Interview
<1>7. CASE \/ \E c \in Claims : Extend(p, c)
           \/ \E S \in Cancelable : Cancel(p, S)
  BY <1>4, <1>7 DEF Extend, Cancel
<1> QED BY <1>2, <1>3, <1>5, <1>6, <1>7 DEF Asks

KnownInv == Known /\ Scheduled

\* The whole inductive invariant holds.
LEMMA KnownHolds == Spec => []KnownInv
<1>1. Init => Scheduled
  BY DEF Init, Scheduled, Proper, SoundApart, InterviewsApart, Tested, Sound, NoRow, Kinds
<1>2. Known /\ Scheduled /\ [Next]_vars => Scheduled'
  <2> SUFFICES ASSUME Known, Scheduled, [Next]_vars PROVE Scheduled'
    OBVIOUS
  <2>1. ASSUME row' = row, stale' = stale, loose' = loose, late' = late
        PROVE  Proper' /\ SoundApart' /\ InterviewsApart'
    BY <2>1 DEF Scheduled, Proper, SoundApart, InterviewsApart, Sound, Brought
  <2>2. CASE UNCHANGED vars \/ Tick
    <3>1. \A q \in Requests : Tested(q)'
      BY <2>2 DEF vars, request, history, Tick, Scheduled, Tested, Clear, Sound
    <3> QED BY <2>1, <2>2, <3>1 DEF vars, history, Tick, Scheduled
  <2>3. ASSUME NEW p \in Requests, Asks(p) \/ Tries(p)
        PROVE  Scheduled'
    <3>1. row' = row /\ stale' = stale /\ loose' = loose /\ late' = late
      BY <2>3, NothingWritten
    <3>2. Own(p)
      BY <2>3, AsksOwn, TriesOwn DEF Known, Base
    <3>3. Tested(p)'
      BY <2>3, AsksTested, TriesTested DEF Known, Scheduled
    <3>4. \A q \in Requests \ {p} : Tested(q)'
      BY <3>1, <3>2, QuietStanding DEF Known, Scheduled
    <3> QED BY <2>1, <3>1, <3>3, <3>4 DEF Scheduled
  <2>4. ASSUME NEW p \in Requests, Writes(p)
        PROVE  Scheduled'
    BY <2>4, WritesScheduled
  <2> QED BY <2>2, <2>3, <2>4, Steps DEF Step
<1>3. LockedInv /\ GatheredInv => Known
  BY DEF LockedInv, GatheredInv, OwnedInv, Known
<1> QED BY <1>1, <1>2, <1>3, LocksHold, GatheredHolds, PTL DEF Spec, KnownInv

\* Two bookings clash only where one was written on what its writer had read
\* before the lock, where a late cancellation gave time back, or where a
\* retime met two holds an edit had brought into one room; two interviews by a
\* late cancellation alone (rooms.server.ts's lock, test and write).
THEOREM NoUnexplainedClash == Spec => []BookingsDisjoint
<1>1. KnownInv => BookingsDisjoint
  <2> SUFFICES ASSUME Known, Scheduled, NEW c \in Claims, NEW d \in Claims, Clash(c, d),
                      {row[c].kind, row[d].kind} \subseteq Kinds, {c, d} \cap late = {}
               PROVE  \/ {c, d} \cap stale # {} /\ {row[c].kind, row[d].kind} # {"Interview"}
                      \/ {c, d} \cap loose # {} /\ row[c].event = row[d].event /\ row[c].event \in Events
    BY DEF KnownInv, BookingsDisjoint
  <2>1. c # d /\ Excludes(row[c], row[d])
    BY DEF Clash, Excludes
  <2>2. {row[c].kind, row[d].kind} # {"Interview"}
    BY <2>1 DEF Scheduled, InterviewsApart
  <2>3. CASE {c, d} \cap stale # {}
    BY <2>2, <2>3
  <2>4. CASE {c, d} \cap stale = {}
    BY <2>1, <2>4 DEF Scheduled, SoundApart, Sound, Brought
  <2> QED BY <2>3, <2>4
<1> QED BY <1>1, KnownHolds, PTL
=============================================================================
