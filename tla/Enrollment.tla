------------------------------ MODULE Enrollment ------------------------------
(***************************************************************************)
(* Seats and waitlist of one education offering                            *)
(* (app/education/lib/apply.server.ts and decisions.server.ts).            *)
(*                                                                         *)
(* Every write of an application is a transaction that first locks the     *)
(* offering's row, so a transaction is one step here.  What it works from  *)
(* is read before the lock: the application's status and rank, and the     *)
(* offering's capacity.  The offering and the application, read a few      *)
(* queries apart by a submit, are read in one step.                        *)
(*                                                                         *)
(* Registration is open throughout: a closed window only refuses a submit. *)
(***************************************************************************)
EXTENDS Integers, Sequences, FiniteSets, SequencesExt

CONSTANTS Applicants,
          Requests,     \* requests that are served at the same time
          Capacities,
          MaxAsked,     \* bound: requests made
          MaxChanges    \* bound: changes of the offering and of the order

ASSUME EnrollmentAssumption ==
    /\ IsFiniteSet(Applicants)
    /\ Capacities \subseteq Nat \ {0}
    /\ MaxAsked \in Nat /\ MaxChanges \in Nat

VARIABLES row,       \* row[a]: the EducationApplication of a
          queue,     \* the applications by submittedAt
          capacity, requiresReview,  \* the EducationOffering
          req,       \* req[p]: the request p and what it read
          asked, changes,  \* requests and changes made so far
          told,      \* told[a]: the outcomes a was mailed
          raced,     \* history: a transaction wrote a row that had changed
                     \* since the request read it
          untold     \* history: whose mail was lost with its request

vars == <<row, queue, capacity, requiresReview, req, asked, changes, told, raced, untold>>

DECIDABLE == {"Approved", "Rejected", "Waitlisted", "Withdrawn"}
Waiting == {"Submitted", "Waitlisted"}
Statuses == DECIDABLE \cup {"None", "Submitted"}
Row(s, r) == [status |-> s, rank |-> r]
NoRow == Row("None", 0)

Idle == [at |-> "idle", who |-> <<>>, to |-> "None", was |-> NoRow,
         cap |-> 0, review |-> FALSE, tell |-> <<>>]

With(rows, s) == {a \in Applicants : rows[a].status = s}
approvedCount(rows) == Cardinality(With(rows, "Approved"))

\* Ranks are 1, 2, ... over the waitlist of rows, each once.
Dense(rows) ==
    LET W == With(rows, "Waitlisted")
    IN {rows[a].rank : a \in W} = 1..Cardinality(W)

(***************************************************************************)
(* Any offering at rest: nobody works from what was read before.           *)
(***************************************************************************)
Init ==
    /\ row \in [Applicants -> {NoRow} \cup [status : Statuses \ {"None"},
                                            rank : 0..Cardinality(Applicants)]]
    /\ \A a \in Applicants : row[a].rank # 0 <=> row[a].status = "Waitlisted"
    /\ Dense(row)
    /\ queue \in SetToSeqs({a \in Applicants : row[a] # NoRow})
    /\ \A i, j \in DOMAIN queue :
         i < j /\ row[queue[i]].status \in Waiting => row[queue[j]].status \in Waiting
    /\ capacity \in Capacities /\ requiresReview \in BOOLEAN
    /\ approvedCount(row) <= capacity
    /\ req = [p \in Requests |-> Idle]
    /\ asked = 0 /\ changes = 0
    /\ told = [a \in Applicants |-> {row[a].status}]
    /\ raced = FALSE
    /\ untold = {}

-----------------------------------------------------------------------------
(***************************************************************************)
(* What a transaction reads and computes under the lock.                   *)
(***************************************************************************)
nextWaitlistRank(rows) ==
    1 + CHOOSE r \in {rows[a].rank : a \in Applicants} :
          \A a \in Applicants : rows[a].rank <= r

\* Mutant: one rank too far, so the next in line stays where it was.
DecrementPast(rows, rank) ==
    [a \in Applicants |->
        IF rows[a].status = "Waitlisted" /\ rows[a].rank > rank + 1
        THEN [rows[a] EXCEPT !.rank = @ - 1] ELSE rows[a]]

decrementRanksAbove(rows, rank) ==
    [a \in Applicants |->
        IF rows[a].status = "Waitlisted" /\ rows[a].rank > rank
        THEN [rows[a] EXCEPT !.rank = @ - 1] ELSE rows[a]]

Position(a) == CHOOSE i \in DOMAIN queue : queue[i] = a

\* Mutant: the ranks are sorted the other way.
LastUp(rows, W) ==
    CHOOSE a \in W : \A b \in W \ {a} :
      \/ rows[a].rank > rows[b].rank
      \/ rows[a].rank = rows[b].rank /\ Position(a) < Position(b)

\* Who is next among the waitlisted W: by rank, then by submittedAt.
NextUp(rows, W) ==
    CHOOSE a \in W : \A b \in W \ {a} :
      \/ rows[a].rank < rows[b].rank
      \/ rows[a].rank = rows[b].rank /\ Position(a) < Position(b)

\* The one promoteFromWaitlist takes, as a set: nobody or one.
Promoted(rows, cap, excluded) ==
    LET W == With(rows, "Waitlisted") \ {excluded}
    IN IF approvedCount(rows) >= cap \/ W = {} THEN {} ELSE {NextUp(rows, W)}

\* Mutant: the ranks behind the promoted one are not compacted.
PromoteLeavingGap(rows, cap, excluded) ==
    [a \in Applicants |-> IF a \in Promoted(rows, cap, excluded)
                          THEN Row("Approved", 0) ELSE rows[a]]

promoteFromWaitlist(rows, cap, excluded) ==
    LET next == Promoted(rows, cap, excluded)
    IN IF next = {} THEN rows
       ELSE LET a == CHOOSE x \in next : TRUE
            IN decrementRanksAbove([rows EXCEPT ![a] = Row("Approved", 0)], rows[a].rank)

\* Mutant: only a waitlisting writes the rank.
DecidedKeepingRank(a, to, was) ==
    LET rank == IF to = "Waitlisted" THEN nextWaitlistRank(row) ELSE row[a].rank
        rows == [row EXCEPT ![a] = Row(to, rank)]
    IN IF was.status = "Waitlisted" THEN decrementRanksAbove(rows, was.rank) ELSE rows

\* The rows with the decision written, before anybody is promoted.
Decided(a, to, was) ==
    LET rank == IF to = "Waitlisted" THEN nextWaitlistRank(row) ELSE 0
        rows == [row EXCEPT ![a] = Row(to, rank)]
    IN IF was.status = "Waitlisted" THEN decrementRanksAbove(rows, was.rank) ELSE rows

Ask(p, r) ==
    /\ req[p].at = "idle" /\ asked < MaxAsked
    /\ asked' = asked + 1
    /\ req' = [req EXCEPT ![p] = r]
    /\ UNCHANGED <<row, queue, capacity, requiresReview, changes, told, raced, untold>>

\* Mutant: the promoted applicant is not told.
TellDecided(a, next) == <<[who |-> a, promoted |-> FALSE]>>

\* Who is to be told after the commit.
Tells(a, next) ==
    <<[who |-> a, promoted |-> FALSE]>>
      \o SetToSeq({[who |-> n, promoted |-> TRUE] : n \in next})

Becomes(p, r) == req' = [req EXCEPT ![p] = r]

-----------------------------------------------------------------------------
(***************************************************************************)
(* Applying.                                                               *)
(***************************************************************************)
Submit(p, a) ==
    /\ row[a].status \in {"None", "Submitted", "Withdrawn"}
    /\ Ask(p, [Idle EXCEPT !.at = "submit", !.who = <<a>>, !.was = row[a],
                           !.cap = capacity, !.review = requiresReview])

\* Review-required: Submitted.  RSVP: a seat if there is one, else the waitlist.
Outcome(r) ==
    IF r.review \/ r.was.status = "Submitted" THEN Row("Submitted", 0)
    ELSE IF approvedCount(row) < r.cap THEN Row("Approved", 0)
    ELSE Row("Waitlisted", nextWaitlistRank(row))

Submitted(p) ==
    LET r == req[p]
        a == Head(r.who)
        outcome == Outcome(r)
    IN /\ r.at = "submit"
       /\ r.was = NoRow => row[a] = NoRow
       /\ row' = [row EXCEPT ![a] = outcome]
       /\ queue' = Append(IF row[a] = NoRow THEN queue ELSE RemoveAt(queue, Position(a)), a)
       /\ raced' = (raced \/ row[a] # r.was)
       /\ IF outcome.status = "Submitted" THEN Becomes(p, Idle)
          ELSE Becomes(p, [Idle EXCEPT !.at = "tell", !.tell = Tells(a, {})])
       /\ UNCHANGED <<capacity, requiresReview, asked, changes, told, untold>>

\* A second row for the applicant breaks the unique constraint.
SubmitTwice(p) ==
    /\ req[p].at = "submit" /\ req[p].was = NoRow /\ row[Head(req[p].who)] # NoRow
    /\ Becomes(p, Idle)
    /\ UNCHANGED <<row, queue, capacity, requiresReview, asked, changes, told, raced, untold>>

-----------------------------------------------------------------------------
(***************************************************************************)
(* Deciding.                                                               *)
(***************************************************************************)
DecideOne(p, a, to) ==
    /\ row[a].status \notin {"None", to}
    /\ Ask(p, [Idle EXCEPT !.at = "decide", !.who = <<a>>, !.to = to, !.was = row[a],
                           !.cap = capacity])

Withdraw(p, a) ==
    /\ row[a].status \notin {"None", "Withdrawn", "Rejected"}
    /\ Ask(p, [Idle EXCEPT !.at = "read", !.who = <<a>>, !.to = "Withdrawn"])

approveAllPending(p) ==
    \E pending \in SetToSeqs(With(row, "Submitted")) \ {<<>>} :
       /\ \A i, j \in DOMAIN pending : i < j => Position(pending[i]) < Position(pending[j])
       /\ Ask(p, [Idle EXCEPT !.at = "read", !.who = pending, !.to = "Approved"])

\* The request r with its first applicant done.
Following(r) == IF Len(r.who) <= 1 THEN Idle
            ELSE [Idle EXCEPT !.at = "read", !.who = Tail(r.who), !.to = r.to]

ReadApplication(p) ==
    LET r == req[p]
        a == Head(r.who)
    IN /\ r.at = "read"
       /\ Becomes(p, IF row[a].status = r.to THEN Following(r)
                     ELSE [r EXCEPT !.at = "decide", !.was = row[a], !.cap = capacity])
       /\ UNCHANGED <<row, queue, capacity, requiresReview, asked, changes, told, raced, untold>>

\* Mutant: off by one.
FullPast(r) == r.to = "Approved" /\ approvedCount(row) > r.cap

Full(r) == r.to = "Approved" /\ approvedCount(row) >= r.cap

\* At capacity: the decision fails, and approveAllPending stops.
RefuseSeat(p) ==
    /\ req[p].at = "decide" /\ Full(req[p])
    /\ Becomes(p, Idle)
    /\ UNCHANGED <<row, queue, capacity, requiresReview, asked, changes, told, raced, untold>>

decideApplication(p) ==
    LET r == req[p]
        a == Head(r.who)
        rows == Decided(a, r.to, r.was)
        frees == r.was.status = "Approved" /\ r.to # "Approved"
        next == IF frees THEN Promoted(rows, r.cap, a) ELSE {}
    IN /\ r.at = "decide" /\ ~Full(r)
       /\ row' = IF frees THEN promoteFromWaitlist(rows, r.cap, a) ELSE rows
       /\ raced' = (raced \/ row[a] # r.was)
       /\ Becomes(p, [r EXCEPT !.at = "tell", !.tell = Tells(a, next)])
       /\ UNCHANGED <<queue, capacity, requiresReview, asked, changes, told, untold>>

-----------------------------------------------------------------------------
(***************************************************************************)
(* After the commit: notifyApplicationStatus reads the status again, and   *)
(* mails it; a promotion is mailed as one whatever the status is by now.   *)
(***************************************************************************)
Tell(p) ==
    LET r == req[p]
        t == Head(r.tell)
        news == IF t.promoted THEN "Approved" ELSE row[t.who].status
    IN /\ r.at = "tell"
       /\ told' = [told EXCEPT ![t.who] = @ \cup (IF row[t.who].status = "Submitted"
                                                  THEN {} ELSE {news})]
       /\ Becomes(p, IF Len(r.tell) > 1 THEN [r EXCEPT !.tell = Tail(@)] ELSE Following(r))
       /\ UNCHANGED <<row, queue, capacity, requiresReview, asked, changes, raced, untold>>

\* The machine dies and the mails it had not queued are lost.  A request that
\* dies before its commit has changed nothing.
Die(p) ==
    /\ req[p].at = "tell"
    /\ untold' = untold \cup {t.who : t \in ToSet(req[p].tell)}
    /\ Becomes(p, Idle)
    /\ UNCHANGED <<row, queue, capacity, requiresReview, asked, changes, told, raced>>

-----------------------------------------------------------------------------
(***************************************************************************)
(* The manager's other operations.                                         *)
(***************************************************************************)
Neighbours(a, direction) ==
    LET W == With(row, "Waitlisted")
        beyond == {b \in W : IF direction = "up" THEN row[b].rank < row[a].rank
                                                 ELSE row[b].rank > row[a].rank}
    IN {b \in beyond : \A c \in beyond :
          IF direction = "up" THEN row[c].rank <= row[b].rank ELSE row[c].rank >= row[b].rank}

\* The status is tested before the lock too; the test under it decides.
moveWaitlistEntry(a, direction) ==
    /\ changes < MaxChanges /\ changes' = changes + 1
    /\ row[a].status = "Waitlisted"
    /\ \E b \in Neighbours(a, direction) :
         row' = [row EXCEPT ![a].rank = row[b].rank, ![b].rank = row[a].rank]
    /\ UNCHANGED <<queue, capacity, requiresReview, req, asked, told, raced, untold>>

UpdateOffering(c, review) ==
    /\ changes < MaxChanges /\ changes' = changes + 1
    /\ <<c, review>> # <<capacity, requiresReview>>
    /\ capacity' = c /\ requiresReview' = review
    /\ UNCHANGED <<row, queue, req, asked, told, raced, untold>>

-----------------------------------------------------------------------------
Serve(p) ==
    \/ Submitted(p) \/ SubmitTwice(p)
    \/ ReadApplication(p) \/ RefuseSeat(p) \/ decideApplication(p)
    \/ Tell(p) \/ Die(p)

Next ==
    \/ \E p \in Requests :
         \/ \E a \in Applicants :
              \/ Submit(p, a) \/ Withdraw(p, a)
              \/ \E to \in DECIDABLE : DecideOne(p, a, to)
         \/ approveAllPending(p)
         \/ Serve(p)
    \/ \E a \in Applicants, d \in {"up", "down"} : moveWaitlistEntry(a, d)
    \/ \E c \in Capacities, v \in BOOLEAN : UpdateOffering(c, v)

Spec == Init /\ [][Next]_vars

-----------------------------------------------------------------------------
(***************************************************************************)
(* Properties.                                                             *)
(***************************************************************************)
Reqs == [at : {"idle", "submit", "read", "decide", "tell"}, who : Seq(Applicants),
         to : Statuses, was : [status : Statuses, rank : Nat],
         cap : Capacities \cup {0}, review : BOOLEAN,
         tell : Seq([who : Applicants, promoted : BOOLEAN])]

\* An application has a rank exactly while it is waitlisted, whatever the
\* transactions that moved ranks had read; requests are where the code leaves them.
TypeOK ==
    /\ row \in [Applicants -> [status : Statuses, rank : Nat]]
    /\ \A a \in Applicants : row[a].rank # 0 <=> row[a].status = "Waitlisted"
    /\ IsInjective(queue) /\ ToSet(queue) = {a \in Applicants : row[a] # NoRow}
    /\ capacity \in Capacities /\ requiresReview \in BOOLEAN
    /\ req \in [Requests -> Reqs]
    /\ \A p \in Requests : /\ req[p].at \in {"submit", "read", "decide"} => req[p].who # <<>>
                           /\ req[p].at = "tell" => req[p].tell # <<>>
    /\ asked \in 0..MaxAsked /\ changes \in 0..MaxChanges
    /\ told \in [Applicants -> SUBSET Statuses]
    /\ raced \in BOOLEAN /\ untold \subseteq Applicants

Caps == ({capacity} \cup {req[p].cap : p \in Requests}) \ {0}

\* apply.server.ts:14, "Row-lock the offering so concurrent submits can't both
\* take the last seat", and the "atomic capacity guard" of approveAllPending:
\* whoever races whom, seats are given only within the capacity the offering
\* has, or had when a request now served read it.
SeatsWithinCapacity ==
    [][approvedCount(row') > approvedCount(row)
         => \E c \in Caps : approvedCount(row') <= c]_vars

\* The waitlist is numbered 1, 2, ... without gaps or ties, through concurrent
\* submits, decisions, promotions and moves, as long as no transaction wrote an
\* application that had changed since its request read it.
RanksDense == ~raced => Dense(row)

\* a, who loses a seat, is followed by the first of those waiting, unless nobody
\* is waiting or the offering is still full.
Refilled(a) ==
    LET waiting == With(row, "Waitlisted") \ {a}
        seated == With(row', "Approved") \cap waiting
    IN \/ waiting = {}
       \/ seated = {} /\ \E c \in Caps : approvedCount(row') >= c
       \/ \E x \in waiting : /\ seated = {x}
                             /\ \A w \in waiting : row[x].rank <= row[w].rank

Unseated == With(row, "Approved") \ With(row', "Approved")

\* decisions.server.ts:88, "Any move off an approved seat frees it - pull the
\* front of the waitlist in, atomically": the next in line follows in the step
\* that frees the seat, while no transaction wrote a row that had changed since
\* its request read it.
SeatRefilledUnlessRaced == [][raced' \/ \A a \in Unseated : Refilled(a)]_vars

\* First in, first out: only a manager's move changes the order of two people
\* who stay on the waitlist.
QueueOrderKept ==
    [][\/ raced'
       \/ \E a \in Applicants, d \in {"up", "down"} : moveWaitlistEntry(a, d)
       \/ \A a, b \in With(row, "Waitlisted") \cap With(row', "Waitlisted") :
            row[a].rank < row[b].rank => row'[a].rank < row'[b].rank]_vars

\* Once nothing is in flight, everybody was mailed the outcome they have now,
\* by whichever of several racing requests, unless their mail was lost.
ToldAtRest ==
    (\A p \in Requests : req[p].at = "idle")
      => \A a \in Applicants \ untold :
           row[a].status \in {"None", "Submitted"} \cup told[a]
=============================================================================
