------------------------------- MODULE Waitlist -------------------------------
(***************************************************************************)
(* One domain's hiring waitlist after its cycles have closed               *)
(* (app/hiring/lib/waitlist.server.ts and waitlist.ts).                    *)
(*                                                                         *)
(* Taking somebody off the list appends a decision and re-numbers everyone *)
(* who stays, in one READ COMMITTED transaction that takes no lock before  *)
(* it reads: the new ranks come from what was committed when it read, and  *)
(* only those that differ from that are written.  A transaction that meets *)
(* the row of another waits for it and writes over it, so the writes of a  *)
(* transaction are one step at its commit; two that wait for each other    *)
(* lose one to the database (Fail).                                        *)
(*                                                                         *)
(* The entries are the applicants' Waitlisted decisions; an entry is       *)
(* active until a later decision is released for its applicant.  One that  *)
(* was released without a rank is in no compaction, and is left out.       *)
(***************************************************************************)
EXTENDS Integers, Sequences, FiniteSets, SequencesExt

CONSTANTS Applicants,   \* domain applications of one domain
          AdminOnly,    \* those of a Lab members cycle, which only Admins see
          Requests,     \* requests that are served at the same time
          MaxAsked,     \* bound: requests and releases made
          MaxBulk       \* bound: entries removed by one request

ASSUME WaitlistAssumption ==
    /\ IsFiniteSet(Applicants) /\ AdminOnly \subseteq Applicants
    /\ MaxAsked \in Nat /\ MaxBulk \in Nat

VARIABLES rank,     \* rank[d]: the waitlistRank of d's entry, 0 without one
          out,      \* out[d]: what was released for d since
          req,      \* req[p]: the request p, and what its transaction writes
          asked,    \* requests and releases made so far
          settled,  \* history: Core ordered the whole list, and nothing that
                    \* brings new ties has happened since
          outrun    \* history: a decision was committed that had been passed,
                    \* since it read the ranks, by one that had been passed
                    \* itself

vars == <<rank, out, req, asked, settled, outrun>>

Ranks == 1..Cardinality(Applicants)
Active == {d \in Applicants : rank[d] # 0 /\ out[d] = {}}

Idle == [at |-> "idle", who |-> <<>>, type |-> "Rejected", order |-> <<>>,
         read |-> [d \in Applicants |-> 0], passed |-> 0, moved |-> FALSE]

\* Each cycle's delibs number their own list from 1, so there may be ties; a
\* list released in part has gaps.  Core may have put it in order before.
Init ==
    /\ rank \in [Applicants -> {0} \cup Ranks]
    /\ out = [d \in Applicants |-> {}]
    /\ req = [p \in Requests |-> Idle]
    /\ asked = 0
    /\ settled \in BOOLEAN /\ outrun = FALSE
    /\ settled => \A x, y \in Active : x # y => rank[x] # rank[y]

Becomes(p, r) == req' = [req EXCEPT ![p] = r]

Free(p) == req[p].at = "idle" /\ asked < MaxAsked

Ask(p, r) ==
    /\ Free(p)
    /\ asked' = asked + 1
    /\ Becomes(p, r)
    /\ UNCHANGED <<rank, out, settled, outrun>>

\* The requests once p's transaction has committed and p goes on as r: those
\* that have read the ranks have been passed by a decision, or (moved) by an
\* order or by a decision that an order or a release had passed itself.  However
\* many decisions passed a request, it counts 1 if nothing had passed them, and
\* 2 if one of them had been passed itself.
After(p, r, decision) ==
    req' = [q \in Requests |->
              IF q = p THEN r
              ELSE IF req[q].at \notin {"commit", "reorder"} THEN req[q]
              ELSE IF decision /\ ~req[p].moved
                   THEN [req[q] EXCEPT !.passed = IF @ # 2 /\ req[p].passed = 0 THEN 1 ELSE 2]
              ELSE [req[q] EXCEPT !.moved = TRUE]]

-----------------------------------------------------------------------------
(***************************************************************************)
(* Accepting one, removing one, removing several one after another (those  *)
(* the caller may not see are skipped).  Refusals for want of an e-mail,   *)
(* and the rows that reopen and complete the cycle, touch no rank.         *)
(***************************************************************************)
acceptFromWaitlist(p, d) ==
    Ask(p, [Idle EXCEPT !.at = "check", !.who = <<d>>, !.type = "Accepted"])

removeFromWaitlist(p, who) ==
    Ask(p, [Idle EXCEPT !.at = "check", !.who = who, !.type = "Rejected"])

\* Goes on with the next of a bulk removal.
Following(r) == IF Len(r.who) <= 1 THEN Idle
                ELSE [Idle EXCEPT !.at = "check", !.who = Tail(r.who), !.type = r.type]

\* The latest decision, read outside the transaction, must be Waitlisted.
Check(p) ==
    LET r == req[p]
    IN /\ r.at = "check"
       /\ Becomes(p, IF Head(r.who) \in Active THEN [r EXCEPT !.at = "decide"] ELSE Following(r))
       /\ UNCHANGED <<rank, out, asked, settled, outrun>>

\* The decision is created; the ranks are read by compactDomainRanks.
Decide(p) ==
    LET r == req[p]
    IN /\ r.at = "decide"
       /\ Becomes(p, [r EXCEPT !.at = "commit",
                               !.read = [d \in Applicants |->
                                           IF d \in Active \ {Head(r.who)} THEN rank[d] ELSE 0]])
       /\ UNCHANGED <<rank, out, asked, settled, outrun>>

\* Mutant: a rank is a position, so ties are broken.
CompactBreakingTies(read) ==
    LET D == {d \in Applicants : read[d] # 0}
        sorted == SetToSortSeq(D, LAMBDA x, y : read[x] < read[y])
    IN [d \in Applicants |-> IF d \in D THEN CHOOSE i \in DOMAIN sorted : sorted[i] = d ELSE 0]

\* Mutant: the ranks are left as they are.
CompactNothing(read) == read

\* Closes gaps without breaking ties.
compactRanks(read) ==
    [d \in Applicants |->
        Cardinality({read[x] : x \in {y \in Applicants : read[y] # 0 /\ read[y] <= read[d]}})]

\* Mutant: every row is written, the one decided too.
WriteAll(read, new) == rank' = new

\* Mutant: only the rows that move up are written, as if compacting.
WriteMovedUp(read, new) ==
    rank' = [d \in Applicants |-> IF new[d] >= read[d] THEN rank[d] ELSE new[d]]

\* The rows are updated by id, each whose new rank is not the one read.
Write(read, new) ==
    rank' = [d \in Applicants |-> IF new[d] = read[d] THEN rank[d] ELSE new[d]]

CommitDecision(p) ==
    LET r == req[p]
        d == Head(r.who)
    IN /\ r.at = "commit"
       /\ out' = [out EXCEPT ![d] = @ \cup {r.type}]
       /\ Write(r.read, compactRanks(r.read))
       /\ After(p, Following(r), TRUE)
       /\ settled' = (settled /\ ~r.moved)
       /\ outrun' = (outrun \/ r.passed = 2)
       /\ UNCHANGED asked

Fail(p) ==
    /\ req[p].at \in {"commit", "reorder"}
    /\ Becomes(p, Idle)
    /\ UNCHANGED <<rank, out, asked, settled, outrun>>

-----------------------------------------------------------------------------
(***************************************************************************)
(* Reordering, and new entries.                                            *)
(***************************************************************************)
\* The order names exactly the entries the caller may see, as they are read
\* outside the transaction.
reorderWaitlist(p, order) ==
    Ask(p, [Idle EXCEPT !.at = "reorder", !.order = order,
                        !.read = [d \in Applicants |-> IF d \in ToSet(order) THEN rank[d] ELSE 0]])

Positions(order) ==
    [d \in Applicants |-> IF d \in ToSet(order)
                          THEN CHOOSE i \in DOMAIN order : order[i] = d ELSE 0]

CommitOrder(p) ==
    LET r == req[p]
    IN /\ r.at = "reorder"
       /\ Write(r.read, Positions(r.order))
       /\ After(p, Idle, FALSE)
       /\ settled' = (ToSet(r.order) = Active /\ r.passed = 0 /\ ~r.moved)
       /\ UNCHANGED <<out, asked, outrun>>

\* A cycle releases another decision of the domain, and re-numbers nobody: a
\* Waitlisted one is a new entry, an Accepted or Rejected one of an applicant on
\* the list ends an entry and passes the requests as a decision does.
Release(d) ==
    /\ asked < MaxAsked /\ asked' = asked + 1
    /\ \/ /\ rank[d] = 0
          /\ \E r \in Ranks : rank' = [rank EXCEPT ![d] = r]
          /\ settled' = FALSE
          /\ req' = [q \in Requests |-> IF req[q].at \in {"commit", "reorder"}
                                        THEN [req[q] EXCEPT !.moved = TRUE] ELSE req[q]]
          /\ UNCHANGED out
       \/ /\ d \in Active
          /\ \E type \in {"Accepted", "Rejected"} : out' = [out EXCEPT ![d] = @ \cup {type}]
          /\ req' = [q \in Requests |-> IF req[q].at \in {"commit", "reorder"} /\ req[q].passed = 0
                                        THEN [req[q] EXCEPT !.passed = 1] ELSE req[q]]
          /\ UNCHANGED <<rank, settled>>
    /\ UNCHANGED outrun

-----------------------------------------------------------------------------
Viewers == {Applicants, Applicants \ AdminOnly}
Bulks(seen) ==
    UNION {SetToSeqs(S) : S \in {T \in SUBSET (Active \cap seen) : Cardinality(T) \in 1..MaxBulk}}

Next ==
    \/ \E p \in Requests :
         \/ /\ Free(p)
            /\ \/ \E d \in Applicants : acceptFromWaitlist(p, d)
               \/ \E seen \in Viewers :
                    \/ \E who \in Bulks(seen) : removeFromWaitlist(p, who)
                    \/ \E order \in SetToSeqs(Active \cap seen) : reorderWaitlist(p, order)
         \/ Check(p) \/ Decide(p) \/ CommitDecision(p) \/ Fail(p) \/ CommitOrder(p)
    \/ \E d \in Applicants : Release(d)

Spec == Init /\ [][Next]_vars

-----------------------------------------------------------------------------
(***************************************************************************)
(* Properties.                                                             *)
(***************************************************************************)
\* Ranks stay positions of the list, and an applicant with an outcome had an
\* entry, whoever's writes came last.
TypeOK ==
    /\ rank \in [Applicants -> {0} \cup Ranks]
    /\ out \in [Applicants -> SUBSET {"Accepted", "Rejected"}]
    /\ \A d \in Applicants : out[d] # {} => rank[d] # 0
    /\ \A p \in Requests :
         /\ req[p].at \in {"idle", "check", "decide", "commit", "reorder"}
         /\ ToSet(req[p].who) \cup ToSet(req[p].order) \subseteq Applicants
         /\ req[p].read \in [Applicants -> {0} \cup Ranks]
         /\ req[p].passed \in 0..2 /\ req[p].moved \in BOOLEAN
    /\ asked \in 0..MaxAsked
    /\ settled \in BOOLEAN /\ outrun \in BOOLEAN

\* waitlist.server.ts:171, "so the order holds and unresolved ties stay tied":
\* a decision keeps the order and the ties of everyone who stays, also when others
\* were committed between its read and its writes, any number of them, unless
\* one of those had been passed itself.
OrderKept ==
    [][\A p \in Requests :
         CommitDecision(p) /\ ~req[p].moved /\ req[p].passed # 2
           => \A x, y \in Active \cap Active' : rank[x] < rank[y] <=> rank'[x] < rank'[y]]_vars

\* The gap is closed: a decision that no other has overtaken leaves the ranks
\* 1, 2, ... in use, each by one entry or several.
NoGaps ==
    [][\A p \in Requests :
         CommitDecision(p) /\ ~req[p].moved /\ req[p].passed = 0
           => \E n \in 0..Cardinality(Applicants) : {rank'[d] : d \in Active'} = 1..n]_vars

\* "This is how Core resolves ties between cycles" (waitlist.server.ts:631): once
\* the whole list has been put in an order nothing overtook, no two entries share
\* a rank until new ones are released, through decisions one after another or at
\* once; except that a decision passed by one that had been passed itself may
\* bring ties back (outrun).
TiesResolved ==
    settled /\ ~outrun => \A x, y \in Active : x # y => rank[x] # rank[y]
=============================================================================
