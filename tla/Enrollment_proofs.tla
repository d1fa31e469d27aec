--------------------------- MODULE Enrollment_proofs ---------------------------
(***************************************************************************)
(* Enrollment, for every finite set of applicants, any requests, any       *)
(* capacities and every offering at rest to begin with.                    *)
(***************************************************************************)
EXTENDS Enrollment, FiniteSetTheorems, SequenceTheorems, WellFoundedInduction, TLAPS

RowType == [status : Statuses, rank : Nat]
RowsType == [Applicants -> RowType]

\* A rank goes with the status Waitlisted.
Ranked(rows) == \A a \in Applicants : rows[a].rank # 0 <=> rows[a].status = "Waitlisted"

Elems(s) == {s[i] : i \in 1..Len(s)}

Applied(a) == row[a].status # "None"

-----------------------------------------------------------------------------
(***************************************************************************)
(* The inductive invariant.                                                *)
(***************************************************************************)
Type ==
    /\ row \in RowsType
    /\ capacity \in Capacities /\ requiresReview \in BOOLEAN
    /\ req \in [Requests -> Reqs]
    /\ asked \in 0..MaxAsked /\ changes \in 0..MaxChanges
    /\ told \in [Applicants -> SUBSET Statuses]
    /\ raced \in BOOLEAN /\ untold \subseteq Applicants

\* Ranks are not limited by the number of applicants once transactions have
\* raced, but they are limited.
Bounded == \E b \in Nat : \A a \in Applicants : row[a].rank <= b

Queue ==
    /\ queue \in Seq(Applicants)
    /\ \A i, j \in 1..Len(queue) : queue[i] = queue[j] => i = j
    /\ Elems(queue) = {a \in Applicants : Applied(a)}

\* Where a request stands, it has what its next step takes; who has applied
\* stays an applicant.
Asked(p) ==
    /\ req[p].at \in {"submit", "read", "decide"} => req[p].who # <<>>
    /\ req[p].at = "tell" => req[p].tell # <<>>
    /\ req[p].at = "submit" => req[p].was.status \in {"None", "Submitted", "Withdrawn"}
    /\ req[p].at \in {"read", "decide", "tell"} =>
         /\ req[p].who # <<>> => req[p].to \in DECIDABLE
         /\ \A a \in Elems(req[p].who) : Applied(a)
    /\ req[p].at = "decide" => req[p].was.status \notin {"None", req[p].to}
    /\ req[p].at \in {"submit", "decide"} =>
         /\ req[p].cap \in Capacities
         /\ req[p].was.rank # 0 <=> req[p].was.status = "Waitlisted"

\* n people wait, on the ranks from 1 to n.
Numbered(rows, n) ==
    /\ n \in Nat
    /\ \A a \in With(rows, "Waitlisted") : rows[a].rank \in 1..n
    /\ \A i \in 1..n : \E a \in With(rows, "Waitlisted") : rows[a].rank = i
    /\ \A a, b \in With(rows, "Waitlisted") : rows[a].rank = rows[b].rank => a = b

Lined == ~raced => \E n \in Nat : Numbered(row, n)

\* Whoever was not mailed the outcome they have now is about to be, or their
\* mail was lost.
Telling(a) ==
    \E p \in Requests :
       /\ req[p].at = "tell"
       /\ \E t \in Elems(req[p].tell) : t.who = a /\ (t.promoted => row[a].status = "Approved")

Informed == \A a \in Applicants \ untold :
               row[a].status \in {"None", "Submitted"} \cup told[a] \/ Telling(a)

IInv ==
    /\ Type /\ Ranked(row) /\ Bounded /\ Queue
    /\ \A p \in Requests : Asked(p)
    /\ Lined /\ Informed

-----------------------------------------------------------------------------
(***************************************************************************)
(* Smallest and largest: what the CHOOSEs of the code's queries find.      *)
(***************************************************************************)
LEMMA LeastNat ==
    ASSUME NEW T \in SUBSET Nat, T # {}
    PROVE  \E x \in T : \A y \in T : x <= y
<1> DEFINE R == OpToRel(<, Nat)
<1>1. \E x \in T : \A y \in T : ~(<<y, x>> \in R)
  <2>1. IsWellFoundedOn(R, Nat)
    BY NatLessThanWellFounded
  <2> HIDE DEF R
  <2> QED BY <2>1, WFMin
<1>2. \A x, y \in Nat : <<y, x>> \in R <=> y < x
  BY DEF OpToRel
<1> HIDE DEF R
<1>3. \A y \in T : y \in Nat
  OBVIOUS
<1>4. PICK x \in T : \A y \in T : ~(<<y, x>> \in R)
  BY <1>1
<1>5. \A y \in T : ~(y < x)
  BY <1>2, <1>3, <1>4
<1> QED BY <1>3, <1>5

LEMMA GreatestNat ==
    ASSUME NEW T \in SUBSET Nat, T # {}, NEW b \in Nat, \A y \in T : y <= b
    PROVE  \E x \in T : \A y \in T : y <= x
<1> DEFINE D == {b - y : y \in T}
<1>1. \A y \in T : y \in Nat /\ b - y \in Nat
  OBVIOUS
<1>2. D \in SUBSET Nat /\ D # {}
  BY <1>1
<1>3. PICK d \in D : \A e \in D : d <= e
  <2> HIDE DEF D
  <2> QED BY <1>2, LeastNat
<1>4. PICK x \in T : d = b - x
  OBVIOUS
<1>5. \A y \in T : b - x <= b - y
  BY <1>3, <1>4
<1> HIDE DEF D
<1> QED BY <1>1, <1>5

\* The rank a waitlisting gets is one above all others.
LEMMA NextRank ==
    ASSUME NEW rows \in RowsType, NEW b \in Nat, \A x \in Applicants : rows[x].rank <= b,
           Applicants # {}
    PROVE  /\ nextWaitlistRank(rows) \in Nat \ {0} /\ nextWaitlistRank(rows) <= b + 1
           /\ \A x \in Applicants : rows[x].rank < nextWaitlistRank(rows)
           /\ \E x \in Applicants : nextWaitlistRank(rows) = rows[x].rank + 1
<1> DEFINE S == {rows[x].rank : x \in Applicants}
           good(r) == \A x \in Applicants : rows[x].rank <= r
           m == CHOOSE r \in S : good(r)
<1>1. \A x \in Applicants : rows[x].rank \in Nat
  BY DEF RowsType, RowType
<1>2. S \in SUBSET Nat /\ S # {} /\ \A y \in S : y <= b
  BY <1>1
<1>3. \E r \in S : \A y \in S : y <= r
  <2> HIDE DEF S
  <2> QED BY <1>2, GreatestNat
<1>4. \E r \in S : good(r)
  BY <1>3
<1>5. m \in S /\ good(m)
  <2> HIDE DEF S, good
  <2> QED BY <1>4
<1>6. nextWaitlistRank(rows) = 1 + m
  BY DEF nextWaitlistRank
<1> HIDE DEF m
<1>7. m \in Nat /\ m <= b /\ \E x \in Applicants : m = rows[x].rank
  BY <1>2, <1>5
<1> QED BY <1>1, <1>5, <1>6, <1>7

\* Who is next: somebody of those waiting, and nobody is before them.
LEMMA Next1Up ==
    ASSUME NEW rows \in RowsType, Queue, NEW W \in SUBSET Elems(queue), W # {}
    PROVE  NextUp(rows, W) \in W /\ \A b \in W : rows[NextUp(rows, W)].rank <= rows[b].rank
<1> DEFINE before(a, b) == \/ rows[a].rank < rows[b].rank
                           \/ rows[a].rank = rows[b].rank /\ Position(a) < Position(b)
<1>1. ASSUME NEW a \in W
      PROVE  /\ rows[a].rank \in Nat /\ Position(a) \in Nat
             /\ Position(a) \in 1..Len(queue) /\ queue[Position(a)] = a
  <2>1. queue \in Seq(Applicants) /\ DOMAIN queue = 1..Len(queue)
    BY DEF Queue
  <2>2. \E i \in DOMAIN queue : queue[i] = a
    BY <2>1 DEF Elems
  <2>3. Position(a) \in DOMAIN queue /\ queue[Position(a)] = a
    BY <2>2 DEF Position
  <2>4. a \in Applicants
    BY <2>1, <2>3
  <2> QED BY <2>1, <2>3, <2>4 DEF RowsType, RowType
<1>2. \E a \in W : \A b \in W \ {a} : before(a, b)
  <2> DEFINE S == {rows[a].rank : a \in W}
  <2>1. S \in SUBSET Nat /\ S # {}
    BY <1>1
  <2>2. PICK r \in S : \A s \in S : r <= s
    <3> HIDE DEF S
    <3> QED BY <2>1, LeastNat
  <2> DEFINE F == {a \in W : rows[a].rank = r}
             P == {Position(a) : a \in F}
  <2>3. F # {} /\ P # {} /\ P \in SUBSET Nat
    BY <1>1
  <2>4. PICK q \in P : \A s \in P : q <= s
    <3> HIDE DEF P
    <3> QED BY <2>3, LeastNat
  <2>5. PICK a \in F : q = Position(a)
    OBVIOUS
  <2>6. ASSUME NEW b \in W \ {a} PROVE before(a, b)
    <3>1. rows[a].rank <= rows[b].rank
      BY <2>2, <2>5
    <3>2. rows[a].rank = rows[b].rank => Position(a) <= Position(b)
      BY <2>4, <2>5
    <3>3. Position(a) # Position(b)
      BY <1>1, <2>5
    <3> QED BY <1>1, <2>5, <3>1, <3>2, <3>3
  <2> QED BY <2>5, <2>6
<1>3. NextUp(rows, W) = CHOOSE a \in W : \A b \in W \ {a} : before(a, b)
  BY DEF NextUp
<1>4. NextUp(rows, W) \in W /\ \A b \in W \ {NextUp(rows, W)} : before(NextUp(rows, W), b)
  <2> HIDE DEF before
  <2> QED BY <1>2, <1>3
<1> QED BY <1>1, <1>4

-----------------------------------------------------------------------------
(***************************************************************************)
(* What the code computes of the rows: compaction, seats, numbers.         *)
(***************************************************************************)
\* Compaction behind rank k changes ranks alone, and no rank to nothing.
LEMMA Decremented ==
    ASSUME NEW rows \in RowsType, NEW k \in Nat, Ranked(rows), k # 0
    PROVE  LET out == decrementRanksAbove(rows, k)
           IN  /\ out \in RowsType /\ Ranked(out)
               /\ \A a \in Applicants :
                    /\ out[a].status = rows[a].status
                    /\ rows[a].rank > k => out[a].rank = rows[a].rank - 1
                    /\ ~(rows[a].rank > k) => out[a].rank = rows[a].rank
<1> DEFINE out == decrementRanksAbove(rows, k)
<1>1. \A a \in Applicants : rows[a] \in RowType /\ rows[a].rank \in Nat
  BY DEF RowsType, RowType
<1>2. ASSUME NEW a \in Applicants
      PROVE  /\ out[a] \in RowType /\ out[a].status = rows[a].status
             /\ rows[a].rank > k => out[a].rank = rows[a].rank - 1
             /\ ~(rows[a].rank > k) => out[a].rank = rows[a].rank
  <2>1. CASE rows[a].rank > k
    <3>1. rows[a].status = "Waitlisted"
      BY <1>1, <2>1 DEF Ranked
    <3>2. out[a] = [rows[a] EXCEPT !.rank = @ - 1]
      BY <2>1, <3>1 DEF decrementRanksAbove
    <3>3. ASSUME NEW r \in RowType, r.rank > k
          PROVE  LET s == [r EXCEPT !.rank = @ - 1]
                 IN  s \in RowType /\ s.status = r.status /\ s.rank = r.rank - 1
      BY <3>3 DEF RowType
    <3> QED BY <1>1, <2>1, <3>2, <3>3
  <2>2. CASE ~(rows[a].rank > k)
    <3>1. out[a] = rows[a]
      BY <2>2 DEF decrementRanksAbove
    <3> QED BY <1>1, <2>2, <3>1
  <2> QED BY <2>1, <2>2
<1>3. out = [a \in Applicants |-> out[a]]
  BY DEF decrementRanksAbove
<1> HIDE DEF out
<1>4. out \in RowsType
  BY <1>2, <1>3 DEF RowsType
<1>5. Ranked(out)
  <2>1. \A a \in Applicants : out[a].rank # 0 <=> rows[a].rank # 0
    BY <1>1, <1>2
  <2> QED BY <1>2, <2>1 DEF Ranked
<1> QED BY <1>2, <1>4, <1>5 DEF out

\* One row written.
LEMMA Written ==
    ASSUME NEW rows \in RowsType, NEW a \in Applicants, NEW s \in Statuses, NEW k \in Nat,
           \A x \in Applicants \ {a} : rows[x].rank # 0 <=> rows[x].status = "Waitlisted",
           k # 0 <=> s = "Waitlisted"
    PROVE  LET out == [rows EXCEPT ![a] = Row(s, k)]
           IN  /\ out \in RowsType /\ Ranked(out)
               /\ out[a].status = s /\ out[a].rank = k /\ out[a] = Row(s, k)
               /\ \A x \in Applicants \ {a} : out[x] = rows[x]
<1>1. Row(s, k) \in RowType /\ Row(s, k).status = s /\ Row(s, k).rank = k
  BY DEF Row, RowType
<1> DEFINE out == [rows EXCEPT ![a] = Row(s, k)]
<1>2. out[a] = Row(s, k) /\ (\A x \in Applicants \ {a} : out[x] = rows[x]) /\ out \in RowsType
  BY <1>1 DEF RowsType
<1> HIDE DEF out
<1>3. Ranked(out)
  BY <1>1, <1>2 DEF Ranked
<1> QED BY <1>1, <1>2, <1>3 DEF out

\* Seats taken: what counts are the statuses.
LEMMA SeatsSame ==
    ASSUME NEW r, NEW s, \A x \in Applicants : r[x].status = s[x].status
    PROVE  approvedCount(r) = approvedCount(s)
<1>1. With(r, "Approved") = With(s, "Approved")
  BY DEF With
<1> QED BY <1>1 DEF approvedCount

LEMMA SeatsNat == \A r : approvedCount(r) \in Nat
<1> TAKE r
<1>1. With(r, "Approved") \in SUBSET Applicants
  BY DEF With
<1>2. IsFiniteSet(With(r, "Approved"))
  BY <1>1, EnrollmentAssumption, FS_Subset
<1> QED BY <1>2, FS_CardinalityType DEF approvedCount

LEMMA SeatsOne ==
    ASSUME NEW r, NEW s, NEW a \in Applicants,
           \A x \in Applicants \ {a} : r[x].status = s[x].status
    PROVE  /\ approvedCount(s) <= approvedCount(r) + 1
           /\ s[a].status # "Approved" => approvedCount(s) <= approvedCount(r)
<1> DEFINE R == With(r, "Approved")
           S == With(s, "Approved")
<1>1. R \in SUBSET Applicants /\ S \in SUBSET Applicants
  BY DEF With
<1>2. IsFiniteSet(R) /\ IsFiniteSet(S) /\ Cardinality(R) \in Nat /\ Cardinality(S) \in Nat
  BY <1>1, EnrollmentAssumption, FS_Subset, FS_CardinalityType
<1>3. S \subseteq R \cup {a} /\ (s[a].status # "Approved" => S \subseteq R)
  BY DEF With
<1> HIDE DEF R, S
<1>4. /\ IsFiniteSet(R \cup {a}) /\ Cardinality(R \cup {a}) \in Nat
      /\ Cardinality(R \cup {a}) <= Cardinality(R) + 1
  <2>1. /\ IsFiniteSet(R \cup {a})
        /\ Cardinality(R \cup {a}) = Cardinality(R) \/ Cardinality(R \cup {a}) = Cardinality(R) + 1
    <3>1. /\ IsFiniteSet(R \cup {a})
          /\ Cardinality(R \cup {a}) = IF a \in R THEN Cardinality(R) ELSE Cardinality(R) + 1
      BY <1>2, FS_AddElement
    <3> QED BY <3>1
  <2> QED BY <1>2, <2>1
<1>5. Cardinality(S) <= Cardinality(R \cup {a})
  BY <1>3, <1>4, FS_Subset
<1>6. S \subseteq R => Cardinality(S) <= Cardinality(R)
  BY <1>2, FS_Subset
<1> QED BY <1>2, <1>3, <1>4, <1>5, <1>6 DEF approvedCount, R, S

\* The line, numbered from 1 to n, is what RanksDense says it is.
LEMMA NumberedDense ==
    ASSUME NEW rows \in RowsType
    PROVE  Dense(rows) <=> \E n \in Nat : Numbered(rows, n)
<1> DEFINE W == With(rows, "Waitlisted")
           n == Cardinality(W)
           f == [a \in W |-> rows[a].rank]
<1>1. W \in SUBSET Applicants
  BY DEF With
<1>2. IsFiniteSet(W) /\ n \in Nat
  BY <1>1, EnrollmentAssumption, FS_Subset, FS_CardinalityType
<1>3. Dense(rows) <=> {rows[a].rank : a \in W} = 1..n
  BY DEF Dense
<1> HIDE DEF W
<1>4. IsFiniteSet(1..n) /\ Cardinality(1..n) = n
  <2>1. 1 \in Int /\ n \in Int /\ (1 > n => n = 0)
    BY <1>2
  <2> HIDE DEF n
  <2>2. IsFiniteSet(1..n) /\ Cardinality(1..n) = IF 1 > n THEN 0 ELSE n - 1 + 1
    BY <2>1, FS_Interval
  <2> QED BY <1>2, <2>1, <2>2
<1>5. ASSUME Dense(rows) PROVE Numbered(rows, n)
  <2>1. {rows[a].rank : a \in W} = 1..n
    BY <1>3, <1>5
  <2>2. \A a \in W : rows[a].rank \in 1..n
    BY <2>1
  <2>3. \A i \in 1..n : \E a \in W : rows[a].rank = i
    BY <2>1
  <2>4. f \in Surjection(W, 1..n)
    BY <2>2, <2>3 DEF Surjection
  <2> HIDE DEF f
  <2>5. f \in Injection(W, 1..n)
    BY <1>2, <1>4, <2>4, FS_Surjection
  <2>6. \A a, b \in W : rows[a].rank = rows[b].rank => a = b
    BY <2>5 DEF f, Injection, IsInjective
  <2> QED BY <1>2, <2>2, <2>3, <2>6 DEF Numbered, W
<1>6. ASSUME NEW k \in Nat, Numbered(rows, k) PROVE Dense(rows)
  <2>1. /\ \A a \in W : rows[a].rank \in 1..k
        /\ \A i \in 1..k : \E a \in W : rows[a].rank = i
        /\ \A a, b \in W : rows[a].rank = rows[b].rank => a = b
    BY <1>6 DEF Numbered, W
  <2>2. f \in Bijection(W, 1..k)
    BY <2>1 DEF Bijection, Injection, Surjection, IsInjective
  <2> HIDE DEF f
  <2>3. n = k
    <3>1. IsFiniteSet(1..k) /\ Cardinality(1..k) = k
      <4>1. IsFiniteSet(1..k) /\ Cardinality(1..k) = IF 1 > k THEN 0 ELSE k - 1 + 1
        BY FS_Interval
      <4> QED BY <4>1
    <3>2. f \in Injection(W, 1..k) /\ f \in Surjection(W, 1..k)
      BY <2>2 DEF Bijection
    <3>3. n <= k /\ k <= n
      BY <1>2, <3>1, <3>2, FS_Injection, FS_Surjection
    <3> QED BY <1>2, <3>3
  <2>4. {rows[a].rank : a \in W} = 1..k
    BY <2>1
  <2> QED BY <1>3, <2>3, <2>4
<1> QED BY <1>2, <1>5, <1>6

\* A row that does not wait has no part in the line.
LEMMA NumberedSame ==
    ASSUME NEW r, NEW s, NEW n, Numbered(r, n),
           \A x \in Applicants :
              IF r[x].status = "Waitlisted" \/ s[x].status = "Waitlisted" THEN s[x] = r[x] ELSE TRUE
    PROVE  Numbered(s, n)
<1>1. With(s, "Waitlisted") = With(r, "Waitlisted")
  BY DEF With
<1>2. \A x \in With(r, "Waitlisted") : s[x] = r[x]
  BY DEF With
<1> QED BY <1>1, <1>2 DEF Numbered

\* Somebody joins at the end.
LEMMA NumberedJoin ==
    ASSUME NEW r \in RowsType, Ranked(r), NEW n \in Nat, Numbered(r, n),
           NEW a \in Applicants, r[a].status # "Waitlisted", NEW s \in RowsType,
           s[a] = Row("Waitlisted", nextWaitlistRank(r)),
           \A x \in Applicants \ {a} : s[x] = r[x]
    PROVE  Numbered(s, n + 1)
<1> DEFINE W == With(r, "Waitlisted")
<1>1. W \in SUBSET Applicants /\ a \notin W
  BY DEF With
<1>2. \A x \in Applicants : r[x].rank \in Nat /\ (r[x].rank # 0 <=> x \in W)
  BY DEF RowsType, RowType, Ranked, With
<1>3. /\ \A x \in W : r[x].rank \in 1..n
      /\ \A i \in 1..n : \E x \in W : r[x].rank = i
      /\ \A x, y \in W : r[x].rank = r[y].rank => x = y
  BY DEF Numbered
<1>4. \A x \in Applicants : r[x].rank <= n
  BY <1>2, <1>3
<1>5. /\ nextWaitlistRank(r) \in Nat
      /\ \A x \in Applicants : r[x].rank < nextWaitlistRank(r)
      /\ \E x \in Applicants : nextWaitlistRank(r) = r[x].rank + 1
  BY <1>4, NextRank
<1>6. nextWaitlistRank(r) = n + 1
  <2>1. nextWaitlistRank(r) <= n + 1
    BY <1>2, <1>4, <1>5
  <2>2. n < nextWaitlistRank(r)
    <3>1. CASE n = 0
      BY <1>2, <1>5, <3>1
    <3>2. CASE n # 0
      <4>1. n \in 1..n
        BY <3>2
      <4>2. PICK x \in W : r[x].rank = n
        BY <1>3, <4>1
      <4> QED BY <1>1, <1>5, <4>2
    <3> QED BY <3>1, <3>2
  <2> QED BY <1>5, <2>1, <2>2
<1>7. s[a].status = "Waitlisted" /\ s[a].rank = n + 1
  BY <1>6 DEF Row
<1>8. With(s, "Waitlisted") = W \cup {a} /\ \A x \in W : s[x] = r[x]
  BY <1>1, <1>7 DEF With
<1> HIDE DEF W
<1>9. \A x \in W \cup {a} : s[x].rank \in 1..n + 1
  BY <1>3, <1>7, <1>8
<1>10. \A i \in 1..n + 1 : \E x \in W \cup {a} : s[x].rank = i
  <2>1. \A i \in 1..n + 1 : i \in 1..n \/ i = n + 1
    OBVIOUS
  <2> QED BY <1>3, <1>7, <1>8, <2>1
<1>11. \A x, y \in W \cup {a} : s[x].rank = s[y].rank => x = y
  <2>1. \A x \in W : s[x].rank # n + 1
    BY <1>3, <1>8
  <2> QED BY <1>3, <1>7, <1>8, <2>1
<1> QED BY <1>8, <1>9, <1>10, <1>11 DEF Numbered

\* Somebody leaves, and everyone behind moves up by one.
LEMMA NumberedLeave ==
    ASSUME NEW r \in RowsType, NEW n \in Nat, Numbered(r, n),
           NEW a \in Applicants, r[a].status = "Waitlisted",
           NEW s \in RowsType, s[a].status # "Waitlisted",
           \A x \in Applicants \ {a} :
              /\ s[x].status = r[x].status
              /\ r[x].rank > r[a].rank => s[x].rank = r[x].rank - 1
              /\ ~(r[x].rank > r[a].rank) => s[x].rank = r[x].rank
    PROVE  Numbered(s, n - 1)
<1> DEFINE W == With(r, "Waitlisted")
           k == r[a].rank
<1>1. W \in SUBSET Applicants /\ a \in W
  BY DEF With
<1>2. With(s, "Waitlisted") = W \ {a}
  BY DEF With
<1>3. /\ \A x \in W : r[x].rank \in 1..n
      /\ \A i \in 1..n : \E x \in W : r[x].rank = i
      /\ \A x, y \in W : r[x].rank = r[y].rank => x = y
  BY DEF Numbered
<1>4. k \in 1..n /\ n - 1 \in Nat
  BY <1>1, <1>3
<1>5. \A x \in W \ {a} : r[x].rank \in 1..n /\ r[x].rank # k
  BY <1>1, <1>3
<1>6. \A x \in W \ {a} : s[x].rank = IF r[x].rank > k THEN r[x].rank - 1 ELSE r[x].rank
  BY <1>1
<1> HIDE DEF W, k
<1>7. \A x \in W \ {a} : s[x].rank \in 1..n - 1
  BY <1>4, <1>5, <1>6
<1>8. ASSUME NEW i \in 1..n - 1 PROVE \E x \in W \ {a} : s[x].rank = i
  <2>1. CASE i < k
    <3>1. i \in 1..n
      BY <1>4
    <3>2. PICK x \in W : r[x].rank = i
      BY <1>3, <3>1
    <3>3. x # a
      BY <2>1, <3>2 DEF k
    <3> QED BY <1>4, <1>6, <2>1, <3>2, <3>3
  <2>2. CASE ~(i < k)
    <3>1. i + 1 \in 1..n
      BY <1>4
    <3>2. PICK x \in W : r[x].rank = i + 1
      BY <1>3, <3>1
    <3>3. x # a
      BY <1>4, <2>2, <3>2 DEF k
    <3> QED BY <1>4, <1>6, <2>2, <3>2, <3>3
  <2> QED BY <2>1, <2>2
<1>9. \A x, y \in W \ {a} : s[x].rank = s[y].rank => x = y
  <2> SUFFICES ASSUME NEW x \in W \ {a}, NEW y \in W \ {a}, s[x].rank = s[y].rank PROVE x = y
    OBVIOUS
  <2>1. r[x].rank = r[y].rank
    BY <1>4, <1>5, <1>6
  <2> QED BY <1>3, <2>1
<1> QED BY <1>2, <1>4, <1>7, <1>8, <1>9 DEF Numbered

\* Two of those waiting change places.
LEMMA NumberedSwap ==
    ASSUME NEW r, NEW s, NEW n, Numbered(r, n),
           NEW a \in Applicants, NEW b \in Applicants, a # b,
           r[a].status = "Waitlisted", r[b].status = "Waitlisted",
           \A x \in Applicants : s[x].status = r[x].status,
           \A x \in Applicants \ {a, b} : s[x].rank = r[x].rank,
           s[a].rank = r[b].rank, s[b].rank = r[a].rank
    PROVE  Numbered(s, n)
<1> DEFINE W == With(r, "Waitlisted")
<1>1. W \in SUBSET Applicants /\ a \in W /\ b \in W /\ With(s, "Waitlisted") = W
  BY DEF With
<1>2. /\ n \in Nat
      /\ \A x \in W : r[x].rank \in 1..n
      /\ \A i \in 1..n : \E x \in W : r[x].rank = i
      /\ \A x, y \in W : r[x].rank = r[y].rank => x = y
  BY DEF Numbered
<1> HIDE DEF W
<1>3. \A x \in W \ {a, b} : s[x].rank = r[x].rank
  BY <1>1
<1>4. \A x \in W : s[x].rank \in 1..n
  BY <1>1, <1>2, <1>3
<1>5. \A i \in 1..n : \E x \in W : s[x].rank = i
  BY <1>1, <1>2, <1>3
<1>6. \A x, y \in W : s[x].rank = s[y].rank => x = y
  BY <1>1, <1>2, <1>3
<1> QED BY <1>1, <1>2, <1>4, <1>5, <1>6 DEF Numbered

\* out is rows with x, the first of W, seated and the line closed up.
Promotes(rows, out, W, x) ==
    /\ x \in W /\ \A b \in W : rows[x].rank <= rows[b].rank
    /\ out \in RowsType /\ Ranked(out)
    /\ out[x].status = "Approved" /\ out[x].rank = 0
    /\ \A y \in Applicants \ {x} :
         /\ out[y].status = rows[y].status
         /\ rows[y].rank > rows[x].rank => out[y].rank = rows[y].rank - 1
         /\ ~(rows[y].rank > rows[x].rank) => out[y].rank = rows[y].rank

\* Nobody is promoted, or the first of those waiting, whose place is closed up.
LEMMA Promoting ==
    ASSUME NEW rows \in RowsType, Ranked(rows), Queue, NEW cap \in Nat, NEW a,
           \A x \in Applicants : rows[x].status = "Waitlisted" => Applied(x)
    PROVE  LET W == With(rows, "Waitlisted") \ {a}
               out == promoteFromWaitlist(rows, cap, a)
           IN  \/ /\ Promoted(rows, cap, a) = {} /\ out = rows
                  /\ W = {} \/ approvedCount(rows) >= cap
               \/ \E x \in W : /\ Promoted(rows, cap, a) = {x} /\ approvedCount(rows) < cap
                              /\ Promotes(rows, out, W, x)
<1> DEFINE W == With(rows, "Waitlisted") \ {a}
           out == promoteFromWaitlist(rows, cap, a)
           x == NextUp(rows, W)
<1>1. approvedCount(rows) \in Nat
  BY SeatsNat
<1>2. CASE approvedCount(rows) >= cap \/ W = {}
  <2>1. Promoted(rows, cap, a) = {}
    BY <1>2 DEF Promoted
  <2>2. out = rows
    BY <2>1 DEF promoteFromWaitlist
  <2> QED BY <1>2, <2>1, <2>2
<1>3. CASE ~(approvedCount(rows) >= cap) /\ W # {}
  <2>1. W \in SUBSET Elems(queue) /\ W \in SUBSET Applicants
    BY DEF With, Queue
  <2>2. x \in W /\ \A b \in W : rows[x].rank <= rows[b].rank
    <3> HIDE DEF W
    <3> QED BY <1>3, <2>1, Next1Up
  <2>3. Promoted(rows, cap, a) = {x}
    BY <1>3 DEF Promoted
  <2>4. x \in Applicants /\ rows[x].status = "Waitlisted"
    BY <2>2 DEF With
  <2> DEFINE k == rows[x].rank
             mid == [rows EXCEPT ![x] = Row("Approved", 0)]
  <2>5. out = decrementRanksAbove(mid, k)
    <3> HIDE DEF x
    <3>1. (CHOOSE y \in {x} : TRUE) = x
      OBVIOUS
    <3> QED BY <2>3, <3>1 DEF promoteFromWaitlist
  <2> HIDE DEF x
  <2>6. k \in Nat /\ k # 0
    BY <2>4 DEF RowsType, RowType, Ranked
  <2>7. /\ mid \in RowsType /\ Ranked(mid) /\ mid[x].status = "Approved" /\ mid[x].rank = 0
        /\ \A y \in Applicants \ {x} : mid[y] = rows[y]
    <3>1. \A y \in Applicants \ {x} : rows[y].rank # 0 <=> rows[y].status = "Waitlisted"
      BY DEF Ranked
    <3>2. "Approved" \in Statuses /\ 0 \in Nat /\ (0 # 0 <=> "Approved" = "Waitlisted")
      BY DEF Statuses, DECIDABLE
    <3> QED BY <2>4, <3>1, <3>2, Written
  <2> HIDE DEF mid, k
  <2>8. /\ out \in RowsType /\ Ranked(out)
        /\ \A y \in Applicants :
             /\ out[y].status = mid[y].status
             /\ mid[y].rank > k => out[y].rank = mid[y].rank - 1
             /\ ~(mid[y].rank > k) => out[y].rank = mid[y].rank
    BY <2>5, <2>6, <2>7, Decremented
  <2>9. out[x].status = "Approved" /\ out[x].rank = 0
    BY <2>4, <2>6, <2>7, <2>8
  <2>10. ASSUME NEW y \in Applicants \ {x}
         PROVE  /\ out[y].status = rows[y].status
                /\ rows[y].rank > k => out[y].rank = rows[y].rank - 1
                /\ ~(rows[y].rank > k) => out[y].rank = rows[y].rank
    BY <2>7, <2>8
  <2>11. approvedCount(rows) < cap
    BY <1>1, <1>3
  <2> HIDE DEF out, W
  <2>12. Promotes(rows, out, W, x)
    BY <2>2, <2>8, <2>9, <2>10 DEF Promotes, k
  <2> QED BY <2>2, <2>3, <2>11, <2>12 DEF out, W
<1> QED BY <1>2, <1>3

\* A decision writes the applicant's row and closes the place they left.
LEMMA Deciding ==
    ASSUME Type, Ranked(row), Bounded, NEW a \in Applicants, NEW to \in DECIDABLE,
           NEW was \in RowType, was.rank # 0 <=> was.status = "Waitlisted", was.status # to
    PROVE  LET out == Decided(a, to, was)
           IN  /\ out \in RowsType /\ Ranked(out) /\ out[a].status = to
               /\ \A x \in Applicants \ {a} :
                    /\ out[x].status = row[x].status
                    /\ was.status # "Waitlisted" => out[x] = row[x]
                    /\ was.status = "Waitlisted" =>
                         /\ row[x].rank > was.rank => out[x].rank = row[x].rank - 1
                         /\ ~(row[x].rank > was.rank) => out[x].rank = row[x].rank
               /\ to = "Waitlisted" => out[a] = Row("Waitlisted", nextWaitlistRank(row))
<1> DEFINE k == IF to = "Waitlisted" THEN nextWaitlistRank(row) ELSE 0
           mid == [row EXCEPT ![a] = Row(to, k)]
           out == Decided(a, to, was)
<1>1. k \in Nat /\ (k # 0 <=> to = "Waitlisted")
  <2>1. PICK b \in Nat : \A x \in Applicants : row[x].rank <= b
    BY DEF Bounded
  <2>2. nextWaitlistRank(row) \in Nat \ {0}
    BY <2>1, NextRank DEF Type
  <2> QED BY <2>2
<1>2. out = IF was.status = "Waitlisted" THEN decrementRanksAbove(mid, was.rank) ELSE mid
  BY DEF Decided
<1>3. to = "Waitlisted" => k = nextWaitlistRank(row)
  OBVIOUS
<1> HIDE DEF k, out
<1>4. /\ mid \in RowsType /\ Ranked(mid) /\ mid[a].status = to /\ mid[a].rank = k
      /\ mid[a] = Row(to, k)
      /\ \A x \in Applicants \ {a} : mid[x] = row[x]
  <2>1. \A y \in Applicants \ {a} : row[y].rank # 0 <=> row[y].status = "Waitlisted"
    BY DEF Ranked
  <2>2. to \in Statuses
    BY DEF Statuses
  <2> QED BY <1>1, <2>1, <2>2, Written DEF Type
<1> HIDE DEF mid
<1>5. CASE was.status = "Waitlisted"
  <2>1. was.rank \in Nat /\ was.rank # 0
    BY <1>5 DEF RowType
  <2>2. /\ out \in RowsType /\ Ranked(out)
        /\ \A x \in Applicants :
             /\ out[x].status = mid[x].status
             /\ mid[x].rank > was.rank => out[x].rank = mid[x].rank - 1
             /\ ~(mid[x].rank > was.rank) => out[x].rank = mid[x].rank
    BY <1>2, <1>4, <1>5, <2>1, Decremented
  <2> QED BY <1>4, <1>5, <2>2 DEF out
<1>6. CASE was.status # "Waitlisted"
  <2>1. out = mid
    BY <1>2, <1>6
  <2> QED BY <1>3, <1>4, <1>6, <2>1 DEF out
<1> QED BY <1>5, <1>6

-----------------------------------------------------------------------------
(***************************************************************************)
(* Requests.                                                               *)
(***************************************************************************)
TellType == [who : Applicants, promoted : BOOLEAN]

\* The mails after a transaction: the applicant's, and the promoted one's.
LEMMA TellsAre ==
    ASSUME NEW a \in Applicants, NEW next, next = {} \/ \E x \in Applicants : next = {x}
    PROVE  /\ Tells(a, next) \in Seq(TellType) /\ Tells(a, next) # <<>>
           /\ \E t \in Elems(Tells(a, next)) : t.who = a /\ ~t.promoted
           /\ \A x \in next : \E t \in Elems(Tells(a, next)) : t.who = x /\ t.promoted
<1> DEFINE s == <<[who |-> a, promoted |-> FALSE]>>
           S == {[who |-> n, promoted |-> TRUE] : n \in next}
           f == SetToSeq(S)
           T == Tells(a, next)
<1>1. s \in Seq(TellType) /\ Len(s) = 1 /\ s[1].who = a /\ ~s[1].promoted
  BY DEF TellType
<1>2. T = s \o f
  BY DEF Tells
<1>3. f \in Seq(TellType) /\ \A x \in next : Len(f) = 1 /\ f[1].who = x /\ f[1].promoted
  <2>1. CASE next = {}
    <3>1. Cardinality(S) = 0 /\ S = {}
      BY <2>1, FS_EmptySet
    <3>2. \E g \in [1..0 -> {}] : IsInjective(g)
      <4>1. [i \in 1..0 |-> i] \in [1..0 -> {}] /\ IsInjective([i \in 1..0 |-> i])
        BY DEF IsInjective
      <4> QED BY <4>1
    <3>3. f \in [1..0 -> {}]
      BY <3>1, <3>2 DEF SetToSeq
    <3> HIDE DEF f
    <3>4. f \in Seq(TellType)
      BY <3>3
    <3> QED BY <2>1, <3>4
  <2>2. ASSUME NEW x \in Applicants, next = {x}
        PROVE  f \in Seq(TellType) /\ Len(f) = 1 /\ f[1].who = x /\ f[1].promoted
    <3> DEFINE t == [who |-> x, promoted |-> TRUE]
    <3>1. t \in TellType /\ t.who = x /\ t.promoted
      BY DEF TellType
    <3>2. S = {t}
      BY <2>2
    <3> HIDE DEF t, S
    <3>3. Cardinality(S) = 1
      BY <3>2, FS_Singleton
    <3>4. \E g \in [1..1 -> {t}] : IsInjective(g)
      <4>1. [i \in 1..1 |-> t] \in [1..1 -> {t}] /\ IsInjective([i \in 1..1 |-> t])
        BY DEF IsInjective
      <4> QED BY <4>1
    <3>5. f \in [1..1 -> {t}]
      BY <3>2, <3>3, <3>4 DEF SetToSeq
    <3> HIDE DEF f
    <3>6. f[1] = t /\ f \in [1..1 -> TellType]
      <4>1. f[1] \in {t}
        BY <3>5
      <4>2. f[1] = t /\ f[1] \in TellType
        BY <3>1, <4>1
      <4>3. f = [i \in 1..1 |-> f[i]]
        BY <3>5
      <4>4. \A i \in 1..1 : f[i] \in TellType
        BY <4>2
      <4> QED BY <4>2, <4>3, <4>4
    <3>7. f \in Seq(TellType) /\ Len(f) = 1
      <4>1. ASSUME NEW n \in Nat, NEW g \in [1..n -> TellType]
            PROVE  g \in Seq(TellType) /\ Len(g) = n
        OBVIOUS
      <4>2. 1 \in Nat
        OBVIOUS
      <4> QED BY <3>6, <4>1, <4>2
    <3> QED BY <3>1, <3>6, <3>7
  <2> HIDE DEF f
  <2> QED BY <2>1, <2>2
<1> HIDE DEF s, f
<1>4. /\ T \in Seq(TellType) /\ Len(T) = 1 + Len(f)
      /\ \A i \in 1..Len(T) : T[i] = IF i <= 1 THEN s[i] ELSE f[i - 1]
  <2>1. s \in Seq(TellType) /\ f \in Seq(TellType) /\ Len(s) = 1
    BY <1>1, <1>3
  <2>2. /\ s \o f \in Seq(TellType) /\ Len(s \o f) = Len(s) + Len(f)
        /\ \A i \in 1..Len(s) + Len(f) : (s \o f)[i] = IF i <= Len(s) THEN s[i] ELSE f[i - Len(s)]
    BY <2>1, ConcatProperties
  <2> HIDE DEF T
  <2> QED BY <1>2, <2>1, <2>2
<1> HIDE DEF T
<1>5. Len(f) \in Nat
  BY <1>3
<1>6. 1 \in 1..Len(T) /\ T[1] = s[1] /\ T # <<>>
  <2>1. 1 \in 1..Len(T)
    BY <1>4, <1>5
  <2> QED BY <1>4, <2>1
<1>7. ASSUME NEW x \in next PROVE \E t \in Elems(T) : t.who = x /\ t.promoted
  <2>1. 2 \in 1..Len(T)
    BY <1>3, <1>4
  <2>2. T[2] = f[1]
    BY <1>4, <2>1
  <2> QED BY <1>3, <2>1, <2>2 DEF Elems
<1>8. \E t \in Elems(T) : t.who = a /\ ~t.promoted
  BY <1>1, <1>6 DEF Elems
<1> QED BY <1>4, <1>6, <1>7, <1>8 DEF T

\* A sequence without its first element.
LEMMA Rest ==
    ASSUME NEW S, NEW s \in Seq(S), s # <<>>
    PROVE  /\ Head(s) \in Elems(s) /\ Head(s) \in S /\ Tail(s) \in Seq(S)
           /\ Elems(s) = {Head(s)} \cup Elems(Tail(s))
           /\ Len(s) \in Nat \ {0} /\ (Tail(s) # <<>> <=> Len(s) > 1)
<1>1. /\ Head(s) \in S /\ Tail(s) \in Seq(S) /\ Len(Tail(s)) = Len(s) - 1
      /\ \A i \in 1..Len(Tail(s)) : Tail(s)[i] = s[i + 1]
  BY HeadTailProperties
<1>2. Head(s) = s[1] /\ Len(s) \in Nat \ {0}
  OBVIOUS
<1> DEFINE t == Tail(s)
<1>3. t = <<>> <=> Len(t) = 0
  <2>1. t \in Seq(S)
    BY <1>1
  <2> HIDE DEF t
  <2> QED BY <2>1
<1> HIDE DEF t
<1>4. Len(t) = Len(s) - 1 /\ \A i \in 1..Len(t) : t[i] = s[i + 1]
  BY <1>1 DEF t
<1>5. \A y \in Elems(t) : y \in Elems(s)
  BY <1>2, <1>4 DEF Elems
<1>6. \A y \in Elems(s) : y = s[1] \/ y \in Elems(t)
  <2> SUFFICES ASSUME NEW i \in 1..Len(s) PROVE s[i] = s[1] \/ s[i] \in Elems(t)
    BY DEF Elems
  <2>1. CASE i # 1
    <3>1. i - 1 \in 1..Len(t) /\ t[i - 1] = s[i]
      BY <1>2, <1>4, <2>1
    <3> QED BY <3>1 DEF Elems
  <2> QED BY <2>1
<1>7. s[1] \in Elems(s)
  BY <1>2 DEF Elems
<1> QED BY <1>1, <1>2, <1>3, <1>4, <1>5, <1>6, <1>7 DEF t

LEMMA IdleIs == Idle \in Reqs /\ Idle.at = "idle"
<1>1. <<>> \in Seq(Applicants) /\ <<>> \in Seq(TellType)
  OBVIOUS
<1>2. NoRow \in RowType
  BY DEF NoRow, Row, RowType, Statuses
<1> QED BY <1>1, <1>2 DEF Idle, Reqs, RowType, TellType, Statuses

\* What a request starts with.
LEMMA Reading ==
    ASSUME NEW who \in Seq(Applicants), NEW to \in Statuses
    PROVE  LET r == [Idle EXCEPT !.at = "read", !.who = who, !.to = to]
           IN  r \in Reqs /\ r.at = "read" /\ r.who = who /\ r.to = to
<1>1. ASSUME NEW i \in Reqs
      PROVE  LET r == [i EXCEPT !.at = "read", !.who = who, !.to = to]
             IN  r \in Reqs /\ r.at = "read" /\ r.who = who /\ r.to = to
  BY DEF Reqs
<1> QED BY <1>1, IdleIs

\* The request goes on with its next applicant, or is done.
LEMMA GoesOn ==
    ASSUME NEW r \in Reqs, \A a \in Elems(r.who) : Applied(a), r.who # <<>> => r.to \in DECIDABLE
    PROVE  LET s == Following(r)
           IN  /\ s \in Reqs /\ s.at \in {"idle", "read"}
               /\ s.at = "read" => /\ s.who # <<>> /\ s.to \in DECIDABLE
                                   /\ \A a \in Elems(s.who) : Applied(a)
<1>1. r.who \in Seq(Applicants) /\ Len(r.who) \in Nat /\ r.to \in Statuses
  BY DEF Reqs
<1>2. CASE Len(r.who) <= 1
  <2>1. Following(r) = Idle
    BY <1>2 DEF Following
  <2> QED BY <2>1, IdleIs
<1>3. CASE ~(Len(r.who) <= 1)
  <2>1. r.who # <<>>
    BY <1>1, <1>3
  <2>2. /\ Tail(r.who) \in Seq(Applicants) /\ Tail(r.who) # <<>>
        /\ Elems(Tail(r.who)) \subseteq Elems(r.who)
    BY <1>1, <1>3, <2>1, Rest
  <2> DEFINE s == [Idle EXCEPT !.at = "read", !.who = Tail(r.who), !.to = r.to]
  <2>3. s \in Reqs /\ s.at = "read" /\ s.who = Tail(r.who) /\ s.to = r.to
    <3> DEFINE w == Tail(r.who)  to == r.to
    <3>1. w \in Seq(Applicants) /\ to \in Statuses
      BY <1>1, <2>2
    <3> HIDE DEF w, to
    <3>2. LET e == [Idle EXCEPT !.at = "read", !.who = w, !.to = to]
          IN  e \in Reqs /\ e.at = "read" /\ e.who = w /\ e.to = to
      BY ONLY <3>1, Reading
    <3> QED BY <3>2 DEF w, to
  <2>4. Following(r) = s
    BY <1>3 DEF Following
  <2> HIDE DEF s
  <2> QED BY <2>1, <2>2, <2>3, <2>4
<1> QED BY <1>1, <1>2, <1>3

\* The queue with the element at k taken out.
LEMMA TakenOut ==
    ASSUME NEW s \in Seq(Applicants), NEW k \in 1..Len(s),
           \A i, j \in 1..Len(s) : s[i] = s[j] => i = j
    PROVE  LET t == RemoveAt(s, k)
           IN  /\ t \in Seq(Applicants)
               /\ \A i, j \in 1..Len(t) : t[i] = t[j] => i = j
               /\ Elems(t) = Elems(s) \ {s[k]}
<1> DEFINE u == SubSeq(s, 1, k - 1)
           v == SubSeq(s, k + 1, Len(s))
           t == u \o v
           n == Len(s)
<1>1. n \in Nat /\ k \in Nat /\ \A i \in 1..n : s[i] \in Applicants
  OBVIOUS
<1>2. u \in Seq(Applicants) /\ Len(u) = k - 1 /\ \A i \in 1..k - 1 : u[i] = s[i]
  <2>1. 1 \in Int /\ k - 1 \in Int /\ \A i \in 1..k - 1 : s[i] \in Applicants
    OBVIOUS
  <2>2. /\ u \in Seq(Applicants) /\ Len(u) = IF 1 <= k - 1 THEN k - 1 - 1 + 1 ELSE 0
        /\ \A i \in 1..k - 1 - 1 + 1 : u[i] = s[1 + i - 1]
    BY <2>1, SubSeqProperties
  <2> HIDE DEF u
  <2> QED BY <1>1, <2>2
<1>3. v \in Seq(Applicants) /\ Len(v) = n - k /\ \A i \in 1..n - k : v[i] = s[k + i]
  <2>1. k + 1 \in Int /\ n \in Int /\ \A i \in k + 1..n : s[i] \in Applicants
    BY <1>1
  <2>2. /\ v \in Seq(Applicants) /\ Len(v) = IF k + 1 <= n THEN n - (k + 1) + 1 ELSE 0
        /\ \A i \in 1..n - (k + 1) + 1 : v[i] = s[k + 1 + i - 1]
    BY <2>1, SubSeqProperties
  <2> HIDE DEF v
  <2> QED BY <1>1, <2>2
<1> HIDE DEF u, v
<1>4. /\ t \in Seq(Applicants) /\ Len(t) = n - 1
      /\ \A i \in 1..n - 1 : t[i] = IF i < k THEN s[i] ELSE s[i + 1]
  <2>1. /\ t \in Seq(Applicants) /\ Len(t) = Len(u) + Len(v)
        /\ \A i \in 1..Len(u) + Len(v) : t[i] = IF i <= Len(u) THEN u[i] ELSE v[i - Len(u)]
    <3>1. u \in Seq(Applicants) /\ v \in Seq(Applicants)
      BY <1>2, <1>3
    <3>2. /\ u \o v \in Seq(Applicants) /\ Len(u \o v) = Len(u) + Len(v)
          /\ \A i \in 1..Len(u) + Len(v) :
               (u \o v)[i] = IF i <= Len(u) THEN u[i] ELSE v[i - Len(u)]
      BY <3>1, ConcatProperties
    <3> QED BY <3>2
  <2> HIDE DEF t
  <2>2. Len(t) = n - 1
    BY <1>1, <1>2, <1>3, <2>1
  <2>3. ASSUME NEW i \in 1..n - 1 PROVE t[i] = IF i < k THEN s[i] ELSE s[i + 1]
    <3>1. t[i] = IF i <= k - 1 THEN u[i] ELSE v[i - (k - 1)]
      BY <1>1, <1>2, <1>3, <2>1
    <3>2. CASE i < k
      BY <1>1, <1>2, <3>1, <3>2
    <3>3. CASE ~(i < k)
      <4>1. i - (k - 1) \in 1..n - k /\ k + (i - (k - 1)) = i + 1
        BY <1>1, <3>3
      <4>2. v[i - (k - 1)] = s[i + 1]
        BY <1>3, <4>1
      <4> QED BY <1>1, <3>1, <3>3, <4>2
    <3> QED BY <3>2, <3>3
  <2> QED BY <2>1, <2>2, <2>3
<1>5. t = RemoveAt(s, k)
  BY DEF RemoveAt, u, v
<1> HIDE DEF t
<1>6. \A i, j \in 1..Len(t) : t[i] = t[j] => i = j
  <2> SUFFICES ASSUME NEW i \in 1..n - 1, NEW j \in 1..n - 1, t[i] = t[j] PROVE i = j
    BY <1>4
  <2>1. i \in 1..n /\ i + 1 \in 1..n /\ j \in 1..n /\ j + 1 \in 1..n
    BY <1>1
  <2> QED BY <1>1, <1>4, <2>1
<1>7. \A y \in Elems(t) : y \in Elems(s) \ {s[k]}
  <2> SUFFICES ASSUME NEW i \in 1..n - 1 PROVE t[i] \in Elems(s) /\ t[i] # s[k]
    BY <1>4 DEF Elems
  <2>1. i \in 1..n /\ i + 1 \in 1..n
    BY <1>1
  <2>2. PICK j \in 1..n : t[i] = s[j] /\ j # k
    BY <1>1, <1>4, <2>1
  <2> QED BY <2>2 DEF Elems
<1>8. \A y \in Elems(s) \ {s[k]} : y \in Elems(t)
  <2> SUFFICES ASSUME NEW i \in 1..n, i # k PROVE s[i] \in Elems(t)
    BY DEF Elems
  <2>1. CASE i < k
    <3>1. i \in 1..n - 1 /\ t[i] = s[i]
      BY <1>1, <1>4, <2>1
    <3> QED BY <1>4, <3>1 DEF Elems
  <2>2. CASE ~(i < k)
    <3>1. i - 1 \in 1..n - 1 /\ i - 1 + 1 = i /\ ~(i - 1 < k)
      BY <1>1, <2>2
    <3>2. t[i - 1] = s[i]
      BY <1>4, <3>1
    <3> QED BY <1>4, <3>1, <3>2 DEF Elems
  <2> QED BY <2>1, <2>2
<1> QED BY <1>4, <1>5, <1>6, <1>7, <1>8

\* Whoever submits goes to the end of the queue.
LEMMA QueueAfter ==
    ASSUME Type, Ranked(row), Queue, NEW p \in Requests, Submitted(p),
           NEW a \in Applicants, a = Head(req[p].who)
    PROVE  /\ queue' \in Seq(Applicants)
           /\ \A i, j \in 1..Len(queue') : queue'[i] = queue'[j] => i = j
           /\ Elems(queue)' = Elems(queue) \cup {a}
<1> DEFINE q == IF row[a] = NoRow THEN queue ELSE RemoveAt(queue, Position(a))
<1> PICK new : new = Append(q, a)
  OBVIOUS
<1>0. queue' = new
  BY DEF Submitted
<1>1. /\ queue \in Seq(Applicants) /\ Len(queue) \in Nat
      /\ \A i, j \in 1..Len(queue) : queue[i] = queue[j] => i = j
      /\ a \in Elems(queue) <=> Applied(a)
  BY DEF Queue
<1>2. row[a] = NoRow <=> ~Applied(a)
  <2>1. row[a] \in RowType /\ (row[a].rank # 0 <=> row[a].status = "Waitlisted")
    BY DEF Type, RowsType, Ranked
  <2>2. ASSUME NEW r \in RowType, r.rank # 0 <=> r.status = "Waitlisted"
        PROVE  r = NoRow <=> r.status = "None"
    BY <2>2 DEF RowType, NoRow, Row
  <2> QED BY <2>1, <2>2 DEF Applied
<1>3. /\ q \in Seq(Applicants) /\ \A i, j \in 1..Len(q) : q[i] = q[j] => i = j
      /\ Elems(q) = Elems(queue) \ {a}
  <2>1. CASE row[a] = NoRow
    BY <1>1, <1>2, <2>1
  <2>2. CASE row[a] # NoRow
    <3>1. \E i \in DOMAIN queue : queue[i] = a
      BY <1>1, <1>2, <2>2 DEF Elems
    <3>2. Position(a) \in 1..Len(queue) /\ queue[Position(a)] = a
      BY <1>1, <3>1 DEF Position
    <3> QED BY <1>1, <2>2, <3>2, TakenOut
  <2> QED BY <2>1, <2>2
<1> HIDE DEF q
<1>4. /\ new \in Seq(Applicants) /\ Len(new) = Len(q) + 1 /\ Len(q) \in Nat
      /\ \A i \in 1..Len(q) : new[i] = q[i]
      /\ new[Len(q) + 1] = a
  BY <1>3, AppendProperties
<1>5. \A i \in 1..Len(q) : q[i] # a
  BY <1>3 DEF Elems
<1>6. \A i \in 1..Len(new) : i \in 1..Len(q) \/ i = Len(q) + 1
  BY <1>4
<1>7. \A i, j \in 1..Len(new) : new[i] = new[j] => i = j
  BY <1>3, <1>4, <1>5, <1>6
<1>8. Elems(new) = Elems(q) \cup {a}
  <2>1. \A y \in Elems(new) : y \in Elems(q) \cup {a}
    BY <1>4, <1>6 DEF Elems
  <2>2. \A i \in 1..Len(q) : i \in 1..Len(new)
    BY <1>4
  <2>3. \A y \in Elems(q) : y \in Elems(new)
    BY <1>4, <2>2 DEF Elems
  <2>4. a \in Elems(new)
    BY <1>4 DEF Elems
  <2> QED BY <2>1, <2>3, <2>4
<1>9. Elems(new) = Elems(queue) \cup {a}
  BY <1>3, <1>8
<1>10. Elems(queue)' = Elems(new)
  BY <1>0 DEF Elems
<1> QED BY <1>0, <1>4, <1>7, <1>9, <1>10

-----------------------------------------------------------------------------
(***************************************************************************)
(* Every action keeps the invariant.                                       *)
(***************************************************************************)
\* A step of p's request that tells nobody: what is left to be shown.
LEMMA Kept ==
    ASSUME IInv, NEW p \in Requests, NEW r, req' = [req EXCEPT ![p] = r], req[p].at # "tell",
           Type', Ranked(row)', Bounded', Queue', Asked(p)', Lined',
           \A x \in Applicants : Applied(x) => Applied(x)',
           told' = told, untold' = untold,
           \A x \in Applicants : \/ row'[x].status = row[x].status
                                 \/ row'[x].status = "Submitted"
                                 \/ Telling(x)'
    PROVE  IInv'
<1>1. req'[p] = r /\ \A q \in Requests \ {p} : req'[q] = req[q]
  BY DEF IInv, Type
<1>2. ASSUME NEW q \in Requests PROVE Asked(q)'
  <2>1. CASE q # p
    <3>1. Asked(q)
      BY DEF IInv
    <3>2. req'[q] = req[q] /\ req[q] \in Reqs
      BY <1>1, <2>1 DEF IInv, Type
    <3>3. \A x \in Elems(req[q].who) : x \in Applicants
      BY <3>2 DEF Reqs, Elems
    <3> QED BY <3>1, <3>2, <3>3 DEF Asked
  <2> QED BY <2>1
<1>3. Informed'
  <2> SUFFICES ASSUME NEW x \in Applicants \ untold
               PROVE  row'[x].status \in {"None", "Submitted"} \cup told[x] \/ Telling(x)'
    BY DEF Informed
  <2>1. row[x].status \in {"None", "Submitted"} \cup told[x] \/ Telling(x)
    BY DEF IInv, Informed
  <2>2. CASE Telling(x) /\ row'[x].status = row[x].status
    <3>1. PICK q \in Requests :
             /\ req[q].at = "tell"
             /\ \E t \in Elems(req[q].tell) :
                  t.who = x /\ (t.promoted => row[x].status = "Approved")
      BY <2>2 DEF Telling
    <3>2. req'[q] = req[q]
      BY <1>1, <3>1
    <3>3. Telling(x)'
      BY <2>2, <3>1, <3>2 DEF Telling
    <3> QED BY <3>3
  <2> QED BY <2>1, <2>2
<1> QED BY <1>2, <1>3 DEF IInv

\* A step that changes p's request alone.
LEMMA Alone ==
    ASSUME IInv, NEW p \in Requests, NEW r \in Reqs, req' = [req EXCEPT ![p] = r],
           req[p].at # "tell", asked' \in 0..MaxAsked, Asked(p)',
           UNCHANGED <<row, queue, capacity, requiresReview, changes, told, raced, untold>>
    PROVE  IInv'
<1>1. Type'
  BY DEF IInv, Type
<1>2. Ranked(row)' /\ Bounded' /\ Queue' /\ Lined'
  BY DEF IInv, Ranked, Bounded, Queue, Applied, Lined
<1>3. \A x \in Applicants : Applied(x) => Applied(x)'
  BY DEF Applied
<1> QED BY <1>1, <1>2, <1>3, Kept

LEMMA AskedCount ==
    ASSUME IInv, asked < MaxAsked, asked' = asked + 1
    PROVE  asked' \in 0..MaxAsked
BY EnrollmentAssumption DEF IInv, Type

LEMMA SubmitKeeps ==
    ASSUME IInv, NEW p \in Requests, NEW a \in Applicants, Submit(p, a)
    PROVE  IInv'
<1> DEFINE who == <<a>>
           was == row[a]
<1>0. who \in Seq(Applicants) /\ who # <<>> /\ \A x \in Elems(who) : x = a
  BY DEF Elems
<1> DEFINE r == [Idle EXCEPT !.at = "submit", !.who = who, !.was = was,
                             !.cap = capacity, !.review = requiresReview]
<1>1. /\ row[a] \in RowType /\ capacity \in Capacities /\ requiresReview \in BOOLEAN
      /\ row[a].rank # 0 <=> row[a].status = "Waitlisted"
  BY DEF IInv, Type, RowsType, Ranked
<1>2. /\ r \in Reqs /\ r.at = "submit" /\ r.who = who /\ r.was = was /\ r.cap = capacity
  <2>1. who \in Seq(Applicants) /\ was \in RowType
    BY <1>0, <1>1
  <2> HIDE DEF who, was
  <2>2. ASSUME NEW i \in Reqs
        PROVE  LET e == [i EXCEPT !.at = "submit", !.who = who, !.was = was,
                                  !.cap = capacity, !.review = requiresReview]
               IN  e \in Reqs /\ e.at = "submit" /\ e.who = who /\ e.was = was /\ e.cap = capacity
    BY <1>1, <2>1 DEF Reqs, RowType
  <2> QED BY <2>2, IdleIs
<1> HIDE DEF who
<1>3. Ask(p, r) /\ row[a].status \in {"None", "Submitted", "Withdrawn"}
  BY DEF Submit, who
<1> HIDE DEF r
<1>4. req'[p] = r
  BY <1>3 DEF Ask, IInv, Type
<1>5. r.who # <<>>
  BY <1>0, <1>2
<1>6. Asked(p)'
  <2> DEFINE R == req'[p]
  <2>1. R = r /\ R.at = "submit" /\ R.who # <<>> /\ R.was = row[a] /\ R.cap \in Capacities
    BY <1>1, <1>2, <1>4, <1>5
  <2>2. /\ R.was.status \in {"None", "Submitted", "Withdrawn"}
        /\ R.was.rank # 0 <=> R.was.status = "Waitlisted"
    BY <1>1, <1>3, <2>1
  <2> QED BY <2>1, <2>2 DEF Asked
<1>7. asked' \in 0..MaxAsked
  BY <1>3, AskedCount DEF Ask
<1> QED BY <1>2, <1>3, <1>6, <1>7, Alone DEF Ask

LEMMA DecideOneKeeps ==
    ASSUME IInv, NEW p \in Requests, NEW a \in Applicants, NEW to \in DECIDABLE, DecideOne(p, a, to)
    PROVE  IInv'
<1> DEFINE who == <<a>>
           was == row[a]
<1>0. who \in Seq(Applicants) /\ who # <<>> /\ \A x \in Elems(who) : x = a
  BY DEF Elems
<1> DEFINE r == [Idle EXCEPT !.at = "decide", !.who = who, !.to = to, !.was = was,
                             !.cap = capacity]
<1>1. /\ row[a] \in RowType /\ capacity \in Capacities /\ to \in Statuses
      /\ row[a].rank # 0 <=> row[a].status = "Waitlisted"
  BY DEF IInv, Type, RowsType, Ranked, Statuses
<1>2. /\ r \in Reqs /\ r.at = "decide" /\ r.who = who /\ r.to = to /\ r.was = was
      /\ r.cap = capacity
  <2>1. who \in Seq(Applicants) /\ was \in RowType
    BY <1>0, <1>1
  <2> HIDE DEF who, was
  <2>2. ASSUME NEW i \in Reqs
        PROVE  LET e == [i EXCEPT !.at = "decide", !.who = who, !.to = to, !.was = was,
                                  !.cap = capacity]
               IN  /\ e \in Reqs /\ e.at = "decide" /\ e.who = who /\ e.to = to
                   /\ e.was = was /\ e.cap = capacity
    BY <1>1, <2>1 DEF Reqs, RowType
  <2> QED BY <2>2, IdleIs
<1> HIDE DEF who
<1>3. Ask(p, r) /\ row[a].status \notin {"None", to}
  BY DEF DecideOne, who
<1> HIDE DEF r
<1>4. req'[p] = r /\ row' = row
  BY <1>3 DEF Ask, IInv, Type
<1>5. who # <<>> /\ \A x \in Elems(who) : Applied(x)'
  BY <1>0, <1>3, <1>4 DEF Elems, Applied
<1>6. Asked(p)'
  BY <1>1, <1>2, <1>3, <1>4, <1>5 DEF Asked
<1>7. asked' \in 0..MaxAsked
  BY <1>3, AskedCount DEF Ask
<1> QED BY <1>2, <1>3, <1>6, <1>7, Alone DEF Ask

\* A withdrawal and approveAllPending start by reading the first application.
LEMMA AskRead ==
    ASSUME IInv, NEW p \in Requests, NEW who \in Seq(Applicants), who # <<>>, NEW to \in DECIDABLE,
           \A x \in Elems(who) : Applied(x),
           Ask(p, [Idle EXCEPT !.at = "read", !.who = who, !.to = to])
    PROVE  IInv'
<1> DEFINE r == [Idle EXCEPT !.at = "read", !.who = who, !.to = to]
<1>1. r \in Reqs /\ r.at = "read" /\ r.who = who /\ r.to = to
  BY Reading DEF Statuses
<1> HIDE DEF r
<1>2. Ask(p, r)
  BY DEF r
<1>3. req'[p] = r /\ row' = row
  BY <1>2 DEF Ask, IInv, Type
<1>4. Asked(p)'
  BY <1>1, <1>3 DEF Asked, Applied
<1>5. asked' \in 0..MaxAsked
  BY <1>2, AskedCount DEF Ask
<1> QED BY <1>1, <1>2, <1>4, <1>5, Alone DEF Ask

LEMMA WithdrawKeeps ==
    ASSUME IInv, NEW p \in Requests, NEW a \in Applicants, Withdraw(p, a)
    PROVE  IInv'
<1>1. "Withdrawn" \in DECIDABLE /\ <<a>> \in Seq(Applicants) /\ <<a>> # <<>>
  BY DEF DECIDABLE
<1>2. \A x \in Elems(<<a>>) : Applied(x)
  BY DEF Withdraw, Elems, Applied
<1> QED BY <1>1, <1>2, AskRead DEF Withdraw

LEMMA ApproveAllKeeps ==
    ASSUME IInv, NEW p \in Requests, approveAllPending(p)
    PROVE  IInv'
<1> DEFINE S == With(row, "Submitted")
<1>1. PICK pending \in SetToSeqs(S) \ {<<>>} :
        Ask(p, [Idle EXCEPT !.at = "read", !.who = pending, !.to = "Approved"])
  BY DEF approveAllPending
<1>2. S \in SUBSET Applicants /\ \A x \in S : Applied(x)
  BY DEF With, Applied
<1>3. Cardinality(S) \in Nat
  BY <1>2, EnrollmentAssumption, FS_Subset, FS_CardinalityType
<1>4. pending \in [1..Cardinality(S) -> S]
  BY <1>1 DEF SetToSeqs
<1> HIDE DEF S
<1>5. pending \in Seq(Applicants) /\ Len(pending) = Cardinality(S)
  BY <1>2, <1>3, <1>4
<1>6. \A x \in Elems(pending) : Applied(x)
  BY <1>2, <1>4, <1>5 DEF Elems
<1>7. "Approved" \in DECIDABLE
  BY DEF DECIDABLE
<1> QED BY <1>1, <1>5, <1>6, <1>7, AskRead

\* A request is over.
LEMMA OverKeeps ==
    ASSUME IInv, NEW p \in Requests, req[p].at # "tell", Becomes(p, Idle),
           UNCHANGED <<row, queue, capacity, requiresReview, asked, changes, told, raced, untold>>
    PROVE  IInv'
<1>1. req' = [req EXCEPT ![p] = Idle]
  BY DEF Becomes
<1>2. req'[p] = Idle
  BY <1>1 DEF IInv, Type
<1>3. Asked(p)'
  BY <1>2, IdleIs DEF Asked
<1>4. asked' \in 0..MaxAsked
  BY DEF IInv, Type
<1> QED BY <1>1, <1>3, <1>4, IdleIs, Alone

LEMMA ReadKeeps ==
    ASSUME IInv, NEW p \in Requests, ReadApplication(p)
    PROVE  IInv'
<1> DEFINE a == Head(req[p].who)
           s == [req[p] EXCEPT !.at = "decide", !.was = row[a], !.cap = capacity]
           r == IF row[a].status = req[p].to THEN Following(req[p]) ELSE s
<1>1. /\ req[p].at = "read" /\ req' = [req EXCEPT ![p] = r]
      /\ UNCHANGED <<row, queue, capacity, requiresReview, asked, changes, told, raced, untold>>
  BY DEF ReadApplication, Becomes
<1>2. /\ req[p] \in Reqs /\ req[p].who \in Seq(Applicants) /\ req[p].who # <<>>
      /\ req[p].to \in DECIDABLE /\ \A x \in Elems(req[p].who) : Applied(x)
  BY <1>1 DEF IInv, Type, Asked, Reqs
<1>3. a \in Applicants /\ Applied(a)
  BY <1>2, Rest
<1> HIDE DEF a
<1>4. /\ row[a] \in RowType /\ capacity \in Capacities
      /\ row[a].rank # 0 <=> row[a].status = "Waitlisted"
  BY <1>3 DEF IInv, Type, RowsType, Ranked
<1>5. asked' \in 0..MaxAsked
  BY <1>1 DEF IInv, Type
<1>6. CASE row[a].status = req[p].to
  <2> DEFINE f == Following(req[p])
  <2>1. /\ f \in Reqs /\ f.at \in {"idle", "read"}
        /\ f.at = "read" => /\ f.who # <<>> /\ f.to \in DECIDABLE
                            /\ \A x \in Elems(f.who) : Applied(x)
    BY <1>2, GoesOn
  <2> HIDE DEF f
  <2>2. req' = [req EXCEPT ![p] = f] /\ req'[p] = f
    BY <1>1, <1>6 DEF f, IInv, Type
  <2>3. Asked(p)'
    BY <1>1, <2>1, <2>2 DEF Asked, Applied
  <2> QED BY <1>1, <1>5, <2>1, <2>2, <2>3, Alone
<1>7. CASE row[a].status # req[p].to
  <2>1. /\ s \in Reqs /\ s.at = "decide" /\ s.was = row[a] /\ s.cap = capacity
        /\ s.who = req[p].who /\ s.to = req[p].to
    <3>1. ASSUME NEW i \in Reqs
          PROVE  LET t == [i EXCEPT !.at = "decide", !.was = row[a], !.cap = capacity]
                 IN  /\ t \in Reqs /\ t.at = "decide" /\ t.was = row[a] /\ t.cap = capacity
                     /\ t.who = i.who /\ t.to = i.to
      BY <1>4 DEF Reqs, RowType
    <3> QED BY <1>2, <3>1
  <2> HIDE DEF s
  <2>2. req' = [req EXCEPT ![p] = s] /\ req'[p] = s
    BY <1>1, <1>7 DEF IInv, Type
  <2>3. row[a].status # "None"
    BY <1>3 DEF Applied
  <2>4. Asked(p)'
    BY <1>1, <1>2, <1>4, <1>7, <2>1, <2>2, <2>3 DEF Asked, Applied
  <2> QED BY <1>1, <1>5, <2>1, <2>2, <2>4, Alone
<1> QED BY <1>6, <1>7

\* Other requests stay as they are where the applications do.
LEMMA AskedElsewhere ==
    ASSUME IInv, NEW p \in Requests, NEW r, req' = [req EXCEPT ![p] = r], row' = row, Asked(p)'
    PROVE  \A q \in Requests : Asked(q)'
<1> SUFFICES ASSUME NEW q \in Requests, q # p PROVE Asked(q)'
  OBVIOUS
<1>1. req'[q] = req[q] /\ Asked(q)
  BY DEF IInv, Type
<1> QED BY <1>1 DEF Asked, Applied

LEMMA TellsTyped == Type => \A q \in Requests : Elems(req[q].tell) \subseteq TellType
<1> SUFFICES ASSUME Type, NEW q \in Requests PROVE Elems(req[q].tell) \subseteq TellType
  OBVIOUS
<1>1. req[q].tell \in Seq(TellType)
  BY DEF Type, Reqs, TellType
<1>2. ASSUME NEW s \in Seq(TellType) PROVE Elems(s) \subseteq TellType
  BY DEF Elems
<1> QED BY <1>1, <1>2

\* What is mailed is the outcome the applicant has, unless they were promoted
\* and have lost the seat since; then another mail is on its way.
LEMMA TellKeeps ==
    ASSUME IInv, NEW p \in Requests, Tell(p)
    PROVE  IInv'
<1> DEFINE r == req[p]
           t == Head(r.tell)
           news == IF t.promoted THEN "Approved" ELSE row[t.who].status
           more == IF row[t.who].status = "Submitted" THEN {} ELSE {news}
           s == [r EXCEPT !.tell = Tail(r.tell)]
           f == Following(r)
           next == IF Len(r.tell) > 1 THEN s ELSE f
<1>1. /\ r.at = "tell" /\ told' = [told EXCEPT ![t.who] = @ \cup more]
      /\ req' = [req EXCEPT ![p] = next]
      /\ UNCHANGED <<row, queue, capacity, requiresReview, asked, changes, raced, untold>>
  <2>1. [r EXCEPT !.tell = Tail(@)] = s
    OBVIOUS
  <2> QED BY <2>1 DEF Tell, Becomes
<1>2. /\ r \in Reqs /\ r.tell \in Seq(TellType) /\ r.tell # <<>>
      /\ r.who # <<>> => r.to \in DECIDABLE
      /\ \A x \in Elems(r.who) : Applied(x)
  BY <1>1 DEF IInv, Type, Asked, Reqs, TellType
<1>3. /\ t \in TellType /\ t \in Elems(r.tell) /\ Tail(r.tell) \in Seq(TellType)
      /\ Elems(r.tell) = {t} \cup Elems(Tail(r.tell))
      /\ Tail(r.tell) # <<>> <=> Len(r.tell) > 1
  BY <1>2, Rest
<1>4. /\ s \in Reqs /\ s.at = "tell" /\ s.tell = Tail(r.tell) /\ s.who = r.who /\ s.to = r.to
  <2>1. ASSUME NEW i \in Reqs, NEW u \in Seq(TellType)
        PROVE  LET e == [i EXCEPT !.tell = u]
               IN  e \in Reqs /\ e.at = i.at /\ e.tell = u /\ e.who = i.who /\ e.to = i.to
    BY DEF Reqs, TellType
  <2> QED BY <1>1, <1>2, <1>3, <2>1
<1>5. /\ f \in Reqs /\ f.at \in {"idle", "read"}
      /\ f.at = "read" => /\ f.who # <<>> /\ f.to \in DECIDABLE
                          /\ \A a \in Elems(f.who) : Applied(a)
  BY <1>2, GoesOn
<1>6. next \in Reqs /\ req'[p] = next /\ \A q \in Requests \ {p} : req'[q] = req[q]
  BY <1>1, <1>4, <1>5 DEF IInv, Type
<1> HIDE DEF s, f
<1>7. Asked(p)'
  <2>1. CASE Len(r.tell) > 1
    <3>1. req'[p] = s
      BY <1>6, <2>1
    <3> QED BY <1>1, <1>2, <1>3, <1>4, <2>1, <3>1 DEF Asked, Applied
  <2>2. CASE ~(Len(r.tell) > 1)
    <3>1. req'[p] = f
      BY <1>6, <2>2
    <3> QED BY <1>1, <1>5, <3>1 DEF Asked, Applied
  <2> QED BY <2>1, <2>2
<1>8. \A q \in Requests : Asked(q)'
  BY <1>1, <1>7, AskedElsewhere
<1>9. t.who \in Applicants /\ news \in Statuses /\ row[t.who] \in RowType
  BY <1>3 DEF TellType, Statuses, DECIDABLE, IInv, Type, RowsType, RowType
<1>10. Type'
  <2>1. more \in SUBSET Statuses
    BY <1>9
  <2> HIDE DEF more, next, news, t
  <2>2. told' \in [Applicants -> SUBSET Statuses] /\ req' \in [Requests -> Reqs]
    BY <1>1, <1>6, <1>9, <2>1 DEF IInv, Type
  <2> QED BY <1>1, <2>2 DEF IInv, Type
<1>11. Ranked(row)' /\ Bounded' /\ Queue' /\ Lined'
  BY <1>1 DEF IInv, Ranked, Bounded, Queue, Applied, Lined
<1>12. told'[t.who] = told[t.who] \cup more /\ \A x \in Applicants \ {t.who} : told'[x] = told[x]
  <2> HIDE DEF t, more
  <2> QED BY <1>1, <1>9 DEF IInv, Type
<1>13. Informed'
  <2> SUFFICES ASSUME NEW x \in Applicants \ untold
               PROVE  row[x].status \in {"None", "Submitted"} \cup told'[x] \/ Telling(x)'
    BY <1>1 DEF Informed
  <2>1. row[x].status \in {"None", "Submitted"} \cup told[x] \/ Telling(x)
    BY DEF IInv, Informed
  <2>2. CASE row[x].status \in {"None", "Submitted"} \cup told[x]
    BY <1>12, <2>2
  <2>3. CASE Telling(x) /\ row[x].status \notin {"None", "Submitted"}
    <3>1. PICK q \in Requests, m \in TellType :
             /\ req[q].at = "tell" /\ m \in Elems(req[q].tell)
             /\ m.who = x /\ (m.promoted => row[x].status = "Approved")
      BY <2>3, TellsTyped DEF Telling, IInv
    <3>2. CASE q # p
      <4>1. req'[q] = req[q]
        BY <1>6, <3>2
      <4> QED BY <1>1, <3>1, <4>1 DEF Telling
    <3>3. CASE q = p /\ m = t
      <4>1. row[x].status = news /\ t.who = x
        BY <3>1, <3>3
      <4>2. row[x].status \in more
        BY <2>3, <4>1
      <4> QED BY <1>12, <4>1, <4>2
    <3>4. CASE q = p /\ m # t
      <4>1. m \in Elems(Tail(r.tell))
        BY <1>3, <3>1, <3>4
      <4>2. Tail(r.tell) # <<>>
        <5>1. ASSUME NEW u \in Seq(TellType), u = <<>> PROVE m \notin Elems(u)
          <6>1. Len(u) = 0
            BY <5>1
          <6> QED BY <6>1 DEF Elems
        <5> QED BY <1>3, <4>1, <5>1
      <4>3. req'[p] = s
        BY <1>3, <1>6, <4>2
      <4> QED BY <1>1, <1>4, <3>1, <4>1, <4>3 DEF Telling
    <3> QED BY <3>2, <3>3, <3>4
  <2> QED BY <2>1, <2>2, <2>3
<1> QED BY <1>8, <1>10, <1>11, <1>13 DEF IInv

LEMMA DieKeeps ==
    ASSUME IInv, NEW p \in Requests, Die(p)
    PROVE  IInv'
<1> DEFINE lost == {t.who : t \in ToSet(req[p].tell)}
<1>1. /\ req' = [req EXCEPT ![p] = Idle] /\ untold' = untold \cup lost /\ req[p].at = "tell"
      /\ UNCHANGED <<row, queue, capacity, requiresReview, asked, changes, told, raced>>
  BY DEF Die, Becomes
<1>2. req'[p] = Idle /\ \A q \in Requests \ {p} : req'[q] = req[q]
  BY <1>1 DEF IInv, Type
<1>3. req[p].tell \in Seq(TellType)
  BY DEF IInv, Type, Reqs, TellType
<1>4. lost = {t.who : t \in Elems(req[p].tell)} /\ lost \in SUBSET Applicants
  <2>1. DOMAIN req[p].tell = 1..Len(req[p].tell)
    BY <1>3
  <2>2. ToSet(req[p].tell) = Elems(req[p].tell)
    BY <2>1 DEF ToSet, Elems
  <2>3. \A t \in Elems(req[p].tell) : t.who \in Applicants
    BY TellsTyped DEF IInv, TellType
  <2> QED BY <2>2, <2>3
<1> HIDE DEF lost
<1>5. \A q \in Requests : Asked(q)'
  <2>1. Asked(p)'
    BY <1>2, IdleIs DEF Asked
  <2> QED BY <1>1, <2>1, AskedElsewhere
<1>6. Type'
  BY <1>1, <1>4, IdleIs DEF IInv, Type
<1>7. Ranked(row)' /\ Bounded' /\ Queue' /\ Lined'
  BY <1>1 DEF IInv, Ranked, Bounded, Queue, Applied, Lined
<1>8. Informed'
  <2> SUFFICES ASSUME NEW x \in Applicants, x \notin untold, x \notin lost
               PROVE  row[x].status \in {"None", "Submitted"} \cup told[x] \/ Telling(x)'
    BY <1>1 DEF Informed
  <2>1. row[x].status \in {"None", "Submitted"} \cup told[x] \/ Telling(x)
    BY DEF IInv, Informed
  <2>2. CASE Telling(x)
    <3>1. PICK q \in Requests, m \in TellType :
             /\ req[q].at = "tell" /\ m \in Elems(req[q].tell)
             /\ m.who = x /\ (m.promoted => row[x].status = "Approved")
      BY <2>2, TellsTyped DEF Telling, IInv
    <3>2. q # p
      BY <1>4, <3>1
    <3>3. req'[q] = req[q]
      BY <1>2, <3>2
    <3> QED BY <1>1, <3>1, <3>3 DEF Telling
  <2> QED BY <2>1, <2>2
<1> QED BY <1>5, <1>6, <1>7, <1>8 DEF IInv

LEMMA UpdateKeeps ==
    ASSUME IInv, NEW c \in Capacities, NEW v \in BOOLEAN, UpdateOffering(c, v)
    PROVE  IInv'
<1>1. /\ capacity' \in Capacities /\ requiresReview' \in BOOLEAN /\ changes' \in 0..MaxChanges
      /\ UNCHANGED <<row, queue, req, asked, told, raced, untold>>
  BY EnrollmentAssumption DEF UpdateOffering, IInv, Type
<1>2. Type'
  BY <1>1 DEF IInv, Type
<1>3. Ranked(row)' /\ Bounded' /\ Queue' /\ Lined' /\ Informed'
  BY <1>1 DEF IInv, Ranked, Bounded, Queue, Applied, Lined, Informed, Telling
<1>4. \A q \in Requests : Asked(q)'
  BY <1>1 DEF IInv, Asked, Applied
<1> QED BY <1>2, <1>3, <1>4 DEF IInv

\* A move exchanges the ranks of two of those waiting.
LEMMA MoveKeeps ==
    ASSUME IInv, NEW a \in Applicants, NEW d \in {"up", "down"}, moveWaitlistEntry(a, d)
    PROVE  IInv'
<1>1. PICK b \in Neighbours(a, d) :
         row' = [row EXCEPT ![a].rank = row[b].rank, ![b].rank = row[a].rank]
  BY DEF moveWaitlistEntry
<1>2. /\ row[a].status = "Waitlisted" /\ changes' \in 0..MaxChanges
      /\ UNCHANGED <<queue, capacity, requiresReview, req, asked, told, raced, untold>>
  BY EnrollmentAssumption DEF moveWaitlistEntry, IInv, Type
<1>3. /\ row[a] \in RowType /\ row[a].rank \in Nat /\ row[a].rank # 0
      /\ \A x \in Applicants : row[x] \in RowType /\ row[x].rank \in Nat
  BY <1>2 DEF IInv, Type, RowsType, RowType, Ranked
<1>4. /\ b \in Applicants /\ row[b].status = "Waitlisted" /\ row[a].rank # row[b].rank
      /\ row[b].rank # 0
  <2>1. /\ b \in With(row, "Waitlisted")
        /\ IF d = "up" THEN row[b].rank < row[a].rank ELSE row[b].rank > row[a].rank
    BY DEF Neighbours
  <2>2. b \in Applicants /\ row[b].status = "Waitlisted"
    BY <2>1 DEF With
  <2> QED BY <1>3, <2>1, <2>2 DEF IInv, Ranked
<1>5. a # b
  BY <1>4
<1>6. /\ row' \in RowsType
      /\ row'[a].rank = row[b].rank /\ row'[b].rank = row[a].rank
      /\ \A x \in Applicants : row'[x].status = row[x].status
      /\ \A x \in Applicants \ {a, b} : row'[x] = row[x]
  <2>1. ASSUME NEW r \in RowType, NEW k \in Nat
        PROVE  LET s == [r EXCEPT !.rank = k]
               IN  s \in RowType /\ s.status = r.status /\ s.rank = k
    BY DEF RowType
  <2>2. /\ row'[a] = [row[a] EXCEPT !.rank = row[b].rank]
        /\ row'[b] = [row[b] EXCEPT !.rank = row[a].rank]
        /\ \A x \in Applicants \ {a, b} : row'[x] = row[x]
        /\ row' = [x \in Applicants |-> row'[x]]
    BY <1>1, <1>4, <1>5 DEF IInv, Type, RowsType
  <2>3. /\ row'[a] \in RowType /\ row'[a].status = row[a].status /\ row'[a].rank = row[b].rank
        /\ row'[b] \in RowType /\ row'[b].status = row[b].status /\ row'[b].rank = row[a].rank
    BY <1>3, <1>4, <2>1, <2>2
  <2>4. \A x \in Applicants : row'[x] \in RowType
    BY <1>3, <2>2, <2>3
  <2> QED BY <2>2, <2>3, <2>4 DEF RowsType
<1>7. Type'
  BY <1>2, <1>6 DEF IInv, Type
<1>8. Ranked(row)'
  <2>1. \A x \in Applicants : row'[x].rank # 0 <=> row[x].rank # 0
    BY <1>3, <1>4, <1>6
  <2> QED BY <1>6, <2>1 DEF IInv, Ranked
<1>9. Bounded'
  <2>1. PICK n \in Nat : \A x \in Applicants : row[x].rank <= n
    BY DEF IInv, Bounded
  <2>2. \A x \in Applicants : row'[x].rank <= n
    BY <1>3, <1>4, <1>6, <2>1
  <2> QED BY <2>2 DEF Bounded
<1>10. Lined'
  <2>1. ASSUME ~raced PROVE \E n \in Nat : Numbered(row', n)
    <3>1. PICK n \in Nat : Numbered(row, n)
      BY <2>1 DEF IInv, Lined
    <3>2. Numbered(row', n)
      BY <1>2, <1>4, <1>5, <1>6, <3>1, NumberedSwap
    <3> QED BY <3>2
  <2> QED BY <1>2, <2>1 DEF Lined
<1>11. Queue' /\ Informed' /\ \A q \in Requests : Asked(q)'
  <2>1. \A x \in Applicants : Applied(x)' <=> Applied(x)
    BY <1>6 DEF Applied
  <2>2. Queue'
    BY <1>2, <2>1 DEF IInv, Queue
  <2>3. Informed'
    BY <1>2, <1>6 DEF IInv, Informed, Telling
  <2>4. ASSUME NEW q \in Requests PROVE Asked(q)'
    <3>1. Asked(q) /\ \A x \in Elems(req[q].who) : x \in Applicants
      BY DEF IInv, Type, Reqs, Elems
    <3> QED BY <1>2, <2>1, <3>1 DEF Asked
  <2> QED BY <2>2, <2>3, <2>4
<1> QED BY <1>7, <1>8, <1>9, <1>10, <1>11 DEF IInv

\* What a submit writes: the applicant's row, and their place in the queue.
LEMMA SubmitWrites ==
    ASSUME IInv, NEW p \in Requests, Submitted(p), NEW a, a = Head(req[p].who)
    PROVE  /\ a \in Applicants /\ req[p] \in Reqs /\ req[p].at = "submit"
           /\ req[p].cap \in Capacities /\ req[p].cap \in Nat
           /\ req[p].was.status \in {"None", "Submitted", "Withdrawn"}
           /\ row' \in RowsType /\ Ranked(row')
           /\ \A x \in Applicants \ {a} : row'[x] = row[x]
           /\ \/ row'[a].status = "Submitted" /\ row'[a].rank = 0
              \/ row'[a].status = "Approved" /\ row'[a].rank = 0 /\ approvedCount(row) < req[p].cap
              \/ row'[a] = Row("Waitlisted", nextWaitlistRank(row))
           /\ \E r \in Reqs :
                /\ req' = [req EXCEPT ![p] = r] /\ r.who = <<>>
                /\ \/ r.at = "idle" /\ row'[a].status = "Submitted"
                   \/ /\ r.at = "tell" /\ r.tell # <<>>
                      /\ \E t \in Elems(r.tell) : t.who = a /\ ~t.promoted
<1> DEFINE o == Outcome(req[p])
<1>1. /\ req[p] \in Reqs /\ req[p].at = "submit" /\ req[p].who \in Seq(Applicants)
      /\ req[p].who # <<>> /\ req[p].cap \in Capacities
      /\ req[p].was.status \in {"None", "Submitted", "Withdrawn"}
  BY DEF Submitted, IInv, Type, Asked, Reqs
<1>2. a \in Applicants
  BY <1>1, Rest
<1>3. \E s \in Statuses, k \in Nat :
        /\ o = Row(s, k) /\ (k # 0 <=> s = "Waitlisted") /\ o.status = s
        /\ \/ s = "Submitted"
           \/ s = "Approved" /\ approvedCount(row) < req[p].cap
           \/ o = Row("Waitlisted", nextWaitlistRank(row))
  <2>1. "Submitted" \in Statuses /\ "Approved" \in Statuses /\ "Waitlisted" \in Statuses
    BY DEF Statuses, DECIDABLE
  <2>2. nextWaitlistRank(row) \in Nat \ {0}
    <3>1. PICK b \in Nat : \A x \in Applicants : row[x].rank <= b
      BY DEF IInv, Bounded
    <3> QED BY <1>2, <3>1, NextRank DEF IInv, Type
  <2>3. \A s, k : Row(s, k).status = s
    BY DEF Row
  <2>4. \/ o = Row("Submitted", 0)
        \/ o = Row("Approved", 0) /\ approvedCount(row) < req[p].cap
        \/ o = Row("Waitlisted", nextWaitlistRank(row))
    BY DEF Outcome
  <2> HIDE DEF o
  <2> QED BY <2>1, <2>2, <2>3, <2>4
<1>4. /\ row' = [row EXCEPT ![a] = o]
      /\ req' = [req EXCEPT ![p] = IF o.status = "Submitted" THEN Idle
                                   ELSE [Idle EXCEPT !.at = "tell", !.tell = Tells(a, {})]]
  <2>1. IF o.status = "Submitted" THEN Becomes(p, Idle)
        ELSE Becomes(p, [Idle EXCEPT !.at = "tell", !.tell = Tells(a, {})])
    BY DEF Submitted
  <2>2. row' = [row EXCEPT ![a] = o]
    BY DEF Submitted
  <2> HIDE DEF o
  <2> QED BY <2>1, <2>2 DEF Becomes
<1> HIDE DEF o
<1>5. PICK s \in Statuses, k \in Nat :
        /\ o = Row(s, k) /\ (k # 0 <=> s = "Waitlisted") /\ o.status = s
        /\ \/ s = "Submitted"
           \/ s = "Approved" /\ approvedCount(row) < req[p].cap
           \/ o = Row("Waitlisted", nextWaitlistRank(row))
  BY <1>3
<1>6. /\ row' \in RowsType /\ Ranked(row')
      /\ row'[a].status = s /\ row'[a].rank = k /\ row'[a] = Row(s, k)
      /\ \A x \in Applicants \ {a} : row'[x] = row[x]
  <2>1. \A x \in Applicants \ {a} : row[x].rank # 0 <=> row[x].status = "Waitlisted"
    BY DEF IInv, Ranked
  <2>2. row' = [row EXCEPT ![a] = Row(s, k)]
    BY <1>4, <1>5
  <2> DEFINE out == [row EXCEPT ![a] = Row(s, k)]
  <2>3. /\ out \in RowsType /\ Ranked(out)
        /\ out[a].status = s /\ out[a].rank = k /\ out[a] = Row(s, k)
        /\ \A x \in Applicants \ {a} : out[x] = row[x]
    BY <1>2, <1>5, <2>1, Written DEF IInv, Type
  <2> HIDE DEF out
  <2> QED BY <2>2, <2>3 DEF out
<1>7. \E r \in Reqs :
         /\ req' = [req EXCEPT ![p] = r] /\ r.who = <<>>
         /\ \/ r.at = "idle" /\ row'[a].status = "Submitted"
            \/ /\ r.at = "tell" /\ r.tell # <<>>
               /\ \E t \in Elems(r.tell) : t.who = a /\ ~t.promoted
  <2>1. Idle.who = <<>>
    BY DEF Idle
  <2>2. CASE o.status = "Submitted"
    BY <1>4, <1>5, <1>6, <2>1, <2>2, IdleIs
  <2>3. CASE o.status # "Submitted"
    <3> DEFINE u == Tells(a, {})
               r == [Idle EXCEPT !.at = "tell", !.tell = u]
    <3>1. /\ u \in Seq(TellType) /\ u # <<>> /\ \E t \in Elems(u) : t.who = a /\ ~t.promoted
      BY <1>2, TellsAre
    <3> HIDE DEF u
    <3>2. r \in Reqs /\ r.at = "tell" /\ r.tell = u /\ r.who = <<>>
      <4>1. ASSUME NEW i \in Reqs
            PROVE  LET j == [i EXCEPT !.at = "tell", !.tell = u]
                   IN  j \in Reqs /\ j.at = "tell" /\ j.tell = u /\ j.who = i.who
        BY <3>1 DEF Reqs, TellType
      <4> QED BY <2>1, <4>1, IdleIs
    <3>3. req' = [req EXCEPT ![p] = r]
      BY <1>4, <2>3 DEF u
    <3> HIDE DEF r
    <3> QED BY <3>1, <3>2, <3>3
  <2> QED BY <2>2, <2>3
<1>8. req[p].cap \in Nat
  BY <1>1, EnrollmentAssumption
<1> QED BY <1>1, <1>2, <1>5, <1>6, <1>7, <1>8

LEMMA SubmittedKeeps ==
    ASSUME IInv, NEW p \in Requests, Submitted(p)
    PROVE  IInv'
<1> PICK a : a = Head(req[p].who)
  OBVIOUS
<1>1. /\ a \in Applicants /\ req[p] \in Reqs /\ req[p].at = "submit"
      /\ req[p].was.status \in {"None", "Submitted", "Withdrawn"}
      /\ row' \in RowsType /\ Ranked(row')
      /\ \A x \in Applicants \ {a} : row'[x] = row[x]
      /\ \/ row'[a].status = "Submitted" /\ row'[a].rank = 0
         \/ row'[a].status = "Approved" /\ row'[a].rank = 0
         \/ row'[a] = Row("Waitlisted", nextWaitlistRank(row))
      /\ \E r \in Reqs :
           /\ req' = [req EXCEPT ![p] = r] /\ r.who = <<>>
           /\ \/ r.at = "idle" /\ row'[a].status = "Submitted"
              \/ /\ r.at = "tell" /\ r.tell # <<>>
                 /\ \E t \in Elems(r.tell) : t.who = a /\ ~t.promoted
  BY SubmitWrites
<1>2. /\ queue' = Append(IF row[a] = NoRow THEN queue ELSE RemoveAt(queue, Position(a)), a)
      /\ raced' = (raced \/ row[a] # req[p].was)
      /\ UNCHANGED <<capacity, requiresReview, asked, changes, told, untold>>
  BY DEF Submitted
<1>3. PICK r \in Reqs :
           /\ req' = [req EXCEPT ![p] = r] /\ r.who = <<>>
           /\ \/ r.at = "idle" /\ row'[a].status = "Submitted"
              \/ /\ r.at = "tell" /\ r.tell # <<>>
                 /\ \E t \in Elems(r.tell) : t.who = a /\ ~t.promoted
  BY <1>1
<1>4. req'[p] = r
  BY <1>3 DEF IInv, Type
<1>5. Asked(p)'
  <2>1. \A x \in Elems(r.who) : Applied(x)'
    BY <1>3 DEF Elems
  <2> QED BY <1>3, <1>4, <2>1 DEF Asked
<1>6. Type'
  <2>1. raced' \in BOOLEAN
    BY <1>2
  <2>2. req' \in [Requests -> Reqs]
    BY <1>3 DEF IInv, Type
  <2> QED BY <1>1, <1>2, <2>1, <2>2 DEF IInv, Type
<1>7. PICK b \in Nat : \A x \in Applicants : row[x].rank <= b
  BY DEF IInv, Bounded
<1>8. nextWaitlistRank(row) \in Nat \ {0} /\ nextWaitlistRank(row) <= b + 1
  BY <1>1, <1>7, NextRank DEF IInv, Type
<1>9. row'[a].rank \in Nat /\ row'[a].rank <= b + 1
  BY <1>1, <1>8 DEF Row
<1>10. Bounded'
  <2>1. \A x \in Applicants : row[x].rank \in Nat
    BY DEF IInv, Type, RowsType, RowType
  <2>2. \A x \in Applicants : row'[x].rank <= b + 1
    BY <1>1, <1>7, <1>9, <2>1
  <2> QED BY <1>7, <2>2 DEF Bounded
<1>11. row'[a].status # "None"
  BY <1>1 DEF Row
<1>12. \A x \in Applicants : Applied(x)' <=> Applied(x) \/ x = a
  BY <1>1, <1>11 DEF Applied
<1>13. Queue'
  <2>1. /\ queue' \in Seq(Applicants)
        /\ \A i, j \in 1..Len(queue') : queue'[i] = queue'[j] => i = j
        /\ Elems(queue)' = Elems(queue) \cup {a}
    BY <1>1, QueueAfter DEF IInv
  <2>2. Elems(queue) = {x \in Applicants : Applied(x)}
    BY DEF IInv, Queue
  <2>3. Elems(queue)' = {x \in Applicants : Applied(x)'}
    BY <1>1, <1>12, <2>1, <2>2
  <2> QED BY <2>1, <2>3 DEF Queue
<1>14. Lined'
  <2>1. ASSUME ~raced' PROVE \E n \in Nat : Numbered(row', n)
    <3>1. ~raced /\ row[a] = req[p].was
      BY <1>2, <2>1 DEF IInv, Type
    <3>2. PICK n \in Nat : Numbered(row, n)
      BY <3>1 DEF IInv, Lined
    <3>3. row[a].status # "Waitlisted"
      BY <1>1, <3>1
    <3>4. CASE row'[a] = Row("Waitlisted", nextWaitlistRank(row))
      <4>1. Numbered(row', n + 1)
        BY <1>1, <3>2, <3>3, <3>4, NumberedJoin DEF IInv, Type
      <4> QED BY <3>2, <4>1
    <3>5. CASE row'[a].status \in {"Submitted", "Approved"}
      <4>1. Numbered(row', n)
        BY <1>1, <3>2, <3>3, <3>5, NumberedSame
      <4> QED BY <4>1
    <3> QED BY <1>1, <3>4, <3>5
  <2> QED BY <2>1 DEF Lined
<1>15. \A x \in Applicants : row'[x].status = row[x].status \/ row'[x].status = "Submitted"
                             \/ Telling(x)'
  <2>1. \A x \in Applicants \ {a} : row'[x].status = row[x].status
    BY <1>1
  <2>2. row'[a].status = "Submitted" \/ Telling(a)'
    BY <1>3, <1>4 DEF Telling
  <2> QED BY <2>1, <2>2
<1>16. Ranked(row)'
  BY <1>1 DEF Ranked
<1> QED BY <1>1, <1>2, <1>3, <1>5, <1>6, <1>10, <1>12, <1>13, <1>14, <1>15, <1>16, Kept

\* After p's decision on a, with next promoted, they are told.
Mails(p, r, a, next) ==
    \E u \in Seq(TellType) :
       /\ req' = [req EXCEPT ![p] = [r EXCEPT !.at = "tell", !.tell = u]]
       /\ u # <<>> /\ \E t \in Elems(u) : t.who = a /\ ~t.promoted
       /\ \A x \in next : \E t \in Elems(u) : t.who = x /\ t.promoted

Frees(r) == r.was.status = "Approved" /\ r.to # "Approved"

\* The rows of row with r's decision on a written.
DecidedRows(r, a, rows) ==
    /\ a \in Applicants /\ Applied(a) /\ r.at = "decide"
    /\ r \in Reqs /\ r.cap \in Nat /\ r.cap \in Capacities
    /\ r.to \in DECIDABLE /\ r.was.status # r.to
    /\ rows \in RowsType /\ Ranked(rows) /\ rows[a].status = r.to
    /\ \A x \in Applicants \ {a} :
         /\ rows[x].status = row[x].status
         /\ r.was.status # "Waitlisted" => rows[x] = row[x]
         /\ r.was.status = "Waitlisted" =>
              /\ row[x].rank > r.was.rank => rows[x].rank = row[x].rank - 1
              /\ ~(row[x].rank > r.was.rank) => rows[x].rank = row[x].rank
    /\ r.to = "Waitlisted" => rows[a] = Row("Waitlisted", nextWaitlistRank(row))

\* What a decision writes: the rows as decided, and whoever is promoted.
LEMMA DecideWrites ==
    ASSUME IInv, NEW p \in Requests, decideApplication(p),
           NEW r, r = req[p], NEW a, a = Head(r.who), NEW rows, rows = Decided(a, r.to, r.was),
           NEW W, W = With(rows, "Waitlisted") \ {a}
    PROVE  /\ DecidedRows(r, a, rows)
           /\ \/ /\ Mails(p, r, a, {}) /\ row' = rows
                 /\ Frees(r) => W = {} \/ approvedCount(rows) >= r.cap
              \/ /\ Frees(r) /\ approvedCount(rows) < r.cap
                 /\ \E x \in W : Mails(p, r, a, {x}) /\ Promotes(rows, row', W, x)
<1>1. /\ r \in Reqs /\ r.at = "decide" /\ r.who \in Seq(Applicants) /\ r.who # <<>>
      /\ r.cap \in Capacities /\ r.to \in DECIDABLE /\ r.was \in RowType
      /\ r.was.rank # 0 <=> r.was.status = "Waitlisted"
      /\ r.was.status # r.to /\ \A x \in Elems(r.who) : Applied(x)
  BY DEF decideApplication, IInv, Type, Asked, Reqs, RowType
<1>2. a \in Applicants /\ Applied(a)
  BY <1>1, Rest
<1>3. r.cap \in Nat
  BY <1>1, EnrollmentAssumption
<1> DEFINE D == Decided(a, r.to, r.was)
<1>4. /\ D \in RowsType /\ Ranked(D) /\ D[a].status = r.to
      /\ \A x \in Applicants \ {a} :
           /\ D[x].status = row[x].status
           /\ r.was.status # "Waitlisted" => D[x] = row[x]
           /\ r.was.status = "Waitlisted" =>
                /\ row[x].rank > r.was.rank => D[x].rank = row[x].rank - 1
                /\ ~(row[x].rank > r.was.rank) => D[x].rank = row[x].rank
      /\ r.to = "Waitlisted" => D[a] = Row("Waitlisted", nextWaitlistRank(row))
  <2>1. Type /\ Ranked(row) /\ Bounded
    BY DEF IInv
  <2> QED BY <1>1, <1>2, <2>1, Deciding
<1>5. rows = D
  OBVIOUS
<1> HIDE DEF D
<1>a. DecidedRows(r, a, rows)
  BY <1>1, <1>2, <1>3, <1>4, <1>5, ZenonT(60) DEF DecidedRows
<1>6. \A x \in Applicants : rows[x].status = "Waitlisted" => Applied(x)
  BY <1>2, <1>4, <1>5 DEF Applied
<1> DEFINE P == Promoted(rows, r.cap, a)
           out == promoteFromWaitlist(rows, r.cap, a)
           next == IF Frees(r) THEN P ELSE {}
<1>7. /\ row' = IF Frees(r) THEN out ELSE rows
      /\ req' = [req EXCEPT ![p] = [r EXCEPT !.at = "tell", !.tell = Tells(a, next)]]
  BY DEF decideApplication, Becomes, Frees
<1>8. \/ P = {} /\ out = rows /\ (W = {} \/ approvedCount(rows) >= r.cap)
      \/ \E x \in W : P = {x} /\ approvedCount(rows) < r.cap /\ Promotes(rows, out, W, x)
  <2>1. /\ rows \in RowsType /\ Ranked(rows) /\ Queue /\ r.cap \in Nat
        /\ \A x \in Applicants : rows[x].status = "Waitlisted" => Applied(x)
    BY <1>3, <1>4, <1>5, <1>6 DEF IInv
  <2> QED BY <2>1, Promoting
<1>9. W \in SUBSET Applicants
  BY DEF With
<1> HIDE DEF P, out
<1>10. next = {} \/ \E x \in Applicants : next = {x}
  BY <1>8, <1>9
<1>11. Mails(p, r, a, next)
  <2> DEFINE u == Tells(a, next)
  <2>1. /\ u \in Seq(TellType) /\ u # <<>> /\ \E t \in Elems(u) : t.who = a /\ ~t.promoted
        /\ \A x \in next : \E t \in Elems(u) : t.who = x /\ t.promoted
    <3> HIDE DEF next
    <3> QED BY <1>2, <1>10, TellsAre
  <2> HIDE DEF next, u
  <2>2. req' = [req EXCEPT ![p] = [r EXCEPT !.at = "tell", !.tell = u]]
    BY <1>7 DEF u
  <2> QED BY <2>1, <2>2 DEF Mails
<1>12. CASE ~Frees(r)
  <2>1. next = {} /\ row' = rows
    BY <1>7, <1>12
  <2> HIDE DEF next
  <2>2. Mails(p, r, a, {})
    BY <1>11, <2>1
  <2> QED BY <1>a, <1>12, <2>1, <2>2
<1>13. CASE Frees(r)
  <2>1. next = P /\ row' = out
    BY <1>7, <1>13
  <2> HIDE DEF next
  <2>2. Mails(p, r, a, P)
    BY <1>11, <2>1
  <2>3. \/ /\ Mails(p, r, a, {}) /\ row' = rows
           /\ W = {} \/ approvedCount(rows) >= r.cap
        \/ /\ approvedCount(rows) < r.cap
           /\ \E x \in W : Mails(p, r, a, {x}) /\ Promotes(rows, row', W, x)
    BY <1>8, <2>1, <2>2
  <2> QED BY <1>a, <1>13, <2>3
<1> QED BY <1>12, <1>13

\* An unraced decision leaves the line numbered.
LEMMA DecidedLine ==
    ASSUME IInv, NEW p \in Requests, decideApplication(p), ~raced',
           NEW r, r = req[p], NEW a, a = Head(r.who), NEW rows, rows = Decided(a, r.to, r.was)
    PROVE  /\ row[a] = r.was
           /\ \E n \in Nat : Numbered(row, n)
           /\ \E m \in Nat : Numbered(rows, m)
<1> PICK W : W = With(rows, "Waitlisted") \ {a}
  OBVIOUS
<1>0. DecidedRows(r, a, rows)
  BY DecideWrites
<1>1. /\ a \in Applicants /\ r.to \in DECIDABLE /\ r.was.status # r.to
      /\ rows \in RowsType /\ Ranked(rows) /\ rows[a].status = r.to
      /\ \A x \in Applicants \ {a} :
           /\ rows[x].status = row[x].status
           /\ r.was.status # "Waitlisted" => rows[x] = row[x]
           /\ r.was.status = "Waitlisted" =>
                /\ row[x].rank > r.was.rank => rows[x].rank = row[x].rank - 1
                /\ ~(row[x].rank > r.was.rank) => rows[x].rank = row[x].rank
      /\ r.to = "Waitlisted" => rows[a] = Row("Waitlisted", nextWaitlistRank(row))
  BY <1>0 DEF DecidedRows
<1>2. raced' = (raced \/ row[a] # r.was)
  BY DEF decideApplication
<1>3. ~raced /\ row[a] = r.was
  BY <1>2
<1>4. PICK n \in Nat : Numbered(row, n)
  BY <1>3 DEF IInv, Lined
<1>5. row \in RowsType /\ Ranked(row)
  BY DEF IInv, Type
<1>6. CASE r.was.status = "Waitlisted"
  <2>a. a \in Applicants /\ row[a].status = "Waitlisted" /\ rows[a].status # "Waitlisted"
    BY <1>1, <1>3, <1>6
  <2>b. rows \in RowsType
    BY <1>1
  <2>c. \A x \in Applicants \ {a} :
          /\ rows[x].status = row[x].status
          /\ row[x].rank > row[a].rank => rows[x].rank = row[x].rank - 1
          /\ ~(row[x].rank > row[a].rank) => rows[x].rank = row[x].rank
    BY <1>1, <1>3, <1>6
  <2>1. Numbered(rows, n - 1)
    BY ONLY <1>4, <1>5, <2>a, <2>b, <2>c, NumberedLeave
  <2>2. n - 1 \in Nat
    BY <2>1 DEF Numbered
  <2> QED BY <1>3, <1>4, <2>1, <2>2
<1>7. CASE r.to = "Waitlisted"
  <2>1. \A x \in Applicants \ {a} : rows[x] = row[x]
    BY <1>1, <1>7
  <2>2. row[a].status # "Waitlisted"
    BY <1>1, <1>3, <1>7
  <2>3. Numbered(rows, n + 1)
    BY <1>1, <1>4, <1>5, <1>7, <2>1, <2>2, NumberedJoin
  <2> QED BY <1>3, <1>4, <2>3
<1>8. CASE r.was.status # "Waitlisted" /\ r.to # "Waitlisted"
  <2>a. row[a].status # "Waitlisted" /\ rows[a].status # "Waitlisted"
    BY <1>1, <1>3, <1>8
  <2>b. \A x \in Applicants \ {a} : rows[x] = row[x]
    BY <1>1, <1>8
  <2>c. \A x \in Applicants :
          IF row[x].status = "Waitlisted" \/ rows[x].status = "Waitlisted"
          THEN rows[x] = row[x] ELSE TRUE
    BY ONLY <2>a, <2>b
  <2>1. Numbered(rows, n)
    BY ONLY <1>4, <2>c, NumberedSame
  <2> QED BY <1>3, <1>4, <2>1
<1> QED BY <1>6, <1>7, <1>8

LEMMA DecideKeeps ==
    ASSUME IInv, NEW p \in Requests, decideApplication(p)
    PROVE  IInv'
<1> PICK r, a, rows, W :
      /\ r = req[p] /\ a = Head(r.who) /\ rows = Decided(a, r.to, r.was)
      /\ W = With(rows, "Waitlisted") \ {a}
  OBVIOUS
<1>0. /\ DecidedRows(r, a, rows)
      /\ \/ Mails(p, r, a, {}) /\ row' = rows
         \/ \E x \in W : Mails(p, r, a, {x}) /\ Promotes(rows, row', W, x)
  BY DecideWrites, ZenonT(60)
<1>1. /\ a \in Applicants /\ Applied(a) /\ r.at = "decide" /\ r \in Reqs
      /\ r.to \in DECIDABLE /\ rows \in RowsType /\ Ranked(rows) /\ rows[a].status = r.to
      /\ \A x \in Applicants \ {a} : rows[x].status = row[x].status
  BY <1>0 DEF DecidedRows
<1>2. /\ raced' = (raced \/ row[a] # r.was)
      /\ UNCHANGED <<queue, capacity, requiresReview, asked, changes, told, untold>>
  BY DEF decideApplication
<1>3. W \in SUBSET Applicants /\ \A x \in W : rows[x].status = "Waitlisted" /\ x # a
  BY DEF With
<1>4. PICK next \in SUBSET Applicants :
         /\ Mails(p, r, a, next)
         /\ \/ next = {} /\ row' = rows
            \/ \E x \in W : next = {x} /\ Promotes(rows, row', W, x)
  <2>1. CASE Mails(p, r, a, {}) /\ row' = rows
    BY <2>1
  <2>2. ASSUME NEW x \in W, Mails(p, r, a, {x}), Promotes(rows, row', W, x)
        PROVE  /\ {x} \in SUBSET Applicants
               /\ \E y \in W : {x} = {y} /\ Promotes(rows, row', W, y)
    BY <1>3, <2>2
  <2> QED BY <1>0, <2>1, <2>2, ZenonT(60)
<1>5. PICK u \in Seq(TellType) :
       /\ req' = [req EXCEPT ![p] = [r EXCEPT !.at = "tell", !.tell = u]]
       /\ u # <<>> /\ \E t \in Elems(u) : t.who = a /\ ~t.promoted
       /\ \A x \in next : \E t \in Elems(u) : t.who = x /\ t.promoted
  BY <1>4 DEF Mails
<1> DEFINE s == [r EXCEPT !.at = "tell", !.tell = u]
<1>6. s \in Reqs /\ s.at = "tell" /\ s.tell = u /\ s.who = r.who /\ s.to = r.to
  <2>1. ASSUME NEW i \in Reqs
        PROVE  LET j == [i EXCEPT !.at = "tell", !.tell = u]
               IN  j \in Reqs /\ j.at = "tell" /\ j.tell = u /\ j.who = i.who /\ j.to = i.to
    BY DEF Reqs, TellType
  <2> QED BY <1>1, <2>1
<1>7. req' = [req EXCEPT ![p] = s]
  BY <1>5
<1> HIDE DEF s
<1>8. req'[p] = s
  BY <1>7 DEF IInv, Type
<1>9. row' \in RowsType /\ Ranked(row')
  BY <1>1, <1>4 DEF Promotes
<1>10. \A x \in Applicants : \/ x \notin next /\ row'[x].status = rows[x].status
                             \/ x \in next /\ row'[x].status = "Approved" /\ x # a
                                           /\ rows[x].status = "Waitlisted"
  <2>1. CASE next = {} /\ row' = rows
    BY <2>1
  <2>2. ASSUME NEW x \in W, next = {x}, Promotes(rows, row', W, x),
               NEW y \in Applicants
        PROVE  \/ y \notin next /\ row'[y].status = rows[y].status
               \/ y \in next /\ row'[y].status = "Approved" /\ y # a
                              /\ rows[y].status = "Waitlisted"
    <3>1. /\ row'[x].status = "Approved"
          /\ \A z \in Applicants \ {x} : row'[z].status = rows[z].status
      BY <2>2 DEF Promotes
    <3>2. x # a /\ rows[x].status = "Waitlisted"
      BY <1>3, <2>2
    <3>3. CASE y = x
      BY <2>2, <3>1, <3>2, <3>3
    <3>4. CASE y # x
      BY ONLY <2>2, <3>1, <3>4
    <3> QED BY <3>3, <3>4
  <2> QED BY <1>4, <2>1, <2>2
<1>11. \A x \in Applicants : Applied(x)' <=> Applied(x)
  <2>1. r.to # "None"
    BY <1>1 DEF DECIDABLE
  <2>2. \A x \in Applicants : rows[x].status # "None" <=> Applied(x)
    BY <1>1, <2>1 DEF Applied
  <2> QED BY <1>10, <2>2 DEF Applied
<1>12. Queue'
  BY <1>2, <1>11 DEF IInv, Queue
<1>13. Type'
  <2>1. raced' \in BOOLEAN
    BY <1>2
  <2>2. req' \in [Requests -> Reqs]
    BY <1>6, <1>7 DEF IInv, Type
  <2> QED BY <1>2, <1>9, <2>1, <2>2 DEF IInv, Type
<1>14. Asked(p)'
  <2>1. Asked(p) /\ \A x \in Elems(r.who) : x \in Applicants
    BY <1>1 DEF IInv, Reqs, Elems
  <2>2. \A x \in Elems(r.who) : Applied(x)'
    BY <1>1, <1>11, <2>1 DEF Asked
  <2>3. req[p].at = "decide" /\ Asked(p)
    BY <1>1, <2>1
  <2> DEFINE R == req'[p]
  <2>4. R.at = "tell" /\ R.tell # <<>> /\ R.who = r.who /\ R.to \in DECIDABLE
    BY <1>1, <1>5, <1>6, <1>8
  <2> QED BY <2>2, <2>4 DEF Asked
<1>15. Bounded'
  <2>1. PICK b \in Nat : \A x \in Applicants : row[x].rank <= b
    BY DEF IInv, Bounded
  <2>2. \A x \in Applicants : row[x].rank \in Nat /\ rows[x].rank \in Nat /\ row'[x].rank \in Nat
    BY <1>1, <1>9 DEF IInv, Type, RowsType, RowType
  <2>3. nextWaitlistRank(row) <= b + 1 /\ nextWaitlistRank(row) \in Nat
    BY <1>1, <2>1, NextRank DEF IInv, Type
  <2>4. rows[a].rank <= b + 1
    <3>1. CASE r.to = "Waitlisted"
      <4>1. rows[a] = Row("Waitlisted", nextWaitlistRank(row))
        BY <1>0, <3>1 DEF DecidedRows
      <4>2. \A k : Row("Waitlisted", k).rank = k
        BY DEF Row
      <4> QED BY ONLY <2>3, <4>1, <4>2
    <3>2. CASE r.to # "Waitlisted"
      BY <1>1, <2>1, <3>2 DEF Ranked
    <3> QED BY <3>1, <3>2
  <2>5. r.was.rank \in Nat
    BY <1>1 DEF Reqs
  <2>6. ASSUME NEW x \in Applicants \ {a} PROVE rows[x].rank <= b + 1
    <3>1. rows[x].rank \in {row[x].rank, row[x].rank - 1}
      <4>1. CASE r.was.status = "Waitlisted"
        BY <1>0, <2>2, <2>5, <4>1 DEF DecidedRows
      <4>2. CASE r.was.status # "Waitlisted"
        BY <1>0, <4>2 DEF DecidedRows
      <4> QED BY <4>1, <4>2
    <3> QED BY <2>1, <2>2, <3>1
  <2>7. \A x \in Applicants : rows[x].rank <= b + 1
    BY <2>4, <2>6
  <2>8. \A x \in Applicants : row'[x].rank <= rows[x].rank
    <3>1. CASE row' = rows
      BY <2>2, <3>1
    <3>2. ASSUME NEW y \in W, Promotes(rows, row', W, y)
          PROVE  \A x \in Applicants : row'[x].rank <= rows[x].rank
      <4>1. y \in Applicants
        BY <1>3
      <4>2. row'[y].rank = 0
        BY <3>2 DEF Promotes
      <4>3. \A x \in Applicants \ {y} : row'[x].rank \in {rows[x].rank, rows[x].rank - 1}
        BY <2>2, <3>2, <4>1 DEF Promotes
      <4> QED BY <2>2, <4>2, <4>3
    <3> QED BY <1>4, <3>1, <3>2
  <2>9. \A x \in Applicants : row'[x].rank <= b + 1
    BY <2>1, <2>2, <2>7, <2>8
  <2> QED BY <2>1, <2>9 DEF Bounded
<1>16. Lined'
  <2>1. ASSUME ~raced' PROVE \E n \in Nat : Numbered(row', n)
    <3>1. PICK m \in Nat : Numbered(rows, m)
      BY <2>1, DecidedLine
    <3>2. ASSUME NEW x \in W, Promotes(rows, row', W, x) PROVE Numbered(row', m - 1)
      <4>1. x \in Applicants /\ rows[x].status = "Waitlisted"
        BY <1>3
      <4>2. /\ row' \in RowsType /\ row'[x].status # "Waitlisted"
            /\ \A y \in Applicants \ {x} :
                 /\ row'[y].status = rows[y].status
                 /\ rows[y].rank > rows[x].rank => row'[y].rank = rows[y].rank - 1
                 /\ ~(rows[y].rank > rows[x].rank) => row'[y].rank = rows[y].rank
        BY <3>2 DEF Promotes
      <4> QED BY <1>1, <3>1, <4>1, <4>2, NumberedLeave, ZenonT(60)
    <3>3. CASE row' = rows
      BY <3>1, <3>3
    <3>4. CASE \E x \in W : Promotes(rows, row', W, x)
      <4>1. Numbered(row', m - 1)
        BY <3>2, <3>4
      <4>2. m - 1 \in Nat
        BY <4>1 DEF Numbered
      <4> QED BY <4>1, <4>2
    <3> QED BY <1>4, <3>3, <3>4
  <2> QED BY <2>1 DEF Lined
<1>17. \A x \in Applicants : \/ row'[x].status = row[x].status
                             \/ row'[x].status = "Submitted"
                             \/ Telling(x)'
  <2>1. Telling(a)'
    BY <1>5, <1>6, <1>8 DEF Telling
  <2>2. \A x \in next : Telling(x)'
    <3> SUFFICES ASSUME NEW x \in next PROVE Telling(x)'
      OBVIOUS
    <3>1. row'[x].status = "Approved"
      BY <1>10
    <3> QED BY <1>5, <1>6, <1>8, <3>1 DEF Telling
  <2>3. \A x \in Applicants \ {a} : x \notin next => row'[x].status = row[x].status
    BY <1>1, <1>10, ZenonT(60)
  <2> QED BY <2>1, <2>2, <2>3
<1>18. Ranked(row)'
  BY <1>9 DEF Ranked
<1> QED BY <1>1, <1>2, <1>7, <1>11, <1>12, <1>13, <1>14, <1>15, <1>16, <1>17, <1>18, Kept

-----------------------------------------------------------------------------
LEMMA InitInvariant == Init => IInv
<1> SUFFICES ASSUME Init PROVE IInv
  OBVIOUS
<1> DEFINE N == Cardinality(Applicants)
           S == {a \in Applicants : row[a] # NoRow}
<1>1. N \in Nat
  BY EnrollmentAssumption, FS_CardinalityType
<1> HIDE DEF N
<1>2. ASSUME NEW a \in Applicants
      PROVE  /\ row[a] \in RowType /\ row[a].rank <= N
             /\ row[a] # NoRow <=> row[a].status # "None"
  <2>1. row[a] \in {NoRow} \cup [status : Statuses \ {"None"}, rank : 0..N]
    BY DEF Init, N
  <2>2. ASSUME NEW r \in [status : Statuses \ {"None"}, rank : 0..N]
        PROVE  r \in RowType /\ r.rank <= N /\ r # NoRow /\ r.status # "None"
    BY <1>1 DEF RowType, NoRow, Row
  <2>3. NoRow \in RowType /\ NoRow.rank <= N /\ NoRow.status = "None"
    BY <1>1 DEF RowType, NoRow, Row, Statuses
  <2> QED BY <2>1, <2>2, <2>3
<1>3. row \in RowsType
  <2>1. row = [a \in Applicants |-> row[a]]
    BY DEF Init
  <2> QED BY <1>2, <2>1 DEF RowsType
<1>4. req = [p \in Requests |-> Idle] /\ \A p \in Requests : req[p] = Idle
  BY DEF Init
<1>5. Type
  <2>1. req \in [Requests -> Reqs]
    BY <1>4, IdleIs
  <2>2. told \in [Applicants -> SUBSET Statuses]
    <3>1. \A a \in Applicants : {row[a].status} \in SUBSET Statuses
      BY <1>2 DEF RowType
    <3>2. told = [a \in Applicants |-> {row[a].status}]
      BY DEF Init
    <3> QED BY <3>1, <3>2
  <2>3. /\ capacity \in Capacities /\ requiresReview \in BOOLEAN
        /\ asked \in 0..MaxAsked /\ changes \in 0..MaxChanges
        /\ raced \in BOOLEAN /\ untold \subseteq Applicants
    <3>1. capacity \in Capacities /\ requiresReview \in BOOLEAN
      BY DEF Init
    <3>2. asked = 0 /\ changes = 0 /\ raced = FALSE /\ untold = {}
      BY DEF Init
    <3>3. asked \in 0..MaxAsked /\ changes \in 0..MaxChanges
      BY <3>2, EnrollmentAssumption
    <3>4. raced \in BOOLEAN /\ untold \subseteq Applicants
      BY <3>2
    <3> QED BY <3>1, <3>3, <3>4
  <2> QED BY <1>3, <2>1, <2>2, <2>3 DEF Type
<1>6. Ranked(row)
  BY DEF Init, Ranked
<1>7. Bounded
  BY <1>1, <1>2 DEF Bounded
<1>8. Queue
  <2> DEFINE n == Cardinality(S)
  <2>1. IsFiniteSet(S) /\ n \in Nat
    BY EnrollmentAssumption, FS_Subset, FS_CardinalityType
  <2>2. S \in SUBSET Applicants /\ S = {a \in Applicants : Applied(a)}
    BY <1>2 DEF Applied
  <2>3. queue \in [1..n -> S] /\ \A i, j \in 1..n : i # j => queue[i] # queue[j]
    BY DEF Init, SetToSeqs
  <2> HIDE DEF S
  <2>4. IsFiniteSet(1..n) /\ Cardinality(1..n) = n
    <3>1. 1 \in Int /\ n \in Int /\ (1 > n => n = 0)
      BY <2>1
    <3> HIDE DEF n
    <3>2. IsFiniteSet(1..n) /\ Cardinality(1..n) = IF 1 > n THEN 0 ELSE n - 1 + 1
      BY <3>1, FS_Interval
    <3> QED BY <2>1, <3>1, <3>2
  <2>5. queue \in Injection(1..n, S)
    BY <2>3 DEF Injection, IsInjective
  <2>6. queue \in Surjection(1..n, S)
    BY <2>1, <2>4, <2>5, FS_Injection
  <2>7. \A x \in S : \E i \in 1..n : queue[i] = x
    BY <2>6 DEF Surjection
  <2> HIDE DEF n
  <2>8. queue \in Seq(Applicants) /\ Len(queue) = n
    BY <2>1, <2>2, <2>3
  <2>9. Elems(queue) = S
    BY <2>3, <2>7, <2>8 DEF Elems
  <2> QED BY <2>2, <2>3, <2>8, <2>9 DEF Queue
<1>9. \A p \in Requests : Asked(p)
  BY <1>4, IdleIs DEF Asked
<1>10. Lined
  BY <1>3, NumberedDense DEF Init, Lined
<1>11. Informed
  BY DEF Init, Informed
<1> QED BY <1>5, <1>6, <1>7, <1>8, <1>9, <1>10, <1>11 DEF IInv

LEMMA NextInvariant == IInv /\ [Next]_vars => IInv'
<1> SUFFICES ASSUME IInv, [Next]_vars PROVE IInv'
  OBVIOUS
<1>1. ASSUME NEW p \in Requests, NEW a \in Applicants, Submit(p, a) PROVE IInv'
  BY <1>1, SubmitKeeps
<1>2. ASSUME NEW p \in Requests, NEW a \in Applicants, Withdraw(p, a) PROVE IInv'
  BY <1>2, WithdrawKeeps
<1>3. ASSUME NEW p \in Requests, NEW a \in Applicants, NEW to \in DECIDABLE, DecideOne(p, a, to)
      PROVE  IInv'
  BY <1>3, DecideOneKeeps
<1>4. ASSUME NEW p \in Requests, approveAllPending(p) PROVE IInv'
  BY <1>4, ApproveAllKeeps
<1>5. ASSUME NEW p \in Requests, Serve(p) PROVE IInv'
  <2>1. CASE Submitted(p)
    BY <2>1, SubmittedKeeps
  <2>2. CASE SubmitTwice(p)
    BY <2>2, OverKeeps DEF SubmitTwice
  <2>3. CASE ReadApplication(p)
    BY <2>3, ReadKeeps
  <2>4. CASE RefuseSeat(p)
    BY <2>4, OverKeeps DEF RefuseSeat
  <2>5. CASE decideApplication(p)
    BY <2>5, DecideKeeps
  <2>6. CASE Tell(p)
    BY <2>6, TellKeeps
  <2>7. CASE Die(p)
    BY <2>7, DieKeeps
  <2> QED BY <1>5, <2>1, <2>2, <2>3, <2>4, <2>5, <2>6, <2>7 DEF Serve
<1>6. ASSUME NEW a \in Applicants, NEW d \in {"up", "down"}, moveWaitlistEntry(a, d) PROVE IInv'
  BY <1>6, MoveKeeps
<1>7. ASSUME NEW c \in Capacities, NEW v \in BOOLEAN, UpdateOffering(c, v) PROVE IInv'
  BY <1>7, UpdateKeeps
<1>8. CASE UNCHANGED vars
  BY <1>8 DEF vars, IInv, Type, Ranked, Bounded, Queue, Applied, Asked, Lined, Informed, Telling
<1> QED BY <1>1, <1>2, <1>3, <1>4, <1>5, <1>6, <1>7, <1>8 DEF Next

THEOREM Invariant == Spec => []IInv
BY InitInvariant, NextInvariant, PTL DEF Spec

-----------------------------------------------------------------------------
(***************************************************************************)
(* What the offering promises.                                             *)
(***************************************************************************)
\* State and requests stay well formed, and a rank goes with the status
\* Waitlisted, whatever has raced.
THEOREM TypeCorrect == Spec => []TypeOK
<1>1. IInv => TypeOK
  <2> SUFFICES ASSUME IInv PROVE TypeOK
    OBVIOUS
  <2>1. /\ queue \in Seq(Applicants) /\ DOMAIN queue = 1..Len(queue)
        /\ \A i, j \in 1..Len(queue) : queue[i] = queue[j] => i = j
        /\ Elems(queue) = {a \in Applicants : Applied(a)}
    BY DEF IInv, Queue
  <2>2. IsInjective(queue)
    BY <2>1 DEF IsInjective
  <2>3. ToSet(queue) = Elems(queue)
    BY <2>1 DEF ToSet, Elems
  <2>4. \A a \in Applicants : row[a] # NoRow <=> Applied(a)
    <3> SUFFICES ASSUME NEW a \in Applicants PROVE row[a] # NoRow <=> Applied(a)
      OBVIOUS
    <3>1. row[a] \in RowType /\ (row[a].rank # 0 <=> row[a].status = "Waitlisted")
      BY DEF IInv, Type, RowsType, Ranked
    <3>2. ASSUME NEW r \in RowType, r.rank # 0 <=> r.status = "Waitlisted"
          PROVE  r # NoRow <=> r.status # "None"
      BY <3>2 DEF RowType, NoRow, Row
    <3> QED BY <3>1, <3>2 DEF Applied
  <2>5. ToSet(queue) = {a \in Applicants : row[a] # NoRow}
    BY <2>1, <2>3, <2>4
  <2>6. row \in [Applicants -> [status : Statuses, rank : Nat]]
    BY DEF IInv, Type, RowsType, RowType
  <2>7. \A a \in Applicants : row[a].rank # 0 <=> row[a].status = "Waitlisted"
    BY DEF IInv, Ranked
  <2>8. \A p \in Requests : /\ req[p].at \in {"submit", "read", "decide"} => req[p].who # <<>>
                            /\ req[p].at = "tell" => req[p].tell # <<>>
    BY DEF IInv, Asked
  <2> QED BY <2>2, <2>5, <2>6, <2>7, <2>8 DEF IInv, Type, TypeOK
<1> QED BY <1>1, Invariant, PTL

\* The waitlist has no gaps and no ties while nothing has raced.
THEOREM RanksStayDense == Spec => []RanksDense
<1>1. IInv => RanksDense
  BY NumberedDense DEF IInv, Type, Lined, RanksDense
<1> QED BY <1>1, Invariant, PTL

\* Everybody hears the outcome they end up with.
THEOREM EverybodyIsTold == Spec => []ToldAtRest
<1>1. IInv => ToldAtRest
  BY DEF IInv, Informed, Telling, ToldAtRest
<1> QED BY <1>1, Invariant, PTL

\* The steps that write an application.
LEMMA Writers ==
    ASSUME [Next]_vars
    PROVE  \/ row' = row
           \/ \E p \in Requests : Submitted(p) \/ decideApplication(p)
           \/ \E a \in Applicants, d \in {"up", "down"} : moveWaitlistEntry(a, d)
<1>1. CASE UNCHANGED vars
  BY <1>1 DEF vars
<1>2. ASSUME NEW p \in Requests, Serve(p), ~Submitted(p), ~decideApplication(p) PROVE row' = row
  BY <1>2 DEF Serve, SubmitTwice, ReadApplication, RefuseSeat, Tell, Die
<1>3. ASSUME NEW p \in Requests,
             \/ \E a \in Applicants : \/ Submit(p, a) \/ Withdraw(p, a)
                                      \/ \E to \in DECIDABLE : DecideOne(p, a, to)
             \/ approveAllPending(p)
      PROVE  row' = row
  BY <1>3 DEF Submit, Withdraw, DecideOne, approveAllPending, Ask
<1>4. ASSUME NEW c \in Capacities, NEW v \in BOOLEAN, UpdateOffering(c, v) PROVE row' = row
  BY <1>4 DEF UpdateOffering
<1> QED BY <1>1, <1>2, <1>3, <1>4 DEF Next

LEMMA MoveKeepsStatus ==
    ASSUME IInv, NEW a \in Applicants, NEW d \in {"up", "down"}, moveWaitlistEntry(a, d)
    PROVE  \A x \in Applicants : row'[x].status = row[x].status
<1>1. \A x \in Applicants : row[x] \in RowType /\ row[x].rank \in Nat
  BY DEF IInv, Type, RowsType, RowType
<1>2. PICK b \in Applicants :
         /\ row' = [row EXCEPT ![a].rank = row[b].rank, ![b].rank = row[a].rank]
         /\ row[b].rank < row[a].rank \/ row[b].rank > row[a].rank
  BY DEF moveWaitlistEntry, Neighbours, With
<1>3. a # b
  BY <1>1, <1>2
<1>4. /\ row'[a] = [row[a] EXCEPT !.rank = row[b].rank]
      /\ row'[b] = [row[b] EXCEPT !.rank = row[a].rank]
      /\ \A x \in Applicants \ {a, b} : row'[x] = row[x]
  BY <1>2, <1>3 DEF IInv, Type, RowsType
<1>5. ASSUME NEW r \in RowType, NEW k \in Nat
      PROVE  LET s == [r EXCEPT !.rank = k] IN s.status = r.status
  BY DEF RowType
<1>6. row'[a].status = row[a].status /\ row'[b].status = row[b].status
  BY <1>1, <1>4, <1>5
<1> QED BY <1>4, <1>6

LEMMA CapsHold ==
    ASSUME NEW p \in Requests, req[p].cap \in Capacities
    PROVE  req[p].cap \in Caps
BY EnrollmentAssumption DEF Caps

\* A seat is given only within the capacity of now, or of when a request that
\* is being served read it.
THEOREM SeatsStayWithin == Spec => SeatsWithinCapacity
<1> DEFINE Within == approvedCount(row') > approvedCount(row)
                       => \E c \in Caps : approvedCount(row') <= c
<1>1. IInv /\ [Next]_vars => [Within]_vars
  <2> SUFFICES ASSUME IInv, [Next]_vars, approvedCount(row') > approvedCount(row)
               PROVE  \E c \in Caps : approvedCount(row') <= c
    OBVIOUS
  <2>1. \A r : approvedCount(r) \in Nat
    BY SeatsNat
  <2>2. ~(\A x \in Applicants : row'[x].status = row[x].status)
    <3>1. ASSUME \A x \in Applicants : row'[x].status = row[x].status
          PROVE  approvedCount(row') = approvedCount(row)
      BY <3>1, SeatsSame
    <3> QED BY <2>1, <3>1
  <2>3. PICK p \in Requests : Submitted(p) \/ decideApplication(p)
    BY <2>2, Writers, MoveKeepsStatus
  <2>4. CASE Submitted(p)
    <3> PICK a : a = Head(req[p].who)
      OBVIOUS
    <3>1. /\ a \in Applicants /\ req[p].cap \in Capacities /\ req[p].cap \in Nat
          /\ \A x \in Applicants \ {a} : row'[x].status = row[x].status
          /\ row'[a].status = "Approved" => approvedCount(row) < req[p].cap
      BY <2>4, SubmitWrites DEF Row
    <3>2. /\ approvedCount(row') <= approvedCount(row) + 1
          /\ row'[a].status # "Approved" => approvedCount(row') <= approvedCount(row)
      BY <3>1, SeatsOne
    <3>3. approvedCount(row') <= req[p].cap
      BY <2>1, <3>1, <3>2
    <3> QED BY <3>1, <3>3, CapsHold
  <2>5. CASE decideApplication(p)
    <3> PICK r, a, rows, W :
          /\ r = req[p] /\ a = Head(r.who) /\ rows = Decided(a, r.to, r.was)
          /\ W = With(rows, "Waitlisted") \ {a}
      OBVIOUS
    <3>1. /\ DecidedRows(r, a, rows)
          /\ row' = rows \/ (Frees(r) /\ approvedCount(rows) < r.cap
                               /\ \E x \in W : Promotes(rows, row', W, x))
      BY <2>5, DecideWrites, ZenonT(60)
    <3>2. /\ a \in Applicants /\ r.cap \in Nat /\ r.cap \in Capacities /\ rows[a].status = r.to
          /\ \A x \in Applicants \ {a} : rows[x].status = row[x].status
      BY <3>1 DEF DecidedRows
    <3>3. r.to = "Approved" => ~(approvedCount(row) >= r.cap)
      BY <2>5 DEF decideApplication, Full
    <3>4. approvedCount(row') <= r.cap
      <4>1. CASE row' = rows
        <5>1. /\ approvedCount(rows) <= approvedCount(row) + 1
              /\ r.to # "Approved" => approvedCount(rows) <= approvedCount(row)
          BY <3>2, SeatsOne
        <5> QED BY <2>1, <3>2, <3>3, <4>1, <5>1
      <4>2. ASSUME NEW x \in W, Promotes(rows, row', W, x), approvedCount(rows) < r.cap
            PROVE  approvedCount(row') <= r.cap
        <5>1. x \in Applicants /\ \A y \in Applicants \ {x} : rows[y].status = row'[y].status
          BY <4>2 DEF Promotes, With
        <5>2. approvedCount(row') <= approvedCount(rows) + 1
          BY <5>1, SeatsOne
        <5> QED BY <2>1, <3>2, <4>2, <5>2
      <4> QED BY <3>1, <4>1, <4>2
    <3> QED BY <3>2, <3>4, CapsHold
  <2> QED BY <2>3, <2>4, <2>5
<1> QED BY <1>1, Invariant, PTL DEF Spec, SeatsWithinCapacity

\* Closing up behind a rank that nobody else has keeps the order.
LEMMA OrderClosed ==
    ASSUME NEW r \in RowsType, NEW s, NEW k \in Nat, NEW x \in Applicants, NEW y \in Applicants,
           r[x].rank # k, r[y].rank # k, r[x].rank < r[y].rank,
           r[x].rank > k => s[x].rank = r[x].rank - 1,
           ~(r[x].rank > k) => s[x].rank = r[x].rank,
           r[y].rank > k => s[y].rank = r[y].rank - 1,
           ~(r[y].rank > k) => s[y].rank = r[y].rank
    PROVE  s[x].rank < s[y].rank
<1>1. r[x].rank \in Nat /\ r[y].rank \in Nat
  BY DEF RowsType, RowType
<1> QED BY <1>1

LEMMA Apart ==
    ASSUME NEW rows, NEW n, Numbered(rows, n), NEW x \in Applicants, NEW y \in Applicants, x # y,
           rows[x].status = "Waitlisted", rows[y].status = "Waitlisted"
    PROVE  rows[x].rank # rows[y].rank
BY DEF Numbered, With

\* The seat somebody loses goes, in the same step, to the first in line.
THEOREM SeatsAreRefilled == Spec => SeatRefilledUnlessRaced
<1> DEFINE Refill == raced' \/ \A a \in Unseated : Refilled(a)
<1>1. IInv /\ [Next]_vars => [Refill]_vars
  <2> SUFFICES ASSUME IInv, [Next]_vars, ~raced', NEW y \in Unseated PROVE Refilled(y)
    OBVIOUS
  <2>1. y \in Applicants /\ row[y].status = "Approved" /\ row'[y].status # "Approved"
    BY DEF Unseated, With
  <2>2. PICK p \in Requests : Submitted(p) \/ decideApplication(p)
    BY <2>1, Writers, MoveKeepsStatus
  <2>3. CASE Submitted(p)
    <3> PICK a : a = Head(req[p].who)
      OBVIOUS
    <3>1. /\ req[p].was.status \in {"None", "Submitted", "Withdrawn"}
          /\ \A x \in Applicants \ {a} : row'[x] = row[x]
      BY <2>3, SubmitWrites
    <3>2. raced' = (raced \/ row[a] # req[p].was)
      BY <2>3 DEF Submitted
    <3>3. row[a] = req[p].was
      BY <3>2
    <3> QED BY <2>1, <3>1, <3>3
  <2>4. CASE decideApplication(p)
    <3> PICK r, a, rows, W :
          /\ r = req[p] /\ a = Head(r.who) /\ rows = Decided(a, r.to, r.was)
          /\ W = With(rows, "Waitlisted") \ {a}
      OBVIOUS
    <3>1. /\ DecidedRows(r, a, rows)
          /\ \/ row' = rows /\ (Frees(r) => W = {} \/ approvedCount(rows) >= r.cap)
             \/ \E x \in W : Promotes(rows, row', W, x)
      BY <2>4, DecideWrites, ZenonT(60)
    <3>2. row[a] = r.was
      BY <2>4, DecidedLine
    <3>3. /\ a \in Applicants /\ r.cap \in Nat /\ r.cap \in Capacities /\ rows[a].status = r.to
          /\ \A x \in Applicants \ {a} : rows[x].status = row[x].status
          /\ r.was.status # "Waitlisted" => \A x \in Applicants \ {a} : rows[x] = row[x]
          /\ r.was.status # r.to
      BY <3>1 DEF DecidedRows
    <3>4. \A x \in Applicants : rows[x].status = "Approved" => row'[x].status = "Approved"
      <4>1. ASSUME NEW x \in W, Promotes(rows, row', W, x), NEW z \in Applicants,
                   rows[z].status = "Approved"
            PROVE  row'[z].status = "Approved"
        BY <4>1 DEF Promotes
      <4> QED BY <3>1, <4>1
    <3>5. y = a /\ Frees(r)
      <4>1. y = a
        BY <2>1, <3>3, <3>4
      <4> QED BY <2>1, <3>2, <3>3, <3>4, <4>1 DEF Frees
    <3>6. \A x \in Applicants \ {a} : rows[x] = row[x]
      BY <2>1, <3>2, <3>3, <3>5
    <3>7. W = With(row, "Waitlisted") \ {y} /\ W \in SUBSET Applicants /\ y \notin W
      BY <3>5, <3>6 DEF With
    <3>8. \A x \in W : rows[x] = row[x] /\ rows[x].status = "Waitlisted"
      BY <3>5, <3>6, <3>7 DEF With
    <3> DEFINE seated == With(row', "Approved") \cap W
    <3>9. CASE row' = rows /\ W = {}
      BY <3>7, <3>9 DEF Refilled
    <3>10. CASE row' = rows /\ approvedCount(rows) >= r.cap
      <4>1. seated = {}
        BY <3>8, <3>10 DEF With
      <4>2. r.cap \in Caps
        BY <3>3, CapsHold
      <4> QED BY <3>7, <3>10, <4>1, <4>2 DEF Refilled
    <3>11. ASSUME NEW x \in W, Promotes(rows, row', W, x) PROVE Refilled(y)
      <4>1. /\ row'[x].status = "Approved" /\ \A z \in W \ {x} : row'[z].status = "Waitlisted"
            /\ \A w \in W : rows[x].rank <= rows[w].rank
        BY <3>7, <3>8, <3>11, ZenonT(60) DEF Promotes
      <4>2. seated = {x}
        BY <3>7, <4>1 DEF With
      <4>3. \A w \in W : row[x].rank <= row[w].rank
        BY <3>8, <4>1
      <4> HIDE DEF seated
      <4> QED BY <3>7, <4>2, <4>3 DEF Refilled, seated
    <3> QED BY <3>1, <3>5, <3>9, <3>10, <3>11
  <2> QED BY <2>2, <2>3, <2>4
<1> QED BY <1>1, Invariant, PTL DEF Spec, SeatRefilledUnlessRaced

\* Nobody overtakes anybody on the waitlist unless a manager moves them.
THEOREM QueueStaysInOrder == Spec => QueueOrderKept
<1> DEFINE InOrder ==
      \/ raced'
      \/ \E a \in Applicants, d \in {"up", "down"} : moveWaitlistEntry(a, d)
      \/ \A a, b \in With(row, "Waitlisted") \cap With(row', "Waitlisted") :
           row[a].rank < row[b].rank => row'[a].rank < row'[b].rank
<1>1. IInv /\ [Next]_vars => [InOrder]_vars
  <2> SUFFICES ASSUME IInv, [Next]_vars, ~raced',
                      ~\E a \in Applicants, d \in {"up", "down"} : moveWaitlistEntry(a, d),
                      NEW x \in With(row, "Waitlisted") \cap With(row', "Waitlisted"),
                      NEW y \in With(row, "Waitlisted") \cap With(row', "Waitlisted"),
                      row[x].rank < row[y].rank
               PROVE  row'[x].rank < row'[y].rank
    OBVIOUS
  <2>1. /\ x \in Applicants /\ row[x].status = "Waitlisted" /\ row'[x].status = "Waitlisted"
        /\ y \in Applicants /\ row[y].status = "Waitlisted" /\ row'[y].status = "Waitlisted"
    BY DEF With
  <2>2. CASE row' = row
    BY <2>2
  <2>3. ASSUME NEW p \in Requests, Submitted(p) PROVE row'[x].rank < row'[y].rank
    <3> PICK a : a = Head(req[p].who)
      OBVIOUS
    <3>1. /\ req[p].was.status \in {"None", "Submitted", "Withdrawn"}
          /\ \A z \in Applicants \ {a} : row'[z] = row[z]
      BY <2>3, SubmitWrites
    <3>2. raced' = (raced \/ row[a] # req[p].was)
      BY <2>3 DEF Submitted
    <3>3. row[a] = req[p].was
      BY <3>2
    <3>4. x # a /\ y # a
      BY <2>1, <3>1, <3>3
    <3> QED BY <2>1, <3>1, <3>4
  <2>4. ASSUME NEW p \in Requests, decideApplication(p) PROVE row'[x].rank < row'[y].rank
    <3> PICK r, a, rows, W :
          /\ r = req[p] /\ a = Head(r.who) /\ rows = Decided(a, r.to, r.was)
          /\ W = With(rows, "Waitlisted") \ {a}
      OBVIOUS
    <3>1. /\ DecidedRows(r, a, rows)
          /\ row' = rows \/ \E z \in W : Promotes(rows, row', W, z)
      BY <2>4, DecideWrites, ZenonT(60)
    <3>2. row[a] = r.was /\ (\E n \in Nat : Numbered(row, n)) /\ \E m \in Nat : Numbered(rows, m)
      BY <2>4, DecidedLine
    <3>3. /\ a \in Applicants /\ rows[a].status = r.to /\ r.was.status # r.to
          /\ rows \in RowsType /\ Ranked(rows) /\ r \in Reqs
          /\ \A z \in Applicants \ {a} :
               /\ rows[z].status = row[z].status
               /\ r.was.status # "Waitlisted" => rows[z] = row[z]
               /\ r.was.status = "Waitlisted" =>
                    /\ row[z].rank > r.was.rank => rows[z].rank = row[z].rank - 1
                    /\ ~(row[z].rank > r.was.rank) => rows[z].rank = row[z].rank
      BY <3>1 DEF DecidedRows
    <3>4. \A z \in Applicants : row'[z].status = "Waitlisted" => rows[z].status = "Waitlisted"
      <4>1. ASSUME NEW z \in W, Promotes(rows, row', W, z), NEW w \in Applicants,
                   row'[w].status = "Waitlisted"
            PROVE  rows[w].status = "Waitlisted"
        BY <4>1 DEF Promotes
      <4> QED BY <3>1, <4>1
    <3>5. x # a /\ y # a /\ rows[x].status = "Waitlisted" /\ rows[y].status = "Waitlisted"
      <4>1. rows[x].status = "Waitlisted" /\ rows[y].status = "Waitlisted"
        BY <2>1, <3>4
      <4>2. ~(row[a].status = "Waitlisted" /\ rows[a].status = "Waitlisted")
        BY <3>2, <3>3
      <4> QED BY <2>1, <4>1, <4>2
    <3>6. row \in RowsType /\ row[a] \in RowType /\ row[a].rank \in Nat
      BY <3>3 DEF IInv, Type, RowsType, RowType
    <3>7. rows[x].rank < rows[y].rank
      <4>1. CASE r.was.status # "Waitlisted"
        <5>1. rows[x] = row[x] /\ rows[y] = row[y]
          BY <2>1, <3>3, <3>5, <4>1
        <5> QED BY <5>1
      <4>2. CASE r.was.status = "Waitlisted"
        <5>1. row[x].rank # row[a].rank /\ row[y].rank # row[a].rank
          <6>1. row[a].status = "Waitlisted"
            BY <3>2, <4>2
          <6>2. PICK n \in Nat : Numbered(row, n)
            BY <3>2
          <6>3. /\ x \in Applicants /\ y \in Applicants /\ a \in Applicants /\ x # a /\ y # a
                /\ row[x].status = "Waitlisted" /\ row[y].status = "Waitlisted"
            BY <2>1, <3>3, <3>5
          <6> QED BY ONLY <6>1, <6>2, <6>3, Apart
        <5>2. row[x].rank \in Nat /\ row[y].rank \in Nat /\ row[x].rank < row[y].rank
          BY <2>1, <3>6 DEF RowsType, RowType
        <5>3. /\ row[x].rank > row[a].rank => rows[x].rank = row[x].rank - 1
              /\ ~(row[x].rank > row[a].rank) => rows[x].rank = row[x].rank
          BY <2>1, <3>2, <3>3, <3>5, <4>2
        <5>4. /\ row[y].rank > row[a].rank => rows[y].rank = row[y].rank - 1
              /\ ~(row[y].rank > row[a].rank) => rows[y].rank = row[y].rank
          BY <2>1, <3>2, <3>3, <3>5, <4>2
        <5> QED BY ONLY <3>6, <5>1, <5>2, <5>3, <5>4
      <4> QED BY <4>1, <4>2
    <3>8. ASSUME NEW z \in W, Promotes(rows, row', W, z) PROVE row'[x].rank < row'[y].rank
      <4>1. /\ z \in Applicants /\ rows[z].status = "Waitlisted" /\ row'[z].status = "Approved"
            /\ \A w \in Applicants \ {z} :
                 /\ rows[w].rank > rows[z].rank => row'[w].rank = rows[w].rank - 1
                 /\ ~(rows[w].rank > rows[z].rank) => row'[w].rank = rows[w].rank
        BY <3>8 DEF Promotes, With
      <4>2. x # z /\ y # z
        BY <2>1, <4>1
      <4>3. rows[x].rank # rows[z].rank /\ rows[y].rank # rows[z].rank
        <5>1. PICK m \in Nat : Numbered(rows, m)
          BY <3>2
        <5>2. /\ x \in Applicants /\ y \in Applicants /\ z \in Applicants /\ x # z /\ y # z
              /\ rows[x].status = "Waitlisted" /\ rows[y].status = "Waitlisted"
              /\ rows[z].status = "Waitlisted"
          BY <2>1, <3>5, <4>1, <4>2
        <5> QED BY ONLY <5>1, <5>2, Apart
      <4>4. rows[z].rank \in Nat
        BY <3>3, <4>1 DEF RowsType, RowType
      <4>5. rows[x].rank \in Nat /\ rows[y].rank \in Nat
        BY <2>1, <3>3 DEF RowsType, RowType
      <4>6. /\ rows[x].rank > rows[z].rank => row'[x].rank = rows[x].rank - 1
            /\ ~(rows[x].rank > rows[z].rank) => row'[x].rank = rows[x].rank
        BY <2>1, <4>1, <4>2
      <4>7. /\ rows[y].rank > rows[z].rank => row'[y].rank = rows[y].rank - 1
            /\ ~(rows[y].rank > rows[z].rank) => row'[y].rank = rows[y].rank
        BY <2>1, <4>1, <4>2
      <4> QED BY ONLY <3>7, <4>3, <4>4, <4>5, <4>6, <4>7
    <3> QED BY <3>1, <3>7, <3>8
  <2> QED BY <2>2, <2>3, <2>4, Writers
<1> QED BY <1>1, Invariant, PTL DEF Spec, QueueOrderKept
==================================================
