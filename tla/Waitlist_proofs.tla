--------------------------- MODULE Waitlist_proofs ---------------------------
(***************************************************************************)
(* Waitlist, for every set of applicants and requests, and every list to   *)
(* begin with.                                                             *)
(***************************************************************************)
EXTENDS Waitlist, FiniteSetTheorems, TLAPS

N == Cardinality(Applicants)

LEMMA Size == N \in Nat /\ Ranks = 1..N
BY WaitlistAssumption, FS_CardinalityType DEF N, Ranks

-----------------------------------------------------------------------------
(***************************************************************************)
(* compactRanks.  Below(S, a): how many of the ranks S are at most a.      *)
(***************************************************************************)
Below(S, a) == Cardinality({v \in S : v <= a})

LEMMA Finite ==
    ASSUME NEW n \in Nat, NEW S \in SUBSET 1..n
    PROVE  /\ IsFiniteSet(S) /\ Cardinality(S) \in 0..n
           /\ \A T \in SUBSET S : IsFiniteSet(T) /\ Cardinality(T) \in 0..n
                                  /\ Cardinality(T) <= Cardinality(S)
                                  /\ (Cardinality(T) = Cardinality(S) => T = S)
<1>1. IsFiniteSet(1..n) /\ Cardinality(1..n) = n
  BY FS_Interval
<1>2. ASSUME NEW T \in SUBSET 1..n
      PROVE  IsFiniteSet(T) /\ Cardinality(T) \in 0..n
  <2>1. IsFiniteSet(T) /\ Cardinality(T) <= n
    BY <1>1, FS_Subset
  <2>2. Cardinality(T) \in Nat
    BY <2>1, FS_CardinalityType
  <2> QED BY <2>1, <2>2
<1>3. ASSUME NEW T \in SUBSET S
      PROVE  /\ Cardinality(T) <= Cardinality(S)
             /\ Cardinality(T) = Cardinality(S) => T = S
  BY <1>2, FS_Subset
<1>4. \A T \in SUBSET S : T \in SUBSET 1..n
  OBVIOUS
<1> QED BY <1>2, <1>3, <1>4

\* A rank is never above what it was, and is at least 1.
LEMMA BelowBound ==
    ASSUME NEW n \in Nat, NEW S \in SUBSET 1..n, NEW a \in 0..n
    PROVE  /\ Below(S, a) \in 0..a
           /\ a \in S => Below(S, a) # 0
           /\ a = 0 => Below(S, a) = 0
<1> DEFINE B == {v \in S : v <= a}
<1>1. B \in SUBSET 1..a
  <2>1. ASSUME NEW v \in B PROVE v \in 1..a
    OBVIOUS
  <2> QED BY <2>1
<1>2. IsFiniteSet(B) /\ Cardinality(B) \in 0..a
  BY <1>1, Finite
<1>3. Cardinality(B) = 0 => B = {}
  BY <1>2, FS_EmptySet
<1>4. a \in S => a \in B
  OBVIOUS
<1>5. Below(S, a) = Cardinality(B)
  BY DEF Below
<1> HIDE DEF B
<1> QED BY <1>2, <1>3, <1>4, <1>5

\* Ranks that are in use keep their order and their ties, and come closer.
LEMMA BelowOrder ==
    ASSUME NEW n \in Nat, NEW S \in SUBSET 1..n, NEW a \in 1..n, NEW b \in 1..n, b \in S, a < b
    PROVE  /\ Below(S, a) < Below(S, b)
           /\ Below(S, b) - Below(S, a) <= b - a
<1> DEFINE A == {v \in S : v <= a}
           B == {v \in S : v <= b}
           D == B \ A
<1>0. \A v \in S : v \in 1..n
  OBVIOUS
<1>1. A \in SUBSET S /\ B \in SUBSET S /\ A \in SUBSET B /\ b \in B /\ b \notin A /\ D \in SUBSET B
  <2>1. \A v \in S : v <= a => v <= b
    BY <1>0
  <2>2. A \in SUBSET B
    BY <2>1
  <2>3. b \in B /\ b \notin A
    OBVIOUS
  <2> QED BY <2>2, <2>3
<1>2. IsFiniteSet(A) /\ IsFiniteSet(B) /\ Cardinality(A) \in Nat /\ Cardinality(B) \in Nat
  BY <1>1, Finite
<1>3. Cardinality(A) <= Cardinality(B) /\ Cardinality(A) # Cardinality(B)
  BY <1>1, <1>2, FS_Subset
<1>4. D \in SUBSET (a + 1..b)
  <2>1. ASSUME NEW v \in D PROVE v \in a + 1..b
    <3>1. v \in S /\ v <= b /\ ~(v <= a)
      OBVIOUS
    <3> QED BY <1>0, <3>1
  <2> QED BY <2>1
<1>5. IsFiniteSet(a + 1..b) /\ Cardinality(a + 1..b) = b - a
  BY FS_Interval
<1>6. Cardinality(D) <= b - a
  BY <1>4, <1>5, FS_Subset
<1>7. Cardinality(D) = Cardinality(B) - Cardinality(A)
  <2>1. B \cap A = A
    BY <1>1
  <2>2. Cardinality(D) = Cardinality(B) - Cardinality(B \cap A)
    BY <1>2, FS_Difference
  <2> QED BY <2>1, <2>2
<1>8. Below(S, a) = Cardinality(A) /\ Below(S, b) = Cardinality(B)
  BY DEF Below
<1> HIDE DEF A, B, D
<1> QED BY <1>2, <1>3, <1>6, <1>7, <1>8

\* Compacting leaves 1, 2, ... in use.
LEMMA BelowDense ==
    ASSUME NEW n \in Nat, NEW S \in SUBSET 1..n
    PROVE  {Below(S, a) : a \in S} = 1..Cardinality(S)
<1> DEFINE k == Cardinality(S)
           f == [a \in S |-> Below(S, a)]
<1>1. IsFiniteSet(S) /\ k \in 0..n /\ IsFiniteSet(1..k) /\ Cardinality(1..k) = k
  <2>1. IsFiniteSet(S) /\ k \in 0..n
    BY Finite
  <2>2. 1 \in Int /\ k \in Int /\ (1 > k => k = 0)
    BY <2>1
  <2> HIDE DEF k
  <2>3. IsFiniteSet(1..k) /\ Cardinality(1..k) = IF 1 > k THEN 0 ELSE k - 1 + 1
    BY <2>2, FS_Interval
  <2> QED BY <2>1, <2>2, <2>3
<1>2. ASSUME NEW a \in S PROVE Below(S, a) \in 1..k
  <2>1. Below(S, a) \in 0..a /\ Below(S, a) # 0
    BY BelowBound
  <2>2. {v \in S : v <= a} \in SUBSET S
    OBVIOUS
  <2>3. Below(S, a) <= k
    BY <2>2, Finite DEF Below
  <2> QED BY <1>1, <2>1, <2>3
<1>3. ASSUME NEW a \in S, NEW b \in S, Below(S, a) = Below(S, b) PROVE a = b
  <2>1. ~(a < b) /\ ~(b < a)
    BY <1>2, <1>3, BelowOrder
  <2> QED BY <2>1
<1>4. f \in Injection(S, 1..k)
  BY <1>2, <1>3 DEF Injection, IsInjective
<1>5. f \in Surjection(S, 1..k)
  BY <1>1, <1>4, FS_Injection
<1>6. \A m \in 1..k : \E a \in S : Below(S, a) = m
  BY <1>5 DEF Surjection
<1> QED BY <1>2, <1>6

RankType == [Applicants -> {0} \cup Ranks]
Used(read) == {read[x] : x \in {y \in Applicants : read[y] # 0}}

\* What compactRanks does to the ranks it is given.
LEMMA Compacted ==
    ASSUME NEW read \in RankType
    PROVE  /\ compactRanks(read) \in RankType
           /\ \A d \in Applicants :
                /\ compactRanks(read)[d] = 0 <=> read[d] = 0
                /\ compactRanks(read)[d] <= read[d]
           /\ \A x, y \in Applicants :
                /\ read[x] = read[y] => compactRanks(read)[x] = compactRanks(read)[y]
                /\ read[x] # 0 /\ read[x] < read[y] =>
                     /\ compactRanks(read)[x] < compactRanks(read)[y]
                     /\ compactRanks(read)[y] - compactRanks(read)[x] <= read[y] - read[x]
           /\ \E n \in 0..N :
                {compactRanks(read)[d] : d \in {y \in Applicants : read[y] # 0}} = 1..n
<1> DEFINE S == Used(read)
           c == compactRanks(read)
<1>1. N \in Nat /\ Ranks = 1..N
  BY Size
<1>2. \A d \in Applicants : read[d] \in 0..N /\ (read[d] # 0 => read[d] \in 1..N /\ read[d] \in S)
  BY <1>1 DEF RankType, Used
<1>3. S \in SUBSET 1..N
  BY <1>2 DEF Used
<1>4. ASSUME NEW d \in Applicants PROVE c[d] = Below(S, read[d])
  <2>1. {read[x] : x \in {y \in Applicants : read[y] # 0 /\ read[y] <= read[d]}}
          = {v \in S : v <= read[d]}
    BY DEF Used
  <2> QED BY <2>1 DEF compactRanks, Below
<1> HIDE DEF S
<1>5. ASSUME NEW d \in Applicants
      PROVE  c[d] \in 0..N /\ c[d] <= read[d] /\ (c[d] = 0 <=> read[d] = 0)
  <2>1. /\ Below(S, read[d]) \in 0..read[d]
        /\ read[d] \in S => Below(S, read[d]) # 0
        /\ read[d] = 0 => Below(S, read[d]) = 0
    BY <1>1, <1>2, <1>3, BelowBound
  <2> QED BY <1>1, <1>2, <1>4, <2>1
<1>6. c \in RankType
  <2>1. c = [d \in Applicants |-> c[d]]
    BY DEF compactRanks
  <2>2. \A d \in Applicants : c[d] \in {0} \cup Ranks
    BY <1>1, <1>5
  <2> HIDE DEF c
  <2> QED BY <2>1, <2>2 DEF RankType
<1>7. ASSUME NEW x \in Applicants, NEW y \in Applicants, read[x] # 0, read[x] < read[y]
      PROVE  c[x] < c[y] /\ c[y] - c[x] <= read[y] - read[x]
  <2>1. read[x] \in 1..N /\ read[y] \in 1..N /\ read[y] \in S
    BY <1>1, <1>2, <1>7
  <2>2. /\ Below(S, read[x]) < Below(S, read[y])
        /\ Below(S, read[y]) - Below(S, read[x]) <= read[y] - read[x]
    BY <1>1, <1>3, <1>7, <2>1, BelowOrder
  <2> QED BY <1>4, <2>2
<1>8. ASSUME NEW x \in Applicants, NEW y \in Applicants, read[x] = read[y] PROVE c[x] = c[y]
  BY <1>4, <1>8
<1>9. \E n \in 0..N : {c[d] : d \in {y \in Applicants : read[y] # 0}} = 1..n
  <2>1. {c[d] : d \in {y \in Applicants : read[y] # 0}} = {Below(S, a) : a \in S}
    <3>1. \A d \in {y \in Applicants : read[y] # 0} : c[d] = Below(S, read[d]) /\ read[d] \in S
      BY <1>2, <1>4
    <3>2. \A a \in S : \E d \in {y \in Applicants : read[y] # 0} : read[d] = a
      BY DEF S, Used
    <3> HIDE DEF c
    <3> QED BY <3>1, <3>2
  <2>2. {Below(S, a) : a \in S} = 1..Cardinality(S) /\ Cardinality(S) \in 0..N
    BY <1>1, <1>3, BelowDense, Finite
  <2> QED BY <2>1, <2>2
<1> HIDE DEF c
<1>10. /\ \A d \in Applicants : (c[d] = 0 <=> read[d] = 0) /\ c[d] <= read[d]
       /\ \A x, y \in Applicants :
            /\ read[x] = read[y] => c[x] = c[y]
            /\ read[x] # 0 /\ read[x] < read[y] => c[x] < c[y] /\ c[y] - c[x] <= read[y] - read[x]
  BY <1>5, <1>7, <1>8
<1> QED BY <1>6, <1>9, <1>10 DEF c

-----------------------------------------------------------------------------
(***************************************************************************)
(* The inductive invariant.                                                *)
(***************************************************************************)
Reading == {"commit", "reorder"}

ReqType == [at : {"idle", "check", "decide", "commit", "reorder"},
            who : Seq(Applicants), type : {"Accepted", "Rejected"},
            order : Seq(Applicants), read : RankType, passed : 0..2, moved : BOOLEAN]

Type ==
    /\ rank \in RankType
    /\ out \in [Applicants -> SUBSET {"Accepted", "Rejected"}]
    /\ req \in [Requests -> ReqType]
    /\ asked \in 0..MaxAsked
    /\ settled \in BOOLEAN /\ outrun \in BOOLEAN

\* An applicant with an outcome had an entry.
Had == \A d \in Applicants : out[d] # {} => rank[d] # 0

\* An order names each entry once, and its request has read those.
Placed(r) ==
    /\ Len(r.order) \in 0..N
    /\ \A i, j \in 1..Len(r.order) : r.order[i] = r.order[j] => i = j
    /\ \A d \in Applicants : r.read[d] # 0 <=> d \in ToSet(r.order)

\* Where a request stands, it has what its next step takes; entries it has read
\* are still entries, since no write makes or ends one.
Ready(p) ==
    /\ req[p].at \notin Reading => req[p].passed = 0 /\ ~req[p].moved
    /\ req[p].at \in {"check", "decide", "commit"} => req[p].who # <<>>
    /\ req[p].at \in {"decide", "commit"} => rank[Head(req[p].who)] # 0
    /\ req[p].at \in Reading => \A d \in Applicants : req[p].read[d] # 0 => rank[d] # 0
    /\ req[p].at = "reorder" => Placed(req[p])

Stay(p) == Active \ {Head(req[p].who)}

\* What a transaction that nothing overtook has read is what the table holds.
Fresh(p) ==
    req[p].at \in Reading /\ ~req[p].moved /\ req[p].passed = 0 =>
        /\ \A d \in Applicants : req[p].read[d] # 0 => rank[d] = req[p].read[d]
        /\ req[p].at = "commit" => \A d \in Applicants : req[p].read[d] # 0 <=> d \in Stay(p)

\* What a decision has read that only fresh ones overtook is never below what the
\* table holds, and in the same order.
Shifted(p) ==
    req[p].at = "commit" /\ ~req[p].moved /\ req[p].passed # 2 =>
        /\ \A x \in Stay(p) : req[p].read[x] # 0 /\ rank[x] <= req[p].read[x]
        /\ \A x, y \in Stay(p) : req[p].read[x] < req[p].read[y] <=> rank[x] < rank[y]

IInv ==
    /\ Type /\ Had /\ TiesResolved
    /\ \A p \in Requests : Ready(p) /\ Fresh(p) /\ Shifted(p)

\* A request that is not in a transaction.
Quiet(r) ==
    /\ r \in ReqType
    /\ r.at \in {"idle", "check"} /\ r.passed = 0 /\ ~r.moved
    /\ r.at = "check" => r.who # <<>>

LEMMA QuietIdle ==
    /\ Quiet(Idle)
    /\ \A who \in Seq(Applicants), type \in {"Accepted", "Rejected"} :
         who # <<>> => Quiet([Idle EXCEPT !.at = "check", !.who = who, !.type = type])
<1>1. [d \in Applicants |-> 0] \in RankType
  BY DEF RankType
<1>2. <<>> \in Seq(Applicants)
  OBVIOUS
<1>3. Quiet(Idle)
  BY <1>1, <1>2 DEF Quiet, Idle, ReqType
<1>4. ASSUME NEW who \in Seq(Applicants), NEW type \in {"Accepted", "Rejected"}, who # <<>>
      PROVE  Quiet([Idle EXCEPT !.at = "check", !.who = who, !.type = type])
  <2>1. ASSUME NEW r \in ReqType, r.passed = 0, ~r.moved
        PROVE  Quiet([r EXCEPT !.at = "check", !.who = who, !.type = type])
    BY <1>4, <2>1 DEF Quiet, ReqType
  <2>2. Idle \in ReqType /\ Idle.passed = 0 /\ ~Idle.moved
    BY <1>3 DEF Quiet, Idle
  <2> QED BY <2>1, <2>2
<1> QED BY <1>3, <1>4

\* A bulk removal goes on with the next entry, or is done.
LEMMA QuietFollowing ==
    ASSUME NEW r \in ReqType, r.who # <<>>
    PROVE  Quiet(Following(r)) /\ Head(r.who) \in Applicants
<1>1. r.who \in Seq(Applicants) /\ r.type \in {"Accepted", "Rejected"}
  BY DEF ReqType
<1>2. Head(r.who) \in Applicants /\ Len(r.who) \in Nat \ {0}
  BY <1>1
<1>3. CASE Len(r.who) <= 1
  BY <1>2, <1>3, QuietIdle DEF Following
<1>4. CASE ~(Len(r.who) <= 1)
  <2> DEFINE rest == Tail(r.who)
  <2>1. rest \in Seq(Applicants) /\ Len(rest) = Len(r.who) - 1
    BY <1>1
  <2>2. Following(r) = [Idle EXCEPT !.at = "check", !.who = rest, !.type = r.type]
    BY <1>4 DEF Following
  <2> HIDE DEF rest
  <2>3. ASSUME NEW n \in Nat \ {0}, ~(n <= 1) PROVE n - 1 # 0
    BY <2>3
  <2>4. Len(rest) # 0
    BY <1>2, <1>4, <2>1, <2>3
  <2>5. rest # <<>>
    BY <2>4
  <2>6. Quiet([Idle EXCEPT !.at = "check", !.who = rest, !.type = r.type])
    BY <1>1, <2>1, <2>5, QuietIdle
  <2> QED BY <1>2, <2>2, <2>6
<1> QED BY <1>3, <1>4

\* What the invariant says of a request is about the request, the ranks and the
\* outcomes alone.
LEMMA RequestSame ==
    ASSUME NEW q \in Requests, req'[q] = req[q], UNCHANGED <<rank, out>>,
           Ready(q), Fresh(q), Shifted(q)
    PROVE  Ready(q)' /\ Fresh(q)' /\ Shifted(q)'
<1>1. Active' = Active /\ Stay(q)' = Stay(q)
  BY DEF Active, Stay
<1> QED BY <1>1 DEF Ready, Fresh, Shifted

LEMMA RequestQuiet ==
    ASSUME NEW q \in Requests, Quiet(req'[q])
    PROVE  Ready(q)' /\ Fresh(q)' /\ Shifted(q)'
BY DEF Quiet, Ready, Fresh, Shifted, Reading

\* A step of one request that writes no entry.
LEMMA Alone ==
    ASSUME IInv, NEW p \in Requests, NEW r \in ReqType, Becomes(p, r),
           UNCHANGED <<rank, out, settled, outrun>>, asked' \in 0..MaxAsked,
           Ready(p)' /\ Fresh(p)' /\ Shifted(p)'
    PROVE  IInv'
<1>1. Type' /\ Had' /\ TiesResolved'
  BY DEF IInv, Type, Had, TiesResolved, Active, Becomes
<1>2. ASSUME NEW q \in Requests PROVE Ready(q)' /\ Fresh(q)' /\ Shifted(q)'
  <2>1. CASE q = p
    BY <2>1
  <2>2. CASE q # p
    <3>1. req'[q] = req[q]
      BY <2>2 DEF Becomes, IInv, Type
    <3> QED BY <3>1, RequestSame DEF IInv
  <2> QED BY <2>1, <2>2
<1> QED BY <1>1, <1>2 DEF IInv

LEMMA AloneQuiet ==
    ASSUME IInv, NEW p \in Requests, NEW r, Quiet(r), Becomes(p, r),
           UNCHANGED <<rank, out, settled, outrun>>, asked' \in 0..MaxAsked
    PROVE  IInv'
<1>1. req'[p] = r /\ r \in ReqType
  BY DEF Becomes, IInv, Type, Quiet
<1> QED BY <1>1, RequestQuiet, Alone

-----------------------------------------------------------------------------
(***************************************************************************)
(* The steps that write no entry.                                          *)
(***************************************************************************)
\* An arrangement of some entries is a list of applicants without repetition.
LEMMA Arranged ==
    ASSUME NEW S \in SUBSET Applicants, NEW s \in SetToSeqs(S)
    PROVE  /\ s \in Seq(Applicants) /\ Len(s) = Cardinality(S) /\ Len(s) \in 0..N
           /\ ToSet(s) \in SUBSET S
           /\ \A i, j \in 1..Len(s) : s[i] = s[j] => i = j
<1>1. Cardinality(S) \in 0..N
  <2>1. IsFiniteSet(S) /\ Cardinality(S) <= N
    BY WaitlistAssumption, FS_Subset DEF N
  <2> QED BY <2>1, Size, FS_CardinalityType
<1>2. s \in [1..Cardinality(S) -> S] /\ \A i, j \in 1..Cardinality(S) : i # j => s[i] # s[j]
  BY DEF SetToSeqs
<1>3. s \in Seq(S) /\ Len(s) = Cardinality(S)
  BY <1>1, <1>2
<1>4. s \in Seq(Applicants)
  BY <1>3
<1>5. ToSet(s) \in SUBSET S
  BY <1>2 DEF ToSet
<1> QED BY <1>1, <1>2, <1>3, <1>4, <1>5

\* A request comes in: an acceptance, a removal, an order.
LEMMA StartRemoval ==
    ASSUME IInv, NEW p \in Requests, NEW who \in Seq(Applicants), who # <<>>,
           NEW type \in {"Accepted", "Rejected"},
           Ask(p, [Idle EXCEPT !.at = "check", !.who = who, !.type = type])
    PROVE  IInv'
<1>1. Quiet([Idle EXCEPT !.at = "check", !.who = who, !.type = type])
  BY QuietIdle
<1>2. asked' \in 0..MaxAsked
  BY WaitlistAssumption DEF Ask, Free, IInv, Type
<1> QED BY <1>1, <1>2, AloneQuiet DEF Ask

LEMMA StartOrder ==
    ASSUME IInv, NEW p \in Requests, NEW S \in SUBSET Active, NEW order \in SetToSeqs(S),
           reorderWaitlist(p, order)
    PROVE  IInv'
<1> DEFINE read == [d \in Applicants |-> IF d \in ToSet(order) THEN rank[d] ELSE 0]
           r == [Idle EXCEPT !.at = "reorder", !.order = order, !.read = read]
<1>1. S \in SUBSET Applicants /\ \A d \in S : rank[d] # 0
  BY DEF Active
<1>2. /\ order \in Seq(Applicants) /\ Len(order) \in 0..N /\ ToSet(order) \in SUBSET S
      /\ \A i, j \in 1..Len(order) : order[i] = order[j] => i = j
  BY <1>1, Arranged
<1>3. /\ read \in RankType
      /\ \A d \in Applicants : read[d] # 0 <=> d \in ToSet(order)
      /\ \A d \in Applicants : read[d] # 0 => rank[d] # 0 /\ rank[d] = read[d]
  BY <1>1, <1>2 DEF IInv, Type, RankType
<1>4. Ask(p, r)
  BY DEF reorderWaitlist
<1> HIDE DEF read
<1>5. /\ r \in ReqType /\ r.at = "reorder" /\ r.passed = 0 /\ ~r.moved /\ r.read = read
      /\ r.order = order
  <2>1. ASSUME NEW i \in ReqType, i.passed = 0, ~i.moved
        PROVE  LET j == [i EXCEPT !.at = "reorder", !.order = order, !.read = read]
               IN  /\ j \in ReqType /\ j.at = "reorder" /\ j.passed = 0 /\ ~j.moved
                   /\ j.read = read /\ j.order = order
    BY <1>2, <1>3, <2>1 DEF ReqType
  <2>2. Idle \in ReqType /\ Idle.passed = 0 /\ ~Idle.moved
    BY QuietIdle DEF Quiet
  <2> QED BY <2>1, <2>2
<1> HIDE DEF r
<1>6. req'[p] = r /\ rank' = rank
  BY <1>4 DEF Ask, Becomes, IInv, Type
<1>7. Placed(r)
  BY <1>2, <1>3, <1>5 DEF Placed
<1>8. Ready(p)' /\ Fresh(p)' /\ Shifted(p)'
  BY <1>3, <1>5, <1>6, <1>7 DEF Ready, Fresh, Shifted, Reading
<1>9. asked' \in 0..MaxAsked
  BY <1>4, WaitlistAssumption DEF Ask, Free, IInv, Type
<1> QED BY <1>4, <1>5, <1>8, <1>9, Alone DEF Ask

LEMMA CheckStep ==
    ASSUME IInv, NEW p \in Requests, Check(p)
    PROVE  IInv'
<1> DEFINE r == req[p]
           s == [r EXCEPT !.at = "decide"]
<1>1. /\ r \in ReqType /\ r.at = "check" /\ r.who # <<>> /\ r.passed = 0 /\ ~r.moved
      /\ asked' \in 0..MaxAsked
  BY DEF Check, IInv, Type, Ready, Reading
<1>2. CASE Head(r.who) \in Active
  <2>1. Becomes(p, s)
    BY <1>2 DEF Check
  <2>2. /\ s \in ReqType /\ s.at = "decide" /\ s.who = r.who /\ s.passed = 0 /\ ~s.moved
    BY <1>1 DEF ReqType
  <2>3. rank[Head(r.who)] # 0
    BY <1>2 DEF Active
  <2> HIDE DEF s
  <2>4. req'[p] = s /\ rank' = rank
    BY <2>1 DEF Becomes, IInv, Type, Check
  <2>5. Ready(p)' /\ Fresh(p)' /\ Shifted(p)'
    BY <1>1, <2>2, <2>3, <2>4 DEF Ready, Fresh, Shifted, Reading
  <2> QED BY <1>1, <2>1, <2>2, <2>5, Alone DEF Check
<1>3. CASE Head(r.who) \notin Active
  <2>1. Becomes(p, Following(r))
    BY <1>3 DEF Check
  <2>2. Quiet(Following(r))
    BY <1>1, QuietFollowing
  <2> QED BY <1>1, <2>1, <2>2, AloneQuiet DEF Check
<1> QED BY <1>2, <1>3

LEMMA FailStep ==
    ASSUME IInv, NEW p \in Requests, Fail(p)
    PROVE  IInv'
<1>1. asked' \in 0..MaxAsked
  BY DEF Fail, IInv, Type
<1> QED BY <1>1, QuietIdle, AloneQuiet DEF Fail

LEMMA DecideStep ==
    ASSUME IInv, NEW p \in Requests, Decide(p)
    PROVE  IInv'
<1> DEFINE r == req[p]
           read == [d \in Applicants |-> IF d \in Active \ {Head(r.who)} THEN rank[d] ELSE 0]
           s == [r EXCEPT !.at = "commit", !.read = read]
<1>1. /\ r \in ReqType /\ r.at = "decide" /\ r.who # <<>> /\ r.passed = 0 /\ ~r.moved
      /\ rank[Head(r.who)] # 0
      /\ asked' \in 0..MaxAsked
  BY DEF Decide, IInv, Type, Ready, Reading
<1>2. /\ read \in RankType
      /\ \A d \in Applicants : read[d] # 0 <=> d \in Stay(p)
      /\ \A d \in Applicants : read[d] # 0 => rank[d] # 0 /\ rank[d] = read[d]
  BY DEF IInv, Type, RankType, Active, Stay
<1>3. Becomes(p, s)
  BY DEF Decide
<1> HIDE DEF read
<1>4. /\ s \in ReqType /\ s.at = "commit" /\ s.who = r.who /\ s.passed = 0 /\ ~s.moved
      /\ s.read = read
  BY <1>1, <1>2 DEF ReqType
<1> HIDE DEF s
<1>5. req'[p] = s /\ rank' = rank /\ out' = out
  BY <1>3 DEF Becomes, IInv, Type, Decide
<1>6. Stay(p)' = Stay(p) /\ Stay(p) \in SUBSET Applicants
  BY <1>4, <1>5 DEF Stay, Active
<1>7. Ready(p)'
  BY <1>1, <1>2, <1>4, <1>5 DEF Ready, Reading
<1>8. Fresh(p)'
  BY <1>2, <1>4, <1>5, <1>6 DEF Fresh, Reading
<1>9. Shifted(p)'
  <2>1. /\ \A x \in Stay(p) : read[x] # 0 /\ rank[x] = read[x] /\ rank[x] <= read[x]
    BY <1>2, <1>6, Size DEF RankType
  <2> QED BY <1>4, <1>5, <1>6, <2>1 DEF Shifted
<1> QED BY <1>1, <1>3, <1>4, <1>7, <1>8, <1>9, Alone DEF Decide

-----------------------------------------------------------------------------
(***************************************************************************)
(* The steps that write entries: what the ranks and the other requests     *)
(* become.                                                                 *)
(***************************************************************************)
\* Whoever's writes come last, a rank stays a rank and no entry comes or goes.
LEMMA Written ==
    ASSUME rank \in RankType, NEW read \in RankType, NEW new \in RankType, Write(read, new),
           \A d \in Applicants : (new[d] = 0 <=> read[d] = 0) /\ (read[d] # 0 => rank[d] # 0)
    PROVE  /\ rank' \in RankType
           /\ \A d \in Applicants :
                /\ new[d] = read[d] => rank'[d] = rank[d]
                /\ new[d] # read[d] => rank'[d] = new[d]
                /\ rank[d] # 0 <=> rank'[d] # 0
<1>1. \A d \in Applicants : rank[d] \in {0} \cup Ranks /\ new[d] \in {0} \cup Ranks
  BY DEF RankType
<1>2. ASSUME NEW d \in Applicants
      PROVE  /\ rank'[d] \in {0} \cup Ranks
             /\ new[d] = read[d] => rank'[d] = rank[d]
             /\ new[d] # read[d] => rank'[d] = new[d]
             /\ rank[d] # 0 <=> rank'[d] # 0
  <2>1. CASE new[d] = read[d]
    BY <1>1, <2>1 DEF Write
  <2>2. CASE new[d] # read[d]
    BY <1>1, <2>2 DEF Write
  <2> QED BY <2>1, <2>2
<1>3. rank' = [d \in Applicants |-> rank'[d]]
  BY DEF Write
<1> QED BY <1>2, <1>3 DEF RankType

\* What a commit of p does to a request q.
PassedBy(p, q, decision) ==
    /\ req'[q].at = req[q].at /\ req'[q].who = req[q].who
    /\ req'[q].order = req[q].order /\ req'[q].read = req[q].read
    /\ req[q].at \notin Reading => req'[q] = req[q]
    /\ req[q].at \in Reading /\ ~req'[q].moved =>
         decision /\ ~req[p].moved /\ ~req[q].moved /\ req'[q].passed # 0
    /\ req[q].at \in Reading /\ ~req'[q].moved /\ req'[q].passed # 2 =>
         req[p].passed = 0 /\ req[q].passed # 2

LEMMA Passed ==
    ASSUME req \in [Requests -> ReqType], NEW p \in Requests, NEW r, Quiet(r),
           NEW decision \in BOOLEAN, After(p, r, decision)
    PROVE  /\ req' \in [Requests -> ReqType]
           /\ req'[p] = r
           /\ \A q \in Requests \ {p} : PassedBy(p, q, decision)
<1>1. ASSUME NEW q \in Requests \ {p} PROVE req'[q] \in ReqType /\ PassedBy(p, q, decision)
  <2>1. req[q] \in ReqType
    OBVIOUS
  <2>2. CASE req[q].at \notin Reading
    BY <2>1, <2>2 DEF After, Reading, PassedBy
  <2>3. CASE req[q].at \in Reading /\ decision /\ ~req[p].moved
    <3> DEFINE n == IF req[q].passed # 2 /\ req[p].passed = 0 THEN 1 ELSE 2
    <3>1. req'[q] = [req[q] EXCEPT !.passed = n]
      BY <2>3 DEF After, Reading
    <3>2. n \in 0..2 /\ n # 0 /\ (n # 2 => req[p].passed = 0 /\ req[q].passed # 2)
      OBVIOUS
    <3> HIDE DEF n
    <3>3. ASSUME NEW s \in ReqType
          PROVE  LET t == [s EXCEPT !.passed = n]
                 IN  /\ t \in ReqType /\ t.passed = n
                     /\ t.at = s.at /\ t.who = s.who /\ t.order = s.order
                     /\ t.read = s.read /\ t.moved = s.moved
      BY <3>2 DEF ReqType
    <3>4. /\ req'[q] \in ReqType /\ req'[q].passed = n
          /\ req'[q].at = req[q].at /\ req'[q].who = req[q].who /\ req'[q].order = req[q].order
          /\ req'[q].read = req[q].read /\ req'[q].moved = req[q].moved
      BY <2>1, <3>1, <3>3
    <3> QED BY <2>3, <3>2, <3>4 DEF PassedBy
  <2>4. CASE req[q].at \in Reading /\ ~(decision /\ ~req[p].moved)
    <3>1. req'[q] = [req[q] EXCEPT !.moved = TRUE]
      BY <2>4 DEF After, Reading
    <3>2. ASSUME NEW s \in ReqType
          PROVE  LET t == [s EXCEPT !.moved = TRUE]
                 IN  /\ t \in ReqType /\ t.moved
                     /\ t.at = s.at /\ t.who = s.who /\ t.order = s.order /\ t.read = s.read
      BY DEF ReqType
    <3> QED BY <2>1, <2>4, <3>1, <3>2 DEF PassedBy
  <2> QED BY <2>2, <2>3, <2>4
<1>2. req'[p] = r /\ r \in ReqType
  BY DEF After, Quiet
<1>3. req' \in [Requests -> ReqType]
  <2>1. \A q \in Requests : req'[q] \in ReqType
    BY <1>1, <1>2
  <2>2. req' = [q \in Requests |-> req'[q]]
    BY DEF After
  <2> QED BY <2>1, <2>2
<1> QED BY <1>1, <1>2, <1>3

\* Who has an entry does not change, so every other request has what it takes.
LEMMA ReadyKept ==
    ASSUME NEW q \in Requests, Ready(q), req[q] \in ReqType,
           req'[q].at = req[q].at, req'[q].who = req[q].who,
           req'[q].order = req[q].order, req'[q].read = req[q].read,
           req[q].at \notin Reading => req'[q] = req[q],
           \A d \in Applicants : rank[d] # 0 => rank'[d] # 0
    PROVE  Ready(q)'
<1>1. req[q].who # <<>> => Head(req[q].who) \in Applicants
  BY DEF ReqType
<1> QED BY <1>1 DEF Ready, Reading, Placed

-----------------------------------------------------------------------------
(***************************************************************************)
(* The commit of a decision.                                               *)
(***************************************************************************)
\* Everyone but the one decided stays on the list.
LEMMA DecisionWrites ==
    ASSUME IInv, NEW p \in Requests, CommitDecision(p)
    PROVE  /\ req[p] \in ReqType /\ req[p].at = "commit" /\ req[p].who # <<>>
           /\ Head(req[p].who) \in Applicants /\ rank[Head(req[p].who)] # 0
           /\ req[p].read \in RankType
           /\ rank' \in RankType
           /\ out' \in [Applicants -> SUBSET {"Accepted", "Rejected"}]
           /\ \A d \in Applicants :
                /\ compactRanks(req[p].read)[d] = req[p].read[d] => rank'[d] = rank[d]
                /\ compactRanks(req[p].read)[d] # req[p].read[d] =>
                     rank'[d] = compactRanks(req[p].read)[d]
                /\ rank[d] # 0 <=> rank'[d] # 0
                /\ d # Head(req[p].who) => out'[d] = out[d]
           /\ Active' = Stay(p)
<1> DEFINE r == req[p]
           c == compactRanks(r.read)
           d0 == Head(r.who)
<1>1. /\ r \in ReqType /\ r.at = "commit" /\ r.who # <<>> /\ rank[d0] # 0
      /\ \A d \in Applicants : r.read[d] # 0 => rank[d] # 0
  BY DEF IInv, Type, Ready, Reading, CommitDecision
<1>2. d0 \in Applicants /\ r.read \in RankType /\ r.type \in {"Accepted", "Rejected"}
  BY <1>1 DEF ReqType
<1>3. c \in RankType /\ \A d \in Applicants : c[d] = 0 <=> r.read[d] = 0
  BY <1>2, Compacted
<1>4. Write(r.read, c)
  BY DEF CommitDecision
<1>5. rank \in RankType /\ out \in [Applicants -> SUBSET {"Accepted", "Rejected"}]
  BY DEF IInv, Type
<1> HIDE DEF c
<1>6. /\ rank' \in RankType
      /\ \A d \in Applicants :
           /\ c[d] = r.read[d] => rank'[d] = rank[d]
           /\ c[d] # r.read[d] => rank'[d] = c[d]
           /\ rank[d] # 0 <=> rank'[d] # 0
  BY <1>1, <1>2, <1>3, <1>4, <1>5, Written
<1>7. out' = [out EXCEPT ![d0] = @ \cup {r.type}]
  BY DEF CommitDecision
<1> HIDE DEF d0
<1>8. /\ out' \in [Applicants -> SUBSET {"Accepted", "Rejected"}]
      /\ \A d \in Applicants : d # d0 => out'[d] = out[d]
      /\ out'[d0] # {}
  BY <1>2, <1>5, <1>7
<1>9. Active' = Active \ {d0}
  <2>1. \A d \in Applicants : d \in Active' <=> d \in Active /\ d # d0
    BY <1>6, <1>8 DEF Active
  <2>2. Active' \in SUBSET Applicants /\ Active \in SUBSET Applicants
    BY DEF Active
  <2> QED BY <2>1, <2>2
<1> QED BY <1>1, <1>2, <1>6, <1>8, <1>9 DEF c, d0, Stay

\* The order and the ties hold if only decisions that nothing had passed went by.
LEMMA OrderStep ==
    ASSUME IInv, NEW p \in Requests, CommitDecision(p), ~req[p].moved, req[p].passed # 2,
           NEW x \in Stay(p), NEW y \in Stay(p)
    PROVE  rank[x] < rank[y] <=> rank'[x] < rank'[y]
<1> DEFINE read == req[p].read
           c == compactRanks(read)
<1>1. read \in RankType /\ Stay(p) \in SUBSET Applicants
  BY DecisionWrites DEF Stay, Active
<1>2. rank \in RankType /\ rank' \in RankType
  BY DecisionWrites DEF IInv, Type
<1>3. \A d \in Stay(p) : /\ c[d] = read[d] => rank'[d] = rank[d]
                         /\ c[d] # read[d] => rank'[d] = c[d]
  BY <1>1, DecisionWrites
<1>4. /\ \A d \in Stay(p) : read[d] # 0 /\ rank[d] <= read[d]
      /\ \A v, w \in Stay(p) : read[v] < read[w] <=> rank[v] < rank[w]
  <2>1. req[p].at = "commit"
    BY DEF CommitDecision
  <2> QED BY <2>1 DEF IInv, Shifted
<1>5. /\ \A d \in Stay(p) : c[d] <= read[d]
      /\ \A v, w \in Stay(p) :
           /\ read[v] = read[w] => c[v] = c[w]
           /\ read[v] < read[w] => c[v] < c[w] /\ c[w] - c[v] <= read[w] - read[v]
  BY <1>1, <1>4, Compacted
<1>6. \A d \in Stay(p) : read[d] \in Nat /\ c[d] \in Nat /\ rank[d] \in Nat /\ rank'[d] \in Nat
  <2>1. c \in RankType
    BY <1>1, Compacted
  <2>2. \A v \in {0} \cup Ranks : v \in Nat
    BY Size
  <2> HIDE DEF c, read
  <2> QED BY <1>1, <1>2, <2>1, <2>2 DEF RankType
<1> HIDE DEF c, read
<1>7. ASSUME NEW v \in Stay(p), NEW w \in Stay(p), read[v] < read[w] PROVE rank'[v] < rank'[w]
  <2>1. CASE c[v] = read[v]
    <3>1. rank'[v] = rank[v] /\ rank[v] <= read[v] /\ rank[v] < rank[w]
      BY <1>3, <1>4, <1>7, <2>1
    <3> QED BY <1>3, <1>5, <1>6, <1>7, <2>1, <3>1
  <2>2. CASE c[v] # read[v]
    <3>1. c[v] < read[v] /\ c[w] - c[v] <= read[w] - read[v] /\ c[v] < c[w]
      BY <1>5, <1>6, <1>7, <2>2
    <3>2. c[w] # read[w]
      BY <1>6, <3>1
    <3> QED BY <1>3, <2>2, <3>1, <3>2
  <2> QED BY <2>1, <2>2
<1>8. ASSUME NEW v \in Stay(p), NEW w \in Stay(p), read[v] = read[w] PROVE rank'[v] = rank'[w]
  <2>1. rank[v] = rank[w]
    BY <1>4, <1>6, <1>8
  <2> QED BY <1>3, <1>5, <1>8, <2>1
<1> QED BY <1>4, <1>6, <1>7, <1>8

\* A decision that nothing overtook leaves the compacted ranks.
LEMMA DecisionFresh ==
    ASSUME IInv, NEW p \in Requests, CommitDecision(p), ~req[p].moved, req[p].passed = 0
    PROVE  /\ \A x \in Stay(p) : rank'[x] = compactRanks(req[p].read)[x] /\ req[p].read[x] = rank[x]
           /\ Stay(p) = {d \in Applicants : req[p].read[d] # 0}
<1>1. /\ \A d \in Applicants : req[p].read[d] # 0 => rank[d] = req[p].read[d]
      /\ \A d \in Applicants : req[p].read[d] # 0 <=> d \in Stay(p)
  BY DEF IInv, Fresh, Reading, CommitDecision
<1>2. Stay(p) \in SUBSET Applicants
  BY DEF Stay, Active
<1> QED BY <1>1, <1>2, DecisionWrites

LEMMA DecisionStep ==
    ASSUME IInv, NEW p \in Requests, CommitDecision(p)
    PROVE  IInv'
<1> DEFINE r == Following(req[p])
           d0 == Head(req[p].who)
<1>1. Quiet(r)
  BY DecisionWrites, QuietFollowing
<1>2. req \in [Requests -> ReqType] /\ After(p, r, TRUE)
  BY DEF IInv, Type, CommitDecision
<1> HIDE DEF r
<1>3. /\ req' \in [Requests -> ReqType]
      /\ req'[p] = r
      /\ \A q \in Requests \ {p} : PassedBy(p, q, TRUE)
  BY <1>1, <1>2, Passed
<1>4. Type'
  <2>1. rank' \in RankType /\ out' \in [Applicants -> SUBSET {"Accepted", "Rejected"}]
    BY DecisionWrites
  <2>2. asked' \in 0..MaxAsked /\ settled' \in BOOLEAN /\ outrun' \in BOOLEAN
    BY DEF IInv, Type, CommitDecision
  <2> QED BY <1>3, <2>1, <2>2 DEF Type
<1>5. Had'
  <2>1. \A d \in Applicants : out[d] # {} => rank[d] # 0
    BY DEF IInv, Had
  <2>2. \A d \in Applicants : out'[d] # {} => rank'[d] # 0
    BY <2>1, DecisionWrites
  <2> QED BY <2>2 DEF Had
<1>6. TiesResolved'
  <2> SUFFICES ASSUME settled', ~outrun' PROVE \A x, y \in Active' : x # y => rank'[x] # rank'[y]
    BY DEF TiesResolved
  <2>1. settled /\ ~outrun /\ ~req[p].moved /\ req[p].passed # 2
    BY DEF CommitDecision
  <2>2. Active' = Stay(p) /\ Stay(p) \in SUBSET Active /\ Active \in SUBSET Applicants
    BY DecisionWrites DEF Stay, Active
  <2>3. \A x, y \in Active : x # y => rank[x] # rank[y]
    BY <2>1 DEF IInv, TiesResolved
  <2>4. \A x \in Active : rank[x] \in Nat /\ rank'[x] \in Nat
    <3>1. \A v \in {0} \cup Ranks : v \in Nat
      BY Size
    <3> QED BY <2>2, <3>1, DecisionWrites DEF IInv, Type, RankType
  <2>5. \A x, y \in Stay(p) : rank[x] < rank[y] <=> rank'[x] < rank'[y]
    BY <2>1, OrderStep
  <2>6. ASSUME NEW x \in Stay(p), NEW y \in Stay(p), x # y PROVE rank'[x] # rank'[y]
    <3>1. rank[x] < rank[y] \/ rank[y] < rank[x]
      BY <2>2, <2>3, <2>4, <2>6
    <3> QED BY <2>2, <2>4, <2>5, <3>1
  <2> QED BY <2>2, <2>6
<1>7. ASSUME NEW q \in Requests PROVE Ready(q)' /\ Fresh(q)' /\ Shifted(q)'
  <2>1. CASE q = p
    BY <1>1, <1>3, <2>1, RequestQuiet
  <2>2. CASE q # p
    <3>1. /\ req'[q].at = req[q].at /\ req'[q].who = req[q].who
          /\ req'[q].order = req[q].order /\ req'[q].read = req[q].read
          /\ req[q].at \notin Reading => req'[q] = req[q]
          /\ req[q].at \in Reading /\ ~req'[q].moved =>
               ~req[p].moved /\ ~req[q].moved /\ req'[q].passed # 0
          /\ req[q].at \in Reading /\ ~req'[q].moved /\ req'[q].passed # 2 =>
               req[p].passed = 0 /\ req[q].passed # 2
      BY <1>3, <2>2 DEF PassedBy
    <3>2. Ready(q)'
      <4>1. \A d \in Applicants : rank[d] # 0 => rank'[d] # 0
        BY DecisionWrites
      <4>2. Ready(q) /\ req[q] \in ReqType
        BY <1>2 DEF IInv
      <4> QED BY <3>1, <4>1, <4>2, ReadyKept
    <3>3. Fresh(q)'
      BY <3>1 DEF Fresh
    <3>4. Shifted(q)'
      <4> SUFFICES ASSUME req'[q].at = "commit", ~req'[q].moved, req'[q].passed # 2
                   PROVE  /\ \A x \in Stay(q)' : req'[q].read[x] # 0 /\ rank'[x] <= req'[q].read[x]
                          /\ \A x, y \in Stay(q)' : req'[q].read[x] < req'[q].read[y]
                                                      <=> rank'[x] < rank'[y]
        BY DEF Shifted
      <4>1. ~req[p].moved /\ ~req[q].moved /\ req[p].passed = 0 /\ req[q].passed # 2
        BY <3>1 DEF Reading
      <4>2. /\ \A x \in Stay(q) : req[q].read[x] # 0 /\ rank[x] <= req[q].read[x]
            /\ \A x, y \in Stay(q) : req[q].read[x] < req[q].read[y] <=> rank[x] < rank[y]
        BY <3>1, <4>1 DEF IInv, Shifted
      <4>3. \A x \in Stay(p) : rank'[x] = compactRanks(req[p].read)[x] /\ req[p].read[x] = rank[x]
        BY <4>1, DecisionFresh
      <4>4. /\ Stay(q)' \in SUBSET Stay(p) /\ Stay(q)' \in SUBSET Stay(q)
            /\ Stay(p) \in SUBSET Applicants
        BY <3>1, DecisionWrites DEF Stay, Active
      <4>5. /\ \A x \in Stay(q)' : req'[q].read[x] # 0 /\ rank[x] <= req'[q].read[x]
            /\ \A x, y \in Stay(q)' : req'[q].read[x] < req'[q].read[y] <=> rank[x] < rank[y]
        BY <3>1, <4>2, <4>4
      <4>6. \A x \in Stay(q)' : rank'[x] <= rank[x]
        BY <4>3, <4>4, Compacted, DecisionWrites
      <4>7. \A x, y \in Stay(q)' : rank[x] < rank[y] <=> rank'[x] < rank'[y]
        BY <4>1, <4>4, OrderStep
      <4>8. \A x \in Stay(q)' : rank'[x] \in Nat /\ rank[x] \in Nat /\ req'[q].read[x] \in Nat
        <5>1. rank \in RankType /\ rank' \in RankType /\ req'[q].read \in RankType
          BY <3>1, <1>2, DecisionWrites DEF IInv, Type, ReqType
        <5>2. \A v \in {0} \cup Ranks : v \in Nat
          BY Size
        <5> QED BY <4>4, <5>1, <5>2 DEF RankType
      <4> QED BY <4>5, <4>6, <4>7, <4>8
    <3> QED BY <3>2, <3>3, <3>4
  <2> QED BY <2>1, <2>2
<1> QED BY <1>4, <1>5, <1>6, <1>7 DEF IInv

-----------------------------------------------------------------------------
(***************************************************************************)
(* The commit of an order, and a release.                                  *)
(***************************************************************************)
\* Each entry of an order gets a place of its own.
LEMMA Placing ==
    ASSUME NEW r \in ReqType, Placed(r)
    PROVE  /\ Positions(r.order) \in RankType
           /\ \A d \in Applicants : Positions(r.order)[d] = 0 <=> r.read[d] = 0
           /\ \A x, y \in Applicants :
                x \in ToSet(r.order) /\ Positions(r.order)[x] = Positions(r.order)[y] => x = y
<1> DEFINE s == r.order
           f == Positions(s)
<1>1. s \in Seq(Applicants) /\ Len(s) \in 0..N /\ DOMAIN s = 1..Len(s)
  BY DEF ReqType, Placed
<1>2. ASSUME NEW d \in Applicants
      PROVE  /\ d \in ToSet(s) => f[d] \in 1..Len(s) /\ s[f[d]] = d
             /\ d \notin ToSet(s) => f[d] = 0
  <2>1. CASE d \in ToSet(s)
    <3>1. \E i \in DOMAIN s : s[i] = d
      BY <2>1 DEF ToSet
    <3>2. f[d] = CHOOSE i \in DOMAIN s : s[i] = d
      BY <2>1 DEF Positions
    <3> QED BY <1>1, <2>1, <3>1, <3>2
  <2>2. CASE d \notin ToSet(s)
    BY <2>2 DEF Positions
  <2> QED BY <2>1, <2>2
<1>3. \A d \in Applicants : r.read[d] # 0 <=> d \in ToSet(s)
  BY DEF Placed
<1>4. f = [d \in Applicants |-> f[d]]
  BY DEF Positions
<1> HIDE DEF f, s
<1>5. \A d \in Applicants : f[d] \in {0} \cup Ranks /\ (f[d] = 0 <=> r.read[d] = 0)
  <2>1. ASSUME NEW d \in Applicants, d \in ToSet(s) PROVE f[d] \in Ranks /\ f[d] # 0
    BY <1>1, <1>2, <2>1, Size
  <2> QED BY <1>2, <1>3, <2>1
<1>6. f \in RankType
  BY <1>4, <1>5 DEF RankType
<1>7. ASSUME NEW x \in Applicants, NEW y \in Applicants, x \in ToSet(s), f[x] = f[y]
      PROVE  x = y
  <2>1. f[x] \in 1..Len(s) /\ s[f[x]] = x
    BY <1>2, <1>7
  <2>2. f[y] # 0
    BY <1>1, <1>7, <2>1
  <2>3. s[f[y]] = y
    BY <1>2, <2>2
  <2> QED BY <1>7, <2>1, <2>3
<1> QED BY <1>5, <1>6, <1>7 DEF f, s

LEMMA OrderCommitStep ==
    ASSUME IInv, NEW p \in Requests, CommitOrder(p)
    PROVE  IInv'
<1> DEFINE r == req[p]
           f == Positions(r.order)
<1>1. /\ r \in ReqType /\ r.at = "reorder" /\ Placed(r) /\ r.read \in RankType
      /\ \A d \in Applicants : r.read[d] # 0 => rank[d] # 0
      /\ rank \in RankType /\ out' = out
  BY DEF IInv, Type, ReqType, Ready, Reading, CommitOrder
<1>2. /\ f \in RankType
      /\ \A d \in Applicants : f[d] = 0 <=> r.read[d] = 0
      /\ \A x, y \in Applicants : x \in ToSet(r.order) /\ f[x] = f[y] => x = y
  BY <1>1, Placing
<1>3. Write(r.read, f)
  BY DEF CommitOrder
<1> HIDE DEF f
<1>4. /\ rank' \in RankType
      /\ \A d \in Applicants :
           /\ f[d] = r.read[d] => rank'[d] = rank[d]
           /\ f[d] # r.read[d] => rank'[d] = f[d]
           /\ rank[d] # 0 <=> rank'[d] # 0
  BY <1>1, <1>2, <1>3, Written
<1>5. req \in [Requests -> ReqType] /\ After(p, Idle, FALSE)
  BY DEF IInv, Type, CommitOrder
<1>6. /\ req' \in [Requests -> ReqType]
      /\ req'[p] = Idle
      /\ \A q \in Requests \ {p} : PassedBy(p, q, FALSE)
  BY <1>5, QuietIdle, Passed
<1>7. Type'
  <2>1. settled' \in BOOLEAN /\ outrun' = outrun /\ asked' = asked
    BY DEF CommitOrder
  <2> QED BY <1>1, <1>4, <1>6, <2>1 DEF IInv, Type
<1>8. Had'
  BY <1>1, <1>4 DEF IInv, Had
<1>9. TiesResolved'
  <2> SUFFICES ASSUME settled' PROVE \A x, y \in Active' : x # y => rank'[x] # rank'[y]
    BY DEF TiesResolved
  <2>1. ToSet(r.order) = Active /\ r.passed = 0 /\ ~r.moved
    BY DEF CommitOrder
  <2>2. Active' = Active /\ Active \in SUBSET Applicants
    BY <1>1, <1>4 DEF Active
  <2>3. \A d \in Active : rank[d] = r.read[d]
    BY <1>1, <2>1, <2>2 DEF IInv, Fresh, Reading, Placed
  <2>4. \A d \in Active : rank'[d] = f[d]
    BY <1>4, <2>2, <2>3
  <2> QED BY <1>2, <2>1, <2>2, <2>4
<1>10. ASSUME NEW q \in Requests PROVE Ready(q)' /\ Fresh(q)' /\ Shifted(q)'
  <2>1. CASE q = p
    BY <1>6, <2>1, QuietIdle, RequestQuiet
  <2>2. CASE q # p
    <3>1. /\ req'[q].at = req[q].at /\ req'[q].who = req[q].who
          /\ req'[q].order = req[q].order /\ req'[q].read = req[q].read
          /\ req[q].at \notin Reading => req'[q] = req[q]
          /\ req[q].at \in Reading => req'[q].moved
      BY <1>6, <2>2 DEF PassedBy
    <3>2. Ready(q) /\ req[q] \in ReqType
      BY <1>5 DEF IInv
    <3>3. \A d \in Applicants : rank[d] # 0 => rank'[d] # 0
      BY <1>4
    <3> QED BY <3>1, <3>2, <3>3, ReadyKept DEF Fresh, Shifted, Reading
  <2> QED BY <2>1, <2>2
<1> QED BY <1>7, <1>8, <1>9, <1>10 DEF IInv

\* A new entry moves whoever has read the ranks.
LEMMA NewEntryStep ==
    ASSUME IInv, NEW d \in Applicants, Release(d), rank[d] = 0, UNCHANGED out, settled' = FALSE,
           NEW n \in Ranks, rank' = [rank EXCEPT ![d] = n],
           req' = [q \in Requests |-> IF req[q].at \in Reading
                                     THEN [req[q] EXCEPT !.moved = TRUE] ELSE req[q]]
    PROVE  IInv'
<1>1. rank \in RankType /\ n # 0
  BY Size DEF IInv, Type
<1>2. rank' \in RankType /\ \A x \in Applicants : rank[x] # 0 => rank'[x] # 0
  BY <1>1 DEF RankType
<1>3. ASSUME NEW q \in Requests
      PROVE  /\ req'[q] \in ReqType
             /\ req'[q].at = req[q].at /\ req'[q].who = req[q].who
             /\ req'[q].order = req[q].order /\ req'[q].read = req[q].read
             /\ req[q].at \notin Reading => req'[q] = req[q]
             /\ req[q].at \in Reading => req'[q].moved
  <2>1. req[q] \in ReqType
    BY DEF IInv, Type
  <2>2. CASE req[q].at \notin Reading
    BY <2>1, <2>2
  <2>3. CASE req[q].at \in Reading
    <3>1. req'[q] = [req[q] EXCEPT !.moved = TRUE]
      BY <2>3
    <3> QED BY <2>1, <2>3, <3>1 DEF ReqType
  <2> QED BY <2>2, <2>3
<1>4. Type'
  <2>1. asked' \in 0..MaxAsked /\ outrun' = outrun
    BY WaitlistAssumption DEF IInv, Type, Release
  <2>2. req' = [q \in Requests |-> req'[q]]
    OBVIOUS
  <2> QED BY <1>2, <1>3, <2>1, <2>2 DEF IInv, Type
<1>5. Had' /\ TiesResolved'
  BY <1>2 DEF IInv, Had, TiesResolved
<1>6. ASSUME NEW q \in Requests PROVE Ready(q)' /\ Fresh(q)' /\ Shifted(q)'
  <2>1. Ready(q) /\ req[q] \in ReqType
    BY DEF IInv, Type
  <2>2. Ready(q)'
    BY <1>2, <1>3, <2>1, ReadyKept
  <2> QED BY <1>3, <2>2 DEF Fresh, Shifted, Reading
<1> QED BY <1>4, <1>5, <1>6 DEF IInv

\* An entry that ends leaves the others as they were read.
LEMMA EntryEndsStep ==
    ASSUME IInv, NEW d \in Applicants, Release(d), d \in Active, UNCHANGED <<rank, settled>>,
           NEW type \in {"Accepted", "Rejected"}, out' = [out EXCEPT ![d] = @ \cup {type}],
           req' = [q \in Requests |-> IF req[q].at \in Reading /\ req[q].passed = 0
                                     THEN [req[q] EXCEPT !.passed = 1] ELSE req[q]]
    PROVE  IInv'
<1>1. /\ out' \in [Applicants -> SUBSET {"Accepted", "Rejected"}]
      /\ \A x \in Applicants : out[x] # {} => out'[x] # {}
      /\ \A x \in Applicants : x # d => out'[x] = out[x]
  BY DEF IInv, Type
<1>2. rank[d] # 0
  BY DEF Active
<1>3. Active' \in SUBSET Active
  BY <1>1 DEF Active
<1>4. ASSUME NEW q \in Requests
      PROVE  /\ req'[q] \in ReqType
             /\ req'[q].at = req[q].at /\ req'[q].who = req[q].who
             /\ req'[q].order = req[q].order /\ req'[q].read = req[q].read
             /\ req'[q].moved = req[q].moved
             /\ req[q].at \notin Reading => req'[q] = req[q]
             /\ req[q].at \in Reading => req'[q].passed # 0
             /\ req'[q].passed # 2 => req[q].passed # 2
  <2>1. req[q] \in ReqType
    BY DEF IInv, Type
  <2>2. CASE req[q].at \in Reading /\ req[q].passed = 0
    <3>1. req'[q] = [req[q] EXCEPT !.passed = 1]
      BY <2>2
    <3> QED BY <2>1, <2>2, <3>1 DEF ReqType
  <2>3. CASE ~(req[q].at \in Reading /\ req[q].passed = 0)
    BY <2>1, <2>3
  <2> QED BY <2>2, <2>3
<1>5. Type'
  <2>1. asked' \in 0..MaxAsked /\ outrun' = outrun
    BY WaitlistAssumption DEF IInv, Type, Release
  <2>2. req' = [q \in Requests |-> req'[q]]
    OBVIOUS
  <2> QED BY <1>1, <1>4, <2>1, <2>2 DEF IInv, Type
<1>6. Had'
  <2>1. \A x \in Applicants : x # d /\ out'[x] # {} => rank'[x] # 0
    BY <1>1 DEF IInv, Had
  <2> QED BY <1>2, <2>1 DEF Had
<1>7. TiesResolved'
  BY <1>3 DEF IInv, TiesResolved, Release
<1>8. ASSUME NEW q \in Requests PROVE Ready(q)' /\ Fresh(q)' /\ Shifted(q)'
  <2>1. Ready(q) /\ Shifted(q) /\ req[q] \in ReqType
    BY DEF IInv, Type
  <2>2. Ready(q)'
    BY <1>4, <2>1, ReadyKept
  <2>3. Fresh(q)'
    BY <1>4 DEF Fresh
  <2>4. Shifted(q)'
    <3>1. Stay(q)' \in SUBSET Stay(q)
      BY <1>3, <1>4 DEF Stay
    <3> QED BY <1>4, <2>1, <3>1 DEF Shifted
  <2> QED BY <2>2, <2>3, <2>4
<1> QED BY <1>5, <1>6, <1>7, <1>8 DEF IInv

LEMMA ReleaseStep ==
    ASSUME IInv, NEW d \in Applicants, Release(d)
    PROVE  IInv'
BY NewEntryStep, EntryEndsStep DEF Release, Reading

-----------------------------------------------------------------------------
(***************************************************************************)
(* The invariant holds of every behaviour.                                 *)
(***************************************************************************)
LEMMA InitInvariant == Init => IInv
<1> SUFFICES ASSUME Init PROVE IInv
  OBVIOUS
<1>1. Quiet(Idle)
  BY QuietIdle
<1>2. \A p \in Requests : req[p] = Idle
  BY DEF Init
<1>3. Type
  <2>1. rank \in RankType /\ out \in [Applicants -> SUBSET {"Accepted", "Rejected"}]
    BY DEF Init, RankType
  <2>2. req \in [Requests -> ReqType]
    BY <1>1 DEF Init, Quiet
  <2>3. asked \in 0..MaxAsked
    BY WaitlistAssumption DEF Init
  <2>4. settled \in BOOLEAN /\ outrun \in BOOLEAN
    BY DEF Init
  <2> QED BY <2>1, <2>2, <2>3, <2>4 DEF Type
<1>4. Had /\ TiesResolved
  BY DEF Init, Had, TiesResolved
<1>5. ASSUME NEW p \in Requests PROVE Ready(p) /\ Fresh(p) /\ Shifted(p)
  BY <1>1, <1>2 DEF Quiet, Ready, Fresh, Shifted, Reading
<1> QED BY <1>3, <1>4, <1>5 DEF IInv

\* Whatever a request asks, it comes in with what its steps take.
LEMMA AskStep ==
    ASSUME IInv, NEW p \in Requests,
           \/ \E d \in Applicants : acceptFromWaitlist(p, d)
           \/ \E seen \in Viewers :
                \/ \E who \in Bulks(seen) : removeFromWaitlist(p, who)
                \/ \E order \in SetToSeqs(Active \cap seen) : reorderWaitlist(p, order)
    PROVE  IInv'
<1>1. ASSUME NEW d \in Applicants, acceptFromWaitlist(p, d) PROVE IInv'
  <2>1. <<d>> \in Seq(Applicants) /\ <<d>> # <<>>
    OBVIOUS
  <2> QED BY <1>1, <2>1, StartRemoval DEF acceptFromWaitlist
<1>2. ASSUME NEW seen \in Viewers, NEW who \in Bulks(seen), removeFromWaitlist(p, who)
      PROVE  IInv'
  <2>1. PICK S \in SUBSET (Active \cap seen) : Cardinality(S) \in 1..MaxBulk /\ who \in SetToSeqs(S)
    BY DEF Bulks
  <2>2. S \in SUBSET Applicants
    BY DEF Active
  <2>3. who \in Seq(Applicants) /\ Len(who) = Cardinality(S)
    BY <2>1, <2>2, Arranged
  <2>4. who # <<>>
    BY <2>1, <2>3
  <2> QED BY <1>2, <2>3, <2>4, StartRemoval DEF removeFromWaitlist
<1>3. ASSUME NEW seen \in Viewers, NEW order \in SetToSeqs(Active \cap seen),
             reorderWaitlist(p, order)
      PROVE  IInv'
  BY <1>3, StartOrder
<1> QED BY <1>1, <1>2, <1>3

LEMMA NextInvariant == IInv /\ [Next]_vars => IInv'
<1> SUFFICES ASSUME IInv, [Next]_vars PROVE IInv'
  OBVIOUS
<1>1. CASE UNCHANGED vars
  <2>1. Type' /\ Had' /\ TiesResolved'
    BY <1>1 DEF vars, IInv, Type, Had, TiesResolved, Active
  <2>2. \A q \in Requests : Ready(q)' /\ Fresh(q)' /\ Shifted(q)'
    BY <1>1, RequestSame DEF vars, IInv
  <2> QED BY <2>1, <2>2 DEF IInv
<1>2. ASSUME NEW p \in Requests, Check(p) \/ Decide(p) \/ CommitDecision(p) \/ Fail(p) \/ CommitOrder(p)
      PROVE  IInv'
  BY <1>2, CheckStep, DecideStep, DecisionStep, FailStep, OrderCommitStep
<1>3. ASSUME NEW d \in Applicants, Release(d) PROVE IInv'
  BY <1>3, ReleaseStep
<1> QED BY <1>1, <1>2, <1>3, AskStep DEF Next

LEMMA Invariant == Spec => []IInv
BY InitInvariant, NextInvariant, PTL DEF Spec

-----------------------------------------------------------------------------
\* Ranks stay positions of the list, whoever's writes came last, and nobody is
\* decided who had no entry.
THEOREM TypeCorrect == Spec => []TypeOK
<1>1. IInv => TypeOK
  <2> SUFFICES ASSUME IInv PROVE TypeOK
    OBVIOUS
  <2>1. ASSUME NEW p \in Requests
        PROVE  ToSet(req[p].who) \cup ToSet(req[p].order) \subseteq Applicants
    <3>1. req[p].who \in Seq(Applicants) /\ req[p].order \in Seq(Applicants)
      BY DEF IInv, Type, ReqType
    <3>2. ASSUME NEW s \in Seq(Applicants) PROVE ToSet(s) \subseteq Applicants
      BY DEF ToSet
    <3> QED BY <3>1, <3>2
  <2> QED BY <2>1 DEF IInv, Type, Had, TypeOK, ReqType, RankType
<1> QED BY <1>1, Invariant, PTL

\* Once Core has ordered the whole list, no two entries share a rank until new
\* ones are released, whatever decisions take others off it, one after another or
\* at once, up to one that is committed after another passed it which had been
\* passed itself since it read the list: from there on ties may come back.
THEOREM TiesStayResolved == Spec => []TiesResolved
<1>1. IInv => TiesResolved
  BY DEF IInv
<1> QED BY <1>1, Invariant, PTL

\* A decision keeps the order and the ties of everyone who stays, even when
\* others went by between its read and its writes, if nothing had passed those.
THEOREM DecisionKeepsOrder == Spec => OrderKept
<1> DEFINE Kept == \A p \in Requests :
                     CommitDecision(p) /\ ~req[p].moved /\ req[p].passed # 2
                       => \A x, y \in Active \cap Active' : rank[x] < rank[y] <=> rank'[x] < rank'[y]
<1>1. IInv /\ [Next]_vars => [Kept]_vars
  <2> SUFFICES ASSUME IInv, NEW p \in Requests, CommitDecision(p), ~req[p].moved,
                      req[p].passed # 2, NEW x \in Active \cap Active', NEW y \in Active \cap Active'
               PROVE  rank[x] < rank[y] <=> rank'[x] < rank'[y]
    OBVIOUS
  <2>1. Active' = Stay(p)
    BY DecisionWrites
  <2> QED BY <2>1, OrderStep
<1> QED BY <1>1, Invariant, PTL DEF Spec, OrderKept

\* A decision that nothing overtook closes the gap: the ranks in use are
\* 1, 2, ..., each of one entry or several.
THEOREM DecisionClosesGap == Spec => NoGaps
<1> DEFINE Closed == \A p \in Requests :
                       CommitDecision(p) /\ ~req[p].moved /\ req[p].passed = 0
                         => \E n \in 0..Cardinality(Applicants) : {rank'[d] : d \in Active'} = 1..n
<1>1. IInv /\ [Next]_vars => [Closed]_vars
  <2> SUFFICES ASSUME IInv, NEW p \in Requests, CommitDecision(p), ~req[p].moved,
                      req[p].passed = 0
               PROVE  \E n \in 0..N : {rank'[d] : d \in Active'} = 1..n
    BY DEF N
  <2> DEFINE c == compactRanks(req[p].read)
             U == {d \in Applicants : req[p].read[d] # 0}
  <2>1. \E n \in 0..N : {c[d] : d \in U} = 1..n
    BY DecisionWrites, Compacted
  <2>2. Active' = U /\ \A x \in U : rank'[x] = c[x]
    BY DecisionWrites, DecisionFresh
  <2> HIDE DEF c, U
  <2>3. {rank'[d] : d \in Active'} = {c[d] : d \in U}
    BY <2>2
  <2> QED BY <2>1, <2>3
<1> QED BY <1>1, Invariant, PTL DEF Spec, NoGaps
=============================================================================
