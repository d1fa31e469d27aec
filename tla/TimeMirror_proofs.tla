--------------------------- MODULE TimeMirror_proofs ---------------------------
(***************************************************************************)
(* TimeMirror, for every set of machines and any number of versions,       *)
(* events, crashes and timeouts.                                           *)
(***************************************************************************)
EXTENDS TimeMirror, TLAPS

Elems(s) == {s[i] : i \in 1..Len(s)}

\* A job brings the calendar in line with the row, or takes an event out.
Syncing == {"create", "patch", "save"}

RowType == [there : BOOLEAN, ver : Versions \ {0}, event : Events \cup {0}]
AtType == Syncing \cup {"idle", "remove"}

Type ==
    /\ row \in RowType
    /\ on \in BOOLEAN
    /\ google \in [Events -> Versions]
    /\ created \in Events \cup {0}
    /\ chain \in [Machines -> Seq(Jobs)]
    /\ at \in [Machines -> AtType]
    /\ got \in [Machines -> Seen]
    /\ lock \in Machines \cup {Free}
    /\ ahead \in [Machines -> Int]
    /\ timeouts \in 0..MaxTimeouts /\ crashes \in 0..MaxCrashes
    /\ failed \subseteq Versions /\ lost \subseteq Events
    /\ left \subseteq Events \cup {0} /\ slipped \in BOOLEAN

\* No queued version is ahead of the row, and only a deleted row has removals.
Queued(m) ==
    /\ ahead[m] \in -1..Len(chain[m])
    /\ \A j \in Elems(chain[m]) :
         /\ j.what = "sync" => j.ver <= row.ver
         /\ j.what = "remove" => ~row.there

\* A running job is the head of its chain, and what it read is as new as what
\* it was queued for.
Runs(m) ==
    /\ lock = m => at[m] # "idle"
    /\ at[m] # "idle" => chain[m] # <<>>
    /\ at[m] = "remove" => Head(chain[m]).what = "remove" /\ Head(chain[m]).event # 0
    /\ at[m] \in Syncing => /\ Head(chain[m]).what = "sync"
                            /\ Head(chain[m]).ver <= got[m].ver
                            /\ got[m].ver \in 1..row.ver
    /\ at[m] = "save" => got[m].event # 0

Pending == \E m \in Machines : \E j \in Elems(chain[m]) : j.what = "sync" /\ j.ver = row.ver

\* The row's latest version has a job to come, or its job came to nothing.
Outstanding == Pending \/ row.ver \in failed

\* While no call outlives its transaction, a running job has the lock, and the
\* row it read is still the row but for its version.
Locked(m) ==
    ~slipped /\ at[m] # "idle" =>
        /\ lock = m
        /\ at[m] \in Syncing => row.there
        /\ at[m] \in {"create", "save"} => row.event = 0
        /\ at[m] = "patch" => got[m].event = row.event
        /\ at[m] = "save" => google[got[m].event] = got[m].ver
        /\ at[m] \in Syncing => got[m].ver = row.ver \/ Outstanding

\* An event whose id is not lost is the row's, or on its way to the row.
Known ==
    ~slipped => \A e \in Showing \ lost :
                    row.event = e \/ \E m \in Machines : at[m] = "save" /\ got[m].event = e

Mirrored ==
    row.there /\ ~slipped /\ ~Outstanding => row.event # 0 /\ google[row.event] = row.ver

\* The event has its removal to come.
Removal(e) == \E m \in Machines : \E j \in Elems(chain[m]) : j.what = "remove" /\ j.event = e

Unmirrored ==
    ~row.there /\ ~slipped => \A e \in Showing \ (lost \cup left) : Removal(e)

IInv ==
    /\ Type
    /\ \A m \in Machines : Queued(m) /\ Runs(m) /\ Locked(m)
    /\ Known /\ Mirrored /\ Unmirrored

-----------------------------------------------------------------------------
(***************************************************************************)
(* Chains: what a job that is queued, and one that ends, changes.          *)
(***************************************************************************)
LEMMA TailElems ==
    ASSUME NEW S, NEW s \in Seq(S), s # <<>>
    PROVE  /\ Head(s) \in S /\ Head(s) \in Elems(s)
           /\ Tail(s) \in Seq(S) /\ Len(s) \in Nat \ {0} /\ Len(Tail(s)) = Len(s) - 1
           /\ \A x : x \in Elems(s) <=> x = Head(s) \/ x \in Elems(Tail(s))
<1>1. Len(s) \in Nat \ {0} /\ Head(s) = s[1] /\ Head(s) \in S
  OBVIOUS
<1>2. /\ Tail(s) \in Seq(S) /\ Len(Tail(s)) = Len(s) - 1
      /\ \A i \in 1..Len(s) - 1 : Tail(s)[i] = s[i + 1]
  OBVIOUS
<1>3. ASSUME NEW n \in Nat \ {0}
      PROVE  /\ 1 \in 1..n /\ \A i \in 1..n - 1 : i + 1 \in 1..n
             /\ \A i \in 1..n : i # 1 => i - 1 \in 1..n - 1 /\ (i - 1) + 1 = i
  OBVIOUS
<1> DEFINE t == Tail(s)
           n == Len(s)
<1>4. n \in Nat \ {0} /\ Len(t) = n - 1 /\ \A i \in 1..n - 1 : t[i] = s[i + 1]
  BY <1>1, <1>2
<1> HIDE DEF t, n
<1>5. \A i \in 1..n : i # 1 => i - 1 \in 1..n - 1 /\ t[i - 1] = s[i]
  BY <1>3, <1>4
<1>6. Elems(s) = {s[i] : i \in 1..n} /\ Elems(t) = {t[i] : i \in 1..n - 1}
  BY <1>4 DEF Elems, n
<1>7. ASSUME NEW x \in Elems(s) PROVE x = s[1] \/ x \in Elems(t)
  BY <1>5, <1>6
<1>8. ASSUME NEW x \in Elems(t) PROVE x \in Elems(s)
  BY <1>3, <1>4, <1>6
<1>9. s[1] \in Elems(s)
  BY <1>3, <1>4, <1>6
<1> QED BY <1>1, <1>2, <1>7, <1>8, <1>9 DEF t, n

LEMMA AppendElems ==
    ASSUME NEW S, NEW s \in Seq(S), NEW y \in S
    PROVE  /\ Append(s, y) \in Seq(S) /\ Append(s, y) # <<>>
           /\ Len(s) \in Nat /\ Len(Append(s, y)) = Len(s) + 1
           /\ s # <<>> => Head(Append(s, y)) = Head(s)
           /\ \A x : x \in Elems(Append(s, y)) <=> x = y \/ x \in Elems(s)
<1> DEFINE t == Append(s, y)
           n == Len(s)
<1>1. /\ t \in Seq(S) /\ n \in Nat /\ Len(t) = n + 1
      /\ \A i \in 1..n : t[i] = s[i]
      /\ t[n + 1] = y
  OBVIOUS
<1>2. s # <<>> => n # 0 /\ Head(s) = s[1]
  OBVIOUS
<1>3. Elems(s) = {s[i] : i \in 1..n} /\ Elems(t) = {t[i] : i \in 1..n + 1}
  BY <1>1 DEF Elems
<1> HIDE DEF t, n
<1>4. \A i \in 1..n + 1 : i \in 1..n \/ i = n + 1
  BY <1>1
<1>5. (\A i \in 1..n : i \in 1..n + 1) /\ n + 1 \in 1..n + 1
  BY <1>1
<1>6. ASSUME NEW x PROVE x \in Elems(t) <=> x = y \/ x \in Elems(s)
  BY <1>1, <1>3, <1>4, <1>5
<1>7. t # <<>> /\ Head(t) = t[1]
  <2>1. Len(t) # 0
    BY <1>1
  <2> QED BY <1>1, <2>1
<1>8. s # <<>> => 1 \in 1..n
  BY <1>1, <1>2
<1> QED BY <1>1, <1>2, <1>6, <1>7, <1>8 DEF t, n

\* The versions and the events of the jobs that are dropped.
LEMMA MissedOne ==
    ASSUME NEW j
    PROVE  /\ j.what = "sync" => Missed(<<j>>) = {j.ver}
           /\ j.what # "sync" => Missed(<<j>>) = {}
           /\ j.what = "remove" => Unremoved(<<j>>) = {j.event}
           /\ j.what # "remove" => Unremoved(<<j>>) = {}
<1> DEFINE s == <<j>>
<1>1. DOMAIN s = {1} /\ s[1] = j
  OBVIOUS
<1> HIDE DEF s
<1>2. Missed(s) = {s[i].ver : i \in {k \in {1} : s[k].what = "sync"}}
  BY <1>1 DEF Missed
<1>3. Unremoved(s) = {s[i].event : i \in {k \in {1} : s[k].what = "remove"}}
  BY <1>1 DEF Unremoved
<1> QED BY <1>1, <1>2, <1>3 DEF s

LEMMA MissedAll ==
    ASSUME NEW s \in Seq(Jobs)
    PROVE  /\ Missed(s) \subseteq Versions /\ Unremoved(s) \subseteq Events \cup {0}
           /\ \A j \in Elems(s) : /\ j.what = "sync" => j.ver \in Missed(s)
                                  /\ j.what = "remove" => j.event \in Unremoved(s)
<1>1. DOMAIN s = 1..Len(s) /\ \A i \in 1..Len(s) : s[i] \in Jobs
  OBVIOUS
<1>2. \A j \in Jobs : j.ver \in Versions /\ j.event \in Events \cup {0}
  BY DEF Jobs
<1> QED BY <1>1, <1>2 DEF Missed, Unremoved, Elems

LEMMA JobTypes ==
    /\ \A v \in Versions : SyncJob(v) \in Jobs
    /\ \A e \in Events \cup {0} : RemoveJob(e) \in Jobs
    /\ \A j \in Jobs : j.ver \in Versions /\ j.event \in Events \cup {0}
BY TimeMirrorAssumption DEF Versions, Events, SyncJob, RemoveJob, Jobs

\* What the types say, field by field.
LEMMA Bounds ==
    ASSUME IInv
    PROVE  /\ row.ver \in 1..MaxVer /\ row.event \in 0..MaxEvents /\ row.there \in BOOLEAN
           /\ MaxVer \in Nat \ {0} /\ MaxEvents \in Nat \ {0}
           /\ \A m \in Machines : /\ chain[m] \in Seq(Jobs) /\ m # Free
                                  /\ got[m].ver \in 0..MaxVer /\ got[m].event \in 0..MaxEvents
                                  /\ at[m] \in AtType
                                  /\ chain[m] # <<>> => Head(chain[m]) \in Jobs
<1>1. /\ row \in RowType /\ chain \in [Machines -> Seq(Jobs)] /\ got \in [Machines -> Seen]
      /\ at \in [Machines -> AtType]
  BY DEF IInv, Type
<1>2. ASSUME NEW m \in Machines
      PROVE  /\ chain[m] \in Seq(Jobs) /\ m # Free
             /\ got[m].ver \in 0..MaxVer /\ got[m].event \in 0..MaxEvents /\ at[m] \in AtType
             /\ chain[m] # <<>> => Head(chain[m]) \in Jobs
  <2>1. chain[m] \in Seq(Jobs) /\ got[m] \in Seen /\ at[m] \in AtType /\ m # Free
    BY <1>1, TimeMirrorAssumption
  <2>2. chain[m] # <<>> => Head(chain[m]) \in Jobs
    BY <2>1, TailElems
  <2> QED BY <2>1, <2>2, TimeMirrorAssumption DEF Seen, Versions, Events
<1> QED BY <1>1, <1>2, TimeMirrorAssumption DEF RowType, Versions, Events

-----------------------------------------------------------------------------
(***************************************************************************)
(* The steps of the member's requests.                                     *)
(***************************************************************************)
LEMMA ToggleStep ==
    ASSUME IInv, Toggle
    PROVE  IInv'
<1>1. /\ row' = row /\ google' = google /\ created' = created /\ chain' = chain /\ at' = at
      /\ got' = got /\ lock' = lock /\ ahead' = ahead /\ timeouts' = timeouts
      /\ crashes' = crashes /\ failed' = failed /\ lost' = lost /\ left' = left
      /\ slipped' = slipped /\ on' \in BOOLEAN
  BY DEF Toggle, history, IInv, Type
<1>2. Type'
  BY <1>1 DEF IInv, Type
<1>3. \A m \in Machines : Queued(m)' /\ Runs(m)' /\ Locked(m)'
  BY <1>1 DEF IInv, Queued, Runs, Locked, Outstanding, Pending
<1>4. Known' /\ Mirrored' /\ Unmirrored'
  BY <1>1 DEF IInv, Known, Mirrored, Unmirrored, Outstanding, Pending, Removal, Showing
<1> QED BY <1>2, <1>3, <1>4 DEF IInv

LEMMA DeleteStep ==
    ASSUME IInv, NEW m \in Machines, Delete(m)
    PROVE  IInv'
<1>1. /\ row' = row /\ google' = google /\ created' = created /\ chain' = chain /\ at' = at
      /\ got' = got /\ lock' = lock /\ on' = on /\ timeouts' = timeouts
      /\ crashes' = crashes /\ failed' = failed /\ lost' = lost /\ left' = left
      /\ slipped' = slipped /\ ahead' = [ahead EXCEPT ![m] = Len(chain[m])]
  BY DEF Delete, history
<1>2. Len(chain[m]) \in Nat
  BY Bounds
<1>3. ahead' \in [Machines -> Int] /\ \A n \in Machines : ahead'[n] \in -1..Len(chain[n])
  BY <1>1, <1>2 DEF IInv, Type, Queued
<1>4. Type'
  BY <1>1, <1>3 DEF IInv, Type
<1>5. \A n \in Machines : Queued(n)' /\ Runs(n)' /\ Locked(n)'
  BY <1>1, <1>3 DEF IInv, Queued, Runs, Locked, Outstanding, Pending
<1>6. Known' /\ Mirrored' /\ Unmirrored'
  BY <1>1 DEF IInv, Known, Mirrored, Unmirrored, Outstanding, Pending, Removal, Showing
<1> QED BY <1>4, <1>5, <1>6 DEF IInv

\* A job joins m's chain.
LEMMA Queues ==
    ASSUME IInv, NEW m \in Machines, NEW job \in Jobs,
           chain' = [chain EXCEPT ![m] = Append(@, job)]
    PROVE  /\ chain' \in [Machines -> Seq(Jobs)]
           /\ \A n \in Machines :
                /\ \A j : j \in Elems(chain'[n]) <=> j \in Elems(chain[n]) \/ (n = m /\ j = job)
                /\ chain[n] # <<>> => chain'[n] # <<>> /\ Head(chain'[n]) = Head(chain[n])
                /\ Len(chain[n]) \in Nat /\ Len(chain[n]) <= Len(chain'[n])
<1> DEFINE s == chain[m]
           t == Append(s, job)
<1>1. chain \in [Machines -> Seq(Jobs)] /\ s \in Seq(Jobs)
  BY DEF IInv, Type
<1>2. /\ t \in Seq(Jobs) /\ t # <<>> /\ Len(s) \in Nat /\ Len(t) = Len(s) + 1
      /\ s # <<>> => Head(t) = Head(s)
      /\ \A x : x \in Elems(t) <=> x = job \/ x \in Elems(s)
  BY <1>1, AppendElems
<1>3. chain'[m] = t /\ (\A n \in Machines \ {m} : chain'[n] = chain[n])
  BY <1>1
<1> HIDE DEF t
<1>4. chain' \in [Machines -> Seq(Jobs)]
  BY <1>1, <1>2 DEF t
<1>5. ASSUME NEW n \in Machines
      PROVE  /\ \A j : j \in Elems(chain'[n]) <=> j \in Elems(chain[n]) \/ (n = m /\ j = job)
             /\ chain[n] # <<>> => chain'[n] # <<>> /\ Head(chain'[n]) = Head(chain[n])
             /\ Len(chain[n]) \in Nat /\ Len(chain[n]) <= Len(chain'[n])
  <2>1. CASE n = m
    <3>1. Len(s) \in Nat /\ Len(s) <= Len(t)
      BY <1>2
    <3>2. chain[n] = s /\ chain'[n] = t
      BY <1>3, <2>1
    <3> HIDE DEF s
    <3> QED BY <1>2, <2>1, <3>1, <3>2
  <2>2. CASE n # m
    <3>1. Len(chain[n]) \in Nat
      BY <1>1
    <3> QED BY <1>3, <2>2, <3>1
  <2> QED BY <2>1, <2>2
<1> QED BY <1>4, <1>5

LEMMA UpdateStep ==
    ASSUME IInv, NEW m \in Machines, Update(m)
    PROVE  IInv'
<1> DEFINE v == row.ver + 1
<1>1. /\ row.there /\ row.ver < MaxVer /\ row' = [row EXCEPT !.ver = v]
      /\ chain' = [chain EXCEPT ![m] = Append(@, SyncJob(v))]
      /\ google' = google /\ created' = created /\ at' = at /\ ahead' = ahead
      /\ got' = got /\ lock' = lock /\ on' = on /\ timeouts' = timeouts
      /\ crashes' = crashes /\ failed' = failed /\ lost' = lost /\ left' = left
      /\ slipped' = slipped
  BY DEF Update, history
<1>2. v \in 1..MaxVer /\ v \in Versions /\ v # 0 /\ row.ver < v /\ row \in RowType
  BY <1>1, Bounds DEF Versions, IInv, Type
<1> HIDE DEF v
<1>3. /\ row' \in RowType /\ row'.ver = v /\ row'.there = row.there /\ row'.event = row.event
  BY <1>1, <1>2 DEF RowType
<1>4. SyncJob(v) \in Jobs /\ SyncJob(v).what = "sync" /\ SyncJob(v).ver = v
  BY <1>2, JobTypes DEF SyncJob
<1>5. /\ chain' \in [Machines -> Seq(Jobs)]
      /\ \A n \in Machines :
           /\ \A j : j \in Elems(chain'[n]) <=> j \in Elems(chain[n]) \/ (n = m /\ j = SyncJob(v))
           /\ chain[n] # <<>> => chain'[n] # <<>> /\ Head(chain'[n]) = Head(chain[n])
           /\ Len(chain[n]) \in Nat /\ Len(chain[n]) <= Len(chain'[n])
  BY <1>1, <1>4, Queues
<1>6. Type'
  BY <1>1, <1>3, <1>5 DEF IInv, Type
<1>7. Pending'
  BY <1>3, <1>4, <1>5 DEF Pending
<1>8. ASSUME NEW n \in Machines PROVE Queued(n)' /\ Runs(n)' /\ Locked(n)'
  <2>1. /\ row.ver \in Nat /\ v \in Nat /\ ahead[n] \in -1..Len(chain[n]) /\ Len(chain'[n]) \in Nat
        /\ got[n].ver \in Nat
        /\ \A j \in Elems(chain[n]) : j.what = "sync" => j.ver \in Nat
    <3>1. chain[n] \in Seq(Jobs) /\ \A j \in Jobs : j.ver \in Nat
      BY Bounds, JobTypes DEF Versions
    <3>2. \A j \in Elems(chain[n]) : j \in Jobs
      BY <3>1 DEF Elems
    <3>3. chain'[n] \in Seq(Jobs)
      BY <1>5
    <3> QED BY <1>2, <3>1, <3>2, <3>3, Bounds DEF IInv, Queued
  <2>2. Queued(n)'
    <3>1. ahead'[n] \in -1..Len(chain'[n])
      BY <1>1, <1>5, <2>1
    <3>2. \A j \in Elems(chain[n]) : /\ j.what = "sync" => j.ver <= v
                                     /\ j.what = "remove" => ~row.there
      BY <1>2, <2>1 DEF IInv, Queued
    <3>3. \A j \in Elems(chain'[n]) : /\ j.what = "sync" => j.ver <= v
                                      /\ j.what = "remove" => ~row.there
      BY <1>2, <1>4, <1>5, <3>2
    <3> QED BY <1>3, <3>1, <3>3 DEF Queued
  <2>3. Runs(n)'
    BY <1>1, <1>2, <1>3, <1>5, <2>1 DEF IInv, Runs, Syncing
  <2>4. Locked(n)'
    BY <1>1, <1>3, <1>7 DEF IInv, Locked, Outstanding
  <2> QED BY <2>2, <2>3, <2>4
<1>9. Known' /\ Mirrored' /\ Unmirrored'
  BY <1>1, <1>3, <1>7 DEF IInv, Known, Mirrored, Unmirrored, Outstanding, Showing
<1> QED BY <1>6, <1>8, <1>9 DEF IInv

LEMMA DeleteRowStep ==
    ASSUME IInv, NEW m \in Machines, DeleteRow(m)
    PROVE  IInv'
<1> DEFINE job == RemoveJob(row.event)
<1>1. /\ lock = Free /\ row' = [row EXCEPT !.there = FALSE]
      /\ chain' = IF row.there THEN [chain EXCEPT ![m] = Append(@, job)] ELSE chain
      /\ ahead' = [ahead EXCEPT ![m] = -1]
      /\ google' = google /\ created' = created /\ at' = at
      /\ got' = got /\ lock' = lock /\ on' = on /\ timeouts' = timeouts
      /\ crashes' = crashes /\ failed' = failed /\ lost' = lost /\ left' = left
      /\ slipped' = slipped
  BY DEF DeleteRow, history
<1>2. row \in RowType /\ row.event \in Events \cup {0}
  BY DEF IInv, Type, RowType
<1>3. /\ row' \in RowType /\ row'.there = FALSE /\ row'.ver = row.ver /\ row'.event = row.event
  BY <1>1, <1>2 DEF RowType
<1>4. job \in Jobs /\ job.what = "remove" /\ job.event = row.event
  BY <1>2, JobTypes DEF RemoveJob
<1> HIDE DEF job
<1>5. /\ chain' \in [Machines -> Seq(Jobs)]
      /\ \A n \in Machines :
           /\ \A j : j \in Elems(chain'[n])
                       <=> j \in Elems(chain[n]) \/ (row.there /\ n = m /\ j = job)
           /\ chain[n] # <<>> => chain'[n] # <<>> /\ Head(chain'[n]) = Head(chain[n])
           /\ Len(chain[n]) \in Nat /\ Len(chain[n]) <= Len(chain'[n])
  <2>1. CASE row.there
    <3>1. chain' = [chain EXCEPT ![m] = Append(@, job)]
      BY <1>1, <2>1
    <3>2. /\ chain' \in [Machines -> Seq(Jobs)]
          /\ \A n \in Machines :
               /\ \A j : j \in Elems(chain'[n]) <=> j \in Elems(chain[n]) \/ (n = m /\ j = job)
               /\ chain[n] # <<>> => chain'[n] # <<>> /\ Head(chain'[n]) = Head(chain[n])
               /\ Len(chain[n]) \in Nat /\ Len(chain[n]) <= Len(chain'[n])
      BY <1>4, <3>1, Queues
    <3> QED BY <2>1, <3>2
  <2>2. CASE ~row.there
    <3>1. chain' = chain /\ chain \in [Machines -> Seq(Jobs)]
      BY <1>1, <2>2 DEF IInv, Type
    <3>2. \A n \in Machines : Len(chain[n]) \in Nat
      BY <3>1
    <3> QED BY <2>2, <3>1, <3>2
  <2> QED BY <2>1, <2>2
<1>6. Type'
  <2>1. ahead' \in [Machines -> Int]
    BY <1>1 DEF IInv, Type
  <2> QED BY <1>1, <1>3, <1>5, <2>1 DEF IInv, Type
<1>7. ~slipped => \A n \in Machines : at[n] = "idle"
  BY <1>1, Bounds DEF IInv, Locked
<1>8. ASSUME NEW n \in Machines PROVE Queued(n)' /\ Runs(n)' /\ Locked(n)'
  <2>1. Queued(n)'
    <3>1. ahead'[n] \in -1..Len(chain'[n])
      <4>1. ahead[n] \in -1..Len(chain[n]) /\ (ahead'[n] = ahead[n] \/ ahead'[n] = -1)
        BY <1>1 DEF IInv, Type, Queued
      <4>2. Len(chain'[n]) \in Nat
        BY <1>5
      <4> QED BY <1>5, <4>1, <4>2
    <3> QED BY <1>3, <1>4, <1>5, <3>1 DEF IInv, Queued
  <2>2. Runs(n)'
    BY <1>1, <1>3, <1>5 DEF IInv, Runs, Syncing
  <2>3. Locked(n)'
    BY <1>1, <1>7 DEF Locked
  <2> QED BY <2>1, <2>2, <2>3
<1>9. Known' /\ Mirrored'
  BY <1>1, <1>3 DEF IInv, Known, Mirrored, Showing
<1>10. Unmirrored'
  <2> SUFFICES ASSUME ~slipped, NEW e \in Showing \ (lost \cup left) PROVE Removal(e)'
    BY <1>1 DEF Unmirrored, Showing
  <2>1. CASE row.there
    <3>1. row.event = e
      BY <1>7 DEF IInv, Known
    <3> QED BY <1>4, <1>5, <2>1, <3>1 DEF Removal
  <2>2. CASE ~row.there
    BY <1>5, <2>2 DEF IInv, Unmirrored, Removal
  <2> QED BY <2>1, <2>2
<1> QED BY <1>6, <1>8, <1>9, <1>10 DEF IInv

\* The version without a job is one that failed.
LEMMA UpdateUnansweredStep ==
    ASSUME IInv, NEW m \in Machines, UpdateUnanswered(m)
    PROVE  IInv'
<1> DEFINE v == row.ver + 1
<1>1. /\ row.there /\ row.ver < MaxVer /\ row' = [row EXCEPT !.ver = v]
      /\ chain' = chain /\ failed' = failed \cup {v}
      /\ google' = google /\ created' = created /\ at' = at /\ ahead' = ahead
      /\ got' = got /\ lock' = lock /\ on' = on /\ timeouts' = timeouts
      /\ crashes' = crashes /\ lost' = lost /\ left' = left
      /\ slipped' = slipped
  BY DEF UpdateUnanswered
<1>2. v \in 1..MaxVer /\ v \in Versions /\ v # 0 /\ row.ver < v /\ row \in RowType
  BY <1>1, Bounds DEF Versions, IInv, Type
<1> HIDE DEF v
<1>3. /\ row' \in RowType /\ row'.ver = v /\ row'.there = row.there /\ row'.event = row.event
  BY <1>1, <1>2 DEF RowType
<1>4. Type'
  <2>1. failed' \subseteq Versions
    BY <1>1, <1>2 DEF IInv, Type
  <2> QED BY <1>1, <1>3, <2>1 DEF IInv, Type
<1>5. Outstanding'
  BY <1>1, <1>3 DEF Outstanding
<1>6. ASSUME NEW n \in Machines PROVE Queued(n)' /\ Runs(n)' /\ Locked(n)'
  <2>1. /\ row.ver \in Nat /\ v \in Nat /\ got[n].ver \in Nat
        /\ \A j \in Elems(chain[n]) : j.what = "sync" => j.ver \in Nat
    <3>1. chain[n] \in Seq(Jobs) /\ \A j \in Jobs : j.ver \in Nat
      BY Bounds, JobTypes DEF Versions
    <3>2. \A j \in Elems(chain[n]) : j \in Jobs
      BY <3>1 DEF Elems
    <3> QED BY <1>2, <3>1, <3>2, Bounds
  <2>2. Queued(n)'
    BY <1>1, <1>2, <1>3, <2>1 DEF IInv, Queued
  <2>3. Runs(n)'
    BY <1>1, <1>2, <1>3, <2>1 DEF IInv, Runs, Syncing
  <2>4. Locked(n)'
    BY <1>1, <1>3, <1>5 DEF IInv, Locked
  <2> QED BY <2>2, <2>3, <2>4
<1>7. Known'
  BY <1>1, <1>3 DEF IInv, Known, Showing
<1>8. Mirrored' /\ Unmirrored'
  BY <1>1, <1>3, <1>5 DEF Mirrored, Unmirrored
<1> QED BY <1>4, <1>6, <1>7, <1>8 DEF IInv

\* The event without a removal is one that is left.
LEMMA DeleteUnansweredStep ==
    ASSUME IInv, NEW m \in Machines, DeleteUnanswered(m)
    PROVE  IInv'
<1>1. /\ lock = Free /\ row.there /\ row' = [row EXCEPT !.there = FALSE]
      /\ chain' = chain /\ ahead' = [ahead EXCEPT ![m] = -1]
      /\ left' = left \cup {row.event}
      /\ google' = google /\ created' = created /\ at' = at
      /\ got' = got /\ lock' = lock /\ on' = on /\ timeouts' = timeouts
      /\ crashes' = crashes /\ failed' = failed /\ lost' = lost
      /\ slipped' = slipped
  BY DEF DeleteUnanswered
<1>2. row \in RowType /\ row.event \in Events \cup {0}
  BY DEF IInv, Type, RowType
<1>3. /\ row' \in RowType /\ row'.there = FALSE /\ row'.ver = row.ver /\ row'.event = row.event
  BY <1>1, <1>2 DEF RowType
<1>4. Type'
  BY <1>1, <1>2, <1>3 DEF IInv, Type
<1>5. ~slipped => \A n \in Machines : at[n] = "idle"
  BY <1>1, Bounds DEF IInv, Locked
<1>6. ASSUME NEW n \in Machines PROVE Queued(n)' /\ Runs(n)' /\ Locked(n)'
  <2>1. Queued(n)'
    <3>1. ahead'[n] \in -1..Len(chain[n])
      BY <1>1, Bounds DEF IInv, Type, Queued
    <3> QED BY <1>1, <1>3, <3>1 DEF IInv, Queued
  <2>2. Runs(n)'
    BY <1>1, <1>3 DEF IInv, Runs, Syncing
  <2>3. Locked(n)'
    BY <1>1, <1>5 DEF Locked
  <2> QED BY <2>1, <2>2, <2>3
<1>7. Known' /\ Mirrored'
  BY <1>1, <1>3 DEF IInv, Known, Mirrored, Showing
<1>8. Unmirrored'
  BY <1>1, <1>5 DEF IInv, Known, Unmirrored, Showing
<1> QED BY <1>4, <1>6, <1>7, <1>8 DEF IInv

LEMMA DeleteTimesOutStep ==
    ASSUME IInv, NEW m \in Machines, DeleteTimesOut(m)
    PROVE  IInv'
<1>1. /\ ahead' = [ahead EXCEPT ![m] = -1]
      /\ row' = row /\ chain' = chain /\ google' = google /\ created' = created /\ at' = at
      /\ got' = got /\ lock' = lock /\ on' = on
      /\ crashes' = crashes /\ failed' = failed /\ lost' = lost /\ left' = left
      /\ slipped' = slipped
  BY DEF DeleteTimesOut, history
<1>2. timeouts' \in 0..MaxTimeouts
  <2>1. timeouts' = timeouts + 1 /\ timeouts < MaxTimeouts /\ timeouts \in 0..MaxTimeouts
    BY DEF DeleteTimesOut, IInv, Type
  <2> QED BY <2>1, TimeMirrorAssumption
<1>3. Type'
  BY <1>1, <1>2 DEF IInv, Type
<1>4. ASSUME NEW n \in Machines PROVE Queued(n)' /\ Runs(n)' /\ Locked(n)'
  <2>1. ahead'[n] \in -1..Len(chain[n])
    BY <1>1, Bounds DEF IInv, Type, Queued
  <2> QED BY <1>1, <2>1 DEF IInv, Queued, Runs, Locked, Outstanding, Pending
<1>5. Known' /\ Mirrored' /\ Unmirrored'
  BY <1>1 DEF IInv, Known, Mirrored, Unmirrored, Outstanding, Pending, Removal, Showing
<1> QED BY <1>3, <1>4, <1>5 DEF IInv

-----------------------------------------------------------------------------
(***************************************************************************)
(* The end of a job.                                                       *)
(***************************************************************************)
LEMMA Ended ==
    ASSUME IInv, NEW m \in Machines, chain[m] # <<>>, End(m),
           row'.ver = row.ver, row'.there = row.there
    PROVE  /\ chain' \in [Machines -> Seq(Jobs)] /\ at' \in [Machines -> AtType]
           /\ got' \in [Machines -> Seen] /\ lock' \in Machines \cup {Free}
           /\ ahead' \in [Machines -> Int]
           /\ at'[m] = "idle" /\ lock' # m /\ (lock # m => lock' = lock)
           /\ \A n \in Machines \ {m} :
                chain'[n] = chain[n] /\ at'[n] = at[n] /\ got'[n] = got[n]
           /\ \A n \in Machines : Queued(n)' /\ Runs(n)'
           /\ Pending => Pending' \/ (Head(chain[m]).what = "sync" /\ Head(chain[m]).ver = row.ver)
           /\ Pending' => Pending
           /\ \A e : Removal(e) => \/ Removal(e)'
                                   \/ Head(chain[m]).what = "remove" /\ Head(chain[m]).event = e
<1> DEFINE s == chain[m]
           t == Tail(s)
<1>1. /\ chain \in [Machines -> Seq(Jobs)] /\ at \in [Machines -> AtType]
      /\ got \in [Machines -> Seen] /\ lock \in Machines \cup {Free}
      /\ ahead \in [Machines -> Int] /\ m # Free
  BY Bounds DEF IInv, Type
<1>2. s \in Seq(Jobs) /\ s # <<>>
  BY <1>1
<1>3. /\ t \in Seq(Jobs) /\ Len(s) \in Nat \ {0} /\ Len(t) = Len(s) - 1
      /\ \A x : x \in Elems(s) <=> x = Head(s) \/ x \in Elems(t)
  BY <1>2, TailElems
<1>4. /\ chain' = [chain EXCEPT ![m] = t] /\ at' = [at EXCEPT ![m] = "idle"]
      /\ got' = [got EXCEPT ![m] = [ver |-> 0, event |-> 0]]
      /\ lock' = Released(m)
      /\ ahead' = [ahead EXCEPT ![m] = IF @ > 0 THEN @ - 1 ELSE @]
  BY DEF End
<1> HIDE DEF t
<1>5. chain' \in [Machines -> Seq(Jobs)] /\ at' \in [Machines -> AtType] /\ at'[m] = "idle"
  BY <1>1, <1>3, <1>4 DEF AtType
<1>6. got' \in [Machines -> Seen]
  <2>1. [ver |-> 0, event |-> 0] \in Seen
    BY TimeMirrorAssumption DEF Seen, Versions
  <2> QED BY <1>1, <1>4, <2>1
<1>7. lock' \in Machines \cup {Free} /\ lock' # m /\ (lock # m => lock' = lock)
  BY <1>1, <1>4 DEF Released
<1>8. \A n \in Machines \ {m} :
        chain'[n] = chain[n] /\ at'[n] = at[n] /\ got'[n] = got[n] /\ ahead'[n] = ahead[n]
  BY <1>1, <1>4
<1>9. chain'[m] = t
  BY <1>1, <1>4
<1>10. ahead' \in [Machines -> Int] /\ ahead'[m] \in -1..Len(t)
  <2>1. ahead[m] \in -1..Len(s)
    BY DEF IInv, Queued
  <2>2. ahead'[m] = IF ahead[m] > 0 THEN ahead[m] - 1 ELSE ahead[m]
    BY <1>1, <1>4
  <2> HIDE DEF s
  <2>3. ahead'[m] \in -1..Len(t)
    BY <1>3, <2>1, <2>2
  <2> QED BY <1>1, <1>3, <1>4, <2>3
<1>11. ASSUME NEW n \in Machines PROVE Queued(n)' /\ Runs(n)'
  <2>1. CASE n = m
    <3>1. \A j \in Elems(s) : /\ j.what = "sync" => j.ver <= row.ver
                              /\ j.what = "remove" => ~row.there
      BY DEF IInv, Queued
    <3>2. Queued(m)'
      BY <1>3, <1>9, <1>10, <3>1 DEF Queued
    <3>3. at'[m] = "idle" /\ ~(lock' = m)
      BY <1>5, <1>7
    <3>4. Runs(m)'
      BY <3>3 DEF Runs, Syncing
    <3> QED BY <2>1, <3>2, <3>4
  <2>2. CASE n # m
    <3>1. lock' = n => lock = n
      BY <1>1, <1>4, Bounds DEF Released
    <3> QED BY <1>8, <2>2, <3>1 DEF IInv, Queued, Runs
  <2> QED BY <2>1, <2>2
<1>12. \A n \in Machines : \A j :
         /\ j \in Elems(chain[n]) => j \in Elems(chain'[n]) \/ (n = m /\ j = Head(s))
         /\ j \in Elems(chain'[n]) => j \in Elems(chain[n])
  BY <1>3, <1>8, <1>9
<1>13. Pending => Pending' \/ (Head(s).what = "sync" /\ Head(s).ver = row.ver)
  BY <1>12 DEF Pending
<1>14. Pending' => Pending
  BY <1>12 DEF Pending
<1>15. \A e : Removal(e) => Removal(e)' \/ (Head(s).what = "remove" /\ Head(s).event = e)
  BY <1>12 DEF Removal
<1> QED BY <1>5, <1>6, <1>7, <1>8, <1>10, <1>11, <1>13, <1>14, <1>15

\* A job that comes to nothing: its version or its event is accounted for.
LEMMA GaveUp ==
    ASSUME IInv, NEW m \in Machines, chain[m] # <<>>, GiveUp(m)
    PROVE  /\ failed' \subseteq Versions /\ left' \subseteq Events \cup {0} /\ lost' = lost
           /\ failed \subseteq failed' /\ left \subseteq left'
           /\ Head(chain[m]).what = "sync" => Head(chain[m]).ver \in failed'
           /\ Head(chain[m]).what = "remove" => Head(chain[m]).event \in left'
           /\ End(m)
<1> DEFINE j == Head(chain[m])
<1>1. j \in Jobs
  BY Bounds
<1>2. failed' = failed \cup Missed(<<j>>) /\ left' = left \cup Unremoved(<<j>>) /\ lost' = lost
  BY DEF GiveUp
<1>3. j.ver \in Versions /\ j.event \in Events \cup {0}
  BY <1>1, JobTypes
<1> HIDE DEF j
<1>4. /\ j.what = "sync" => Missed(<<j>>) = {j.ver}
      /\ j.what # "sync" => Missed(<<j>>) = {}
      /\ j.what = "remove" => Unremoved(<<j>>) = {j.event}
      /\ j.what # "remove" => Unremoved(<<j>>) = {}
  BY MissedOne
<1>5. failed \subseteq Versions /\ left \subseteq Events \cup {0}
  BY DEF IInv, Type
<1> QED BY <1>2, <1>3, <1>4, <1>5 DEF j, GiveUp

\* A step in which a job ends, whose events and rows stay as they are; what it
\* was for is done or accounted for.
LEMMA EndStep ==
    ASSUME IInv, NEW m \in Machines, chain[m] # <<>>, End(m),
           row' = row, on' = on, created' = created, slipped' = slipped,
           timeouts' \in 0..MaxTimeouts, crashes' = crashes,
           google' \in [Events -> Versions],
           failed' \subseteq Versions, failed \subseteq failed',
           lost' \subseteq Events, lost \subseteq lost',
           left' \subseteq Events \cup {0}, left \subseteq left',
           Showing' \subseteq Showing,
           ~slipped => \A n \in Machines \ {m} :
                         at[n] = "save" => google'[got[n].event] = google[got[n].event],
           ~slipped /\ at[m] = "save" => got[m].event \in lost',
           ~slipped /\ row.there /\ google'[row.event] # google[row.event] /\ ~Outstanding' =>
             google'[row.event] = row.ver,
           Head(chain[m]).what = "sync" /\ Head(chain[m]).ver = row.ver =>
             \/ row.ver \in failed'
             \/ ~slipped => row.event # 0 /\ google'[row.event] = row.ver,
           Head(chain[m]).what = "remove" =>
             \/ Head(chain[m]).event \in left'
             \/ ~slipped => Head(chain[m]).event \notin Showing',
           \A n \in Machines \ {m} : 
             ~slipped /\ at[n] # "idle" /\ Head(chain[m]).what = "sync" =>
               Head(chain[m]).ver \in failed'
    PROVE  IInv'
<1> DEFINE j == Head(chain[m])
<1>1. /\ chain' \in [Machines -> Seq(Jobs)] /\ at' \in [Machines -> AtType]
      /\ got' \in [Machines -> Seen] /\ lock' \in Machines \cup {Free}
      /\ ahead' \in [Machines -> Int]
      /\ at'[m] = "idle" /\ lock' # m /\ (lock # m => lock' = lock)
      /\ \A n \in Machines \ {m} :
           chain'[n] = chain[n] /\ at'[n] = at[n] /\ got'[n] = got[n]
      /\ \A n \in Machines : Queued(n)' /\ Runs(n)'
      /\ Pending => Pending' \/ (j.what = "sync" /\ j.ver = row.ver)
      /\ Pending' => Pending
      /\ \A e : Removal(e) => Removal(e)' \/ (j.what = "remove" /\ j.event = e)
  BY Ended
<1> HIDE DEF j
<1>2. Type'
  BY <1>1 DEF IInv, Type
<1>3. ASSUME NEW n \in Machines PROVE Locked(n)'
  <2> SUFFICES ASSUME ~slipped, n # m, at[n] # "idle" PROVE Locked(n)'
    BY <1>1 DEF Locked
  <2>1. /\ lock = n
        /\ at[n] \in Syncing => row.there
        /\ at[n] \in {"create", "save"} => row.event = 0
        /\ at[n] = "patch" => got[n].event = row.event
        /\ at[n] = "save" => google[got[n].event] = got[n].ver
        /\ at[n] \in Syncing => got[n].ver = row.ver \/ Outstanding
    BY DEF IInv, Locked
  <2>2. Outstanding => Outstanding'
    BY <1>1 DEF Outstanding, j
  <2>3. lock' = n /\ at'[n] = at[n] /\ got'[n] = got[n]
    BY <1>1, <2>1
  <2> QED BY <2>1, <2>2, <2>3 DEF Locked
<1>4. Known'
  <2> SUFFICES ASSUME ~slipped, NEW e \in Showing' \ lost'
               PROVE  row.event = e \/ \E n \in Machines : at'[n] = "save" /\ got'[n].event = e
    BY DEF Known
  <2>1. row.event = e \/ \E n \in Machines : at[n] = "save" /\ got[n].event = e
    BY DEF IInv, Known
  <2> QED BY <1>1, <2>1
<1>5. Mirrored'
  <2> SUFFICES ASSUME row.there, ~slipped, ~Outstanding'
               PROVE  row.event # 0 /\ google'[row.event] = row.ver
    BY DEF Mirrored
  <2>1. CASE Outstanding
    <3>1. j.what = "sync" /\ j.ver = row.ver /\ row.ver \notin failed'
      BY <1>1, <2>1 DEF Outstanding
    <3> QED BY <3>1 DEF j
  <2>2. CASE ~Outstanding
    BY <2>2 DEF IInv, Mirrored
  <2> QED BY <2>1, <2>2
<1>6. Unmirrored'
  <2> SUFFICES ASSUME ~row.there, ~slipped, NEW e \in Showing' \ (lost' \cup left')
               PROVE  Removal(e)'
    BY DEF Unmirrored
  <2>1. Removal(e)
    BY DEF IInv, Unmirrored
  <2> QED BY <1>1, <2>1 DEF j
<1> QED BY <1>1, <1>2, <1>3, <1>4, <1>5, <1>6 DEF IInv

-----------------------------------------------------------------------------
(***************************************************************************)
(* The jobs' steps.                                                        *)
(***************************************************************************)
\* Only one job runs while no call outlives its transaction.
LEMMA OneRuns ==
    ASSUME IInv, ~slipped, NEW m \in Machines, at[m] # "idle"
    PROVE  \A n \in Machines \ {m} : at[n] = "idle"
BY DEF IInv, Locked

LEMMA StartSyncStep ==
    ASSUME IInv, NEW m \in Machines, StartSync(m)
    PROVE  IInv'
<1>1. /\ at[m] = "idle" /\ chain[m] # <<>> /\ lock = Free /\ Head(chain[m]).what = "sync"
      /\ row' = row /\ on' = on /\ google' = google /\ created' = created
      /\ timeouts' = timeouts /\ crashes' = crashes /\ slipped' = slipped
  BY DEF StartSync, Ready
<1>2. ~slipped => \A n \in Machines : at[n] = "idle"
  BY <1>1, Bounds DEF IInv, Locked
<1>3. CASE row.there /\ on
  <2>1. /\ at' = [at EXCEPT ![m] = IF row.event = 0 THEN "create" ELSE "patch"]
        /\ got' = [got EXCEPT ![m] = Latest(m)]
        /\ lock' = m /\ chain' = chain /\ ahead' = ahead
        /\ failed' = failed /\ lost' = lost /\ left' = left
    BY <1>3 DEF StartSync
  <2>2. Latest(m) \in Seen /\ Latest(m).ver = row.ver /\ Latest(m).event = row.event
    BY Bounds, TimeMirrorAssumption DEF Latest, Seen, Versions, Events
  <2>3. /\ at' \in [Machines -> AtType] /\ got' \in [Machines -> Seen]
        /\ at'[m] = (IF row.event = 0 THEN "create" ELSE "patch")
        /\ got'[m].ver = row.ver /\ got'[m].event = row.event
        /\ \A n \in Machines \ {m} : at'[n] = at[n] /\ got'[n] = got[n]
    BY <2>1, <2>2 DEF IInv, Type, AtType, Syncing
  <2>4. Type'
    BY <1>1, <2>1, <2>3 DEF IInv, Type
  <2>5. ASSUME NEW n \in Machines PROVE Queued(n)' /\ Runs(n)' /\ Locked(n)'
    <3>1. Queued(n)'
      BY <1>1, <2>1 DEF IInv, Queued
    <3>2. CASE n = m
      <4>1. Head(chain[m]) \in Elems(chain[m])
        BY <1>1, Bounds, TailElems
      <4>2. Head(chain[m]).ver <= row.ver
        BY <1>1, <4>1 DEF IInv, Queued
      <4>3. row.ver \in 1..row.ver
        BY Bounds
      <4>4. at'[m] \in {"create", "patch"} /\ (at'[m] = "create" <=> row.event = 0)
        BY <2>3
      <4>5. Runs(m)'
        BY <1>1, <2>1, <2>3, <4>2, <4>3, <4>4 DEF Runs, Syncing
      <4>6. Locked(m)'
        BY <1>1, <1>3, <2>1, <2>3, <4>4 DEF Locked, Syncing
      <4> QED BY <3>1, <3>2, <4>5, <4>6
    <3>3. CASE n # m
      <4>1. Runs(n)'
        BY <1>1, <2>1, <2>3, <3>3 DEF IInv, Runs
      <4>2. Locked(n)'
        BY <1>1, <1>2, <2>3, <3>3 DEF Locked
      <4> QED BY <3>1, <4>1, <4>2
    <3> QED BY <3>2, <3>3
  <2>6. Known' /\ Mirrored' /\ Unmirrored'
    <3>1. Showing' = Showing /\ (Pending' <=> Pending) /\ (Outstanding' <=> Outstanding)
      BY <1>1, <2>1 DEF Showing, Pending, Outstanding
    <3>2. Known'
      BY <1>1, <1>2, <2>1, <3>1 DEF IInv, Known
    <3> QED BY <1>1, <1>3, <2>1, <3>1, <3>2 DEF IInv, Mirrored, Unmirrored
  <2> QED BY <2>4, <2>5, <2>6 DEF IInv
<1>4. CASE ~(row.there /\ on)
  <2>1. GiveUp(m)
    BY <1>4 DEF StartSync
  <2>2. /\ failed' \subseteq Versions /\ left' \subseteq Events \cup {0} /\ lost' = lost
        /\ failed \subseteq failed' /\ left \subseteq left'
        /\ Head(chain[m]).ver \in failed' /\ End(m)
    BY <1>1, <2>1, GaveUp
  <2>3. /\ Showing' = Showing /\ timeouts' \in 0..MaxTimeouts
        /\ google' \in [Events -> Versions] /\ lost' \subseteq Events
    BY <1>1, <2>2 DEF Showing, IInv, Type
  <2> QED BY <1>1, <1>2, <2>2, <2>3, EndStep
<1> QED BY <1>3, <1>4

LEMMA StartRemoveStep ==
    ASSUME IInv, NEW m \in Machines, StartRemove(m)
    PROVE  IInv'
<1>1. /\ at[m] = "idle" /\ chain[m] # <<>> /\ lock = Free /\ Head(chain[m]).what = "remove"
      /\ row' = row /\ on' = on /\ google' = google /\ created' = created
      /\ timeouts' = timeouts /\ crashes' = crashes
      /\ failed' = failed /\ lost' = lost /\ left' = left /\ slipped' = slipped
  BY DEF StartRemove, Ready, history
<1>2. ~slipped => \A n \in Machines : at[n] = "idle"
  BY <1>1, Bounds DEF IInv, Locked
<1>3. CASE Head(chain[m]).event = 0
  <2>1. End(m)
    BY <1>3 DEF StartRemove
  <2>2. /\ Showing' = Showing /\ timeouts' \in 0..MaxTimeouts /\ 0 \notin Showing
        /\ google' \in [Events -> Versions] /\ lost' \subseteq Events
        /\ left' \subseteq Events \cup {0} /\ failed' \subseteq Versions
    BY <1>1 DEF Showing, Events, IInv, Type
  <2> QED BY <1>1, <1>2, <1>3, <2>1, <2>2, EndStep
<1>4. CASE Head(chain[m]).event # 0
  <2>1. /\ at' = [at EXCEPT ![m] = "remove"] /\ lock' = m
        /\ chain' = chain /\ got' = got /\ ahead' = ahead
    BY <1>4 DEF StartRemove
  <2>2. /\ at' \in [Machines -> AtType] /\ at'[m] = "remove"
        /\ \A n \in Machines \ {m} : at'[n] = at[n]
    BY <2>1 DEF IInv, Type, AtType
  <2>3. Type'
    BY <1>1, <2>1, <2>2 DEF IInv, Type
  <2>4. ASSUME NEW n \in Machines PROVE Queued(n)' /\ Runs(n)' /\ Locked(n)'
    <3>1. Queued(n)'
      BY <1>1, <2>1 DEF IInv, Queued
    <3>2. Runs(n)'
      BY <1>1, <1>4, <2>1, <2>2 DEF IInv, Runs, Syncing
    <3>3. Locked(n)'
      BY <1>1, <1>2, <2>1, <2>2 DEF Locked, Syncing
    <3> QED BY <3>1, <3>2, <3>3
  <2>5. Known' /\ Mirrored' /\ Unmirrored'
    <3>1. Showing' = Showing /\ (Outstanding' <=> Outstanding)
      BY <1>1, <2>1 DEF Showing, Pending, Outstanding
    <3>2. Known'
      BY <1>1, <1>2, <3>1 DEF IInv, Known
    <3>3. Unmirrored'
      BY <1>1, <2>1, <3>1 DEF IInv, Unmirrored, Removal
    <3> QED BY <1>1, <3>1, <3>2, <3>3 DEF IInv, Mirrored
  <2> QED BY <2>3, <2>4, <2>5 DEF IInv
<1> QED BY <1>3, <1>4

LEMMA PatchStep ==
    ASSUME IInv, NEW m \in Machines, NEW answer \in Answers, Patch(m, answer)
    PROVE  IInv'
<1> DEFINE e0 == got[m].event
           v0 == got[m].ver
<1>1. /\ at[m] = "patch"
      /\ row' = row /\ on' = on /\ created' = created
      /\ timeouts' = timeouts /\ crashes' = crashes /\ slipped' = slipped
  BY DEF Patch
<1>2. /\ chain[m] # <<>> /\ Head(chain[m]).what = "sync" /\ Head(chain[m]).ver <= v0
      /\ v0 \in 1..row.ver /\ v0 \in Versions /\ v0 # 0 /\ Head(chain[m]).ver \in Nat
  <2>1. /\ chain[m] # <<>> /\ Head(chain[m]).what = "sync" /\ Head(chain[m]).ver <= v0
        /\ v0 \in 1..row.ver
    BY <1>1 DEF IInv, Runs, Syncing
  <2>2. Head(chain[m]).ver \in Nat
    BY <2>1, Bounds, JobTypes DEF Versions
  <2> QED BY <2>1, <2>2, Bounds DEF Versions
<1>3. google' = IF answer # "refused" /\ Exists(e0) THEN [google EXCEPT ![e0] = v0] ELSE google
  BY DEF Patch
<1>4. google \in [Events -> Versions] /\ e0 \in 0..MaxEvents
  BY Bounds DEF IInv, Type
<1>5. ~slipped => /\ \A n \in Machines \ {m} : at[n] = "idle"
                  /\ row.there /\ e0 = row.event
                  /\ v0 = row.ver \/ Outstanding
  BY <1>1, OneRuns DEF IInv, Locked, Syncing
<1> HIDE DEF e0, v0
<1>6. /\ google' \in [Events -> Versions]
      /\ Showing' = Showing
      /\ google' # google => e0 # 0 /\ google'[e0] = v0
  <2>1. CASE google' = google
    BY <1>4, <2>1 DEF Showing
  <2>2. CASE google' # google
    <3>1. e0 \in Events /\ google[e0] # 0 /\ google' = [google EXCEPT ![e0] = v0]
      BY <1>3, <1>4, <2>2 DEF Exists, Events
    <3>2. google' \in [Events -> Versions] /\ google'[e0] = v0
      BY <1>2, <1>4, <3>1
    <3>3. \A e \in Events : google'[e] # 0 <=> google[e] # 0
      BY <1>2, <1>4, <3>1
    <3>4. e0 # 0
      BY <3>1 DEF Events
    <3> QED BY <3>2, <3>3, <3>4 DEF Showing
  <2> QED BY <2>1, <2>2
<1>7. /\ End(m) /\ failed' \subseteq Versions /\ failed \subseteq failed'
      /\ lost' \subseteq Events /\ lost' = lost
      /\ left' \subseteq Events \cup {0} /\ left \subseteq left'
      /\ \/ Head(chain[m]).ver \in failed'
         \/ e0 # 0 /\ google'[e0] = v0
  <2>1. CASE answer = "ok" /\ Exists(e0)
    <3>1. End(m) /\ failed' = failed /\ lost' = lost /\ left' = left
      BY <2>1 DEF Patch, e0
    <3>2. e0 # 0 /\ google'[e0] = v0
      <4>1. e0 \in Events
        BY <1>4, <2>1 DEF Exists, Events
      <4> QED BY <1>3, <1>4, <2>1, <4>1 DEF Events, Exists
    <3> QED BY <3>1, <3>2 DEF IInv, Type
  <2>2. CASE ~(answer = "ok" /\ Exists(e0))
    <3>1. GiveUp(m)
      BY <2>2 DEF Patch, e0
    <3>2. lost \subseteq Events
      BY DEF IInv, Type
    <3> QED BY <1>2, <3>1, <3>2, GaveUp
  <2> QED BY <2>1, <2>2
<1>8. timeouts' \in 0..MaxTimeouts
  BY <1>1 DEF IInv, Type
<1>9. ASSUME ~slipped, row.there, google'[row.event] # google[row.event], ~Outstanding'
      PROVE  google'[row.event] = row.ver
  <2>1. e0 = row.event /\ google'[e0] = v0
    BY <1>5, <1>6, <1>9
  <2>2. CASE v0 = row.ver
    BY <2>1, <2>2
  <2>3. CASE v0 # row.ver
    <3>1. Pending /\ row.ver \notin failed'
      BY <1>1, <1>5, <1>7, <1>9, <2>3 DEF Outstanding
    <3>2. Head(chain[m]).ver = row.ver
      BY <1>1, <1>2, <1>7, <1>9, <3>1, Ended DEF Outstanding
    <3> QED BY <1>2, <2>1, <3>2, Bounds
  <2> QED BY <2>2, <2>3
<1>10. ASSUME Head(chain[m]).ver = row.ver
       PROVE  row.ver \in failed' \/ (~slipped => row.event # 0 /\ google'[row.event] = row.ver)
  <2>1. v0 = row.ver
    BY <1>2, <1>10, Bounds
  <2> QED BY <1>5, <1>7, <1>10, <2>1
<1> QED BY <1>1, <1>2, <1>5, <1>6, <1>7, <1>8, <1>9, <1>10, EndStep

LEMMA CreateStep ==
    ASSUME IInv, NEW m \in Machines, Create(m)
    PROVE  IInv'
<1> DEFINE e0 == created + 1
           v0 == got[m].ver
<1>1. /\ at[m] = "create" /\ created < MaxEvents /\ created' = e0
      /\ google' = [google EXCEPT ![e0] = v0]
      /\ at' = [at EXCEPT ![m] = "save"] /\ got' = [got EXCEPT ![m].event = e0]
      /\ row' = row /\ on' = on /\ chain' = chain /\ lock' = lock /\ ahead' = ahead
      /\ timeouts' = timeouts /\ crashes' = crashes
      /\ failed' = failed /\ lost' = lost /\ left' = left /\ slipped' = slipped
  BY DEF Create, history
<1>2. /\ google \in [Events -> Versions] /\ at \in [Machines -> AtType]
      /\ got \in [Machines -> Seen] /\ created \in Events \cup {0}
  BY DEF IInv, Type
<1>3. e0 \in Events /\ e0 # 0
  BY <1>1, <1>2, Bounds DEF Events
<1>4. /\ chain[m] # <<>> /\ Head(chain[m]).what = "sync" /\ Head(chain[m]).ver <= v0
      /\ v0 \in 1..row.ver /\ v0 \in Versions
  <2>1. /\ chain[m] # <<>> /\ Head(chain[m]).what = "sync" /\ Head(chain[m]).ver <= v0
        /\ v0 \in 1..row.ver
    BY <1>1 DEF IInv, Runs, Syncing
  <2> QED BY <2>1, Bounds DEF Versions
<1> HIDE DEF e0, v0
<1>5. google' \in [Events -> Versions] /\ google'[e0] = v0 /\ (Showing' \subseteq Showing \cup {e0})
      /\ \A e \in Events : e # e0 => google'[e] = google[e]
  BY <1>1, <1>2, <1>3, <1>4 DEF Showing
<1>6. /\ got' \in [Machines -> Seen] /\ got'[m].event = e0 /\ got'[m].ver = v0
      /\ \A n \in Machines \ {m} : got'[n] = got[n]
  BY <1>1, <1>2, <1>3 DEF Seen, v0
<1>7. /\ at' \in [Machines -> AtType] /\ at'[m] = "save"
      /\ \A n \in Machines \ {m} : at'[n] = at[n]
  BY <1>1, <1>2 DEF AtType, Syncing
<1>8. Type'
  BY <1>1, <1>3, <1>5, <1>6, <1>7 DEF IInv, Type
<1>9. ~slipped => /\ \A n \in Machines \ {m} : at[n] = "idle"
                  /\ lock = m /\ row.there /\ row.event = 0
                  /\ v0 = row.ver \/ Outstanding
  BY <1>1, OneRuns DEF IInv, Locked, Syncing, v0
<1>10. Outstanding' <=> Outstanding
  BY <1>1 DEF Outstanding, Pending
<1>11. ASSUME NEW n \in Machines PROVE Queued(n)' /\ Runs(n)' /\ Locked(n)'
  <2>1. Queued(n)'
    BY <1>1 DEF IInv, Queued
  <2>2. CASE n = m
    <3>1. Runs(m)'
      BY <1>1, <1>3, <1>4, <1>6, <1>7 DEF Runs, Syncing
    <3>2. Locked(m)'
      BY <1>1, <1>5, <1>6, <1>7, <1>9, <1>10 DEF Locked, Syncing
    <3> QED BY <2>1, <2>2, <3>1, <3>2
  <2>3. CASE n # m
    BY <1>1, <1>6, <1>7, <1>9, <2>1, <2>3 DEF IInv, Runs, Locked
  <2> QED BY <2>2, <2>3
<1>12. Known'
  BY <1>1, <1>5, <1>6, <1>7, <1>9 DEF IInv, Known
<1>13. Mirrored' /\ Unmirrored'
  BY <1>1, <1>9, <1>10 DEF IInv, Mirrored, Unmirrored
<1> QED BY <1>8, <1>11, <1>12, <1>13 DEF IInv

LEMMA CreateFailsStep ==
    ASSUME IInv, NEW m \in Machines, CreateFails(m)
    PROVE  IInv'
<1>1. /\ at[m] = "create" /\ GiveUp(m)
      /\ row' = row /\ on' = on /\ google' = google /\ created' = created
      /\ timeouts' = timeouts /\ crashes' = crashes /\ slipped' = slipped
  BY DEF CreateFails
<1>2. chain[m] # <<>> /\ Head(chain[m]).what = "sync"
  BY <1>1 DEF IInv, Runs, Syncing
<1>3. /\ failed' \subseteq Versions /\ left' \subseteq Events \cup {0} /\ lost' = lost
      /\ failed \subseteq failed' /\ left \subseteq left'
      /\ Head(chain[m]).ver \in failed' /\ End(m)
  BY <1>1, <1>2, GaveUp
<1>4. /\ Showing' = Showing /\ timeouts' \in 0..MaxTimeouts
      /\ google' \in [Events -> Versions] /\ lost' \subseteq Events
  BY <1>1, <1>3 DEF Showing, IInv, Type
<1> QED BY <1>1, <1>2, <1>3, <1>4, EndStep

LEMMA SaveFailsStep ==
    ASSUME IInv, NEW m \in Machines, SaveFails(m)
    PROVE  IInv'
<1>1. /\ at[m] = "save" /\ End(m)
      /\ lost' = lost \cup {got[m].event}
      /\ failed' = failed \cup Missed(<<Head(chain[m])>>)
      /\ row' = row /\ on' = on /\ google' = google /\ created' = created
      /\ timeouts' = timeouts /\ crashes' = crashes /\ left' = left /\ slipped' = slipped
  BY DEF SaveFails
<1>2. chain[m] # <<>> /\ Head(chain[m]).what = "sync" /\ got[m].event # 0
  BY <1>1 DEF IInv, Runs, Syncing
<1>3. failed' = failed \cup {Head(chain[m]).ver}
  <2> DEFINE j == Head(chain[m])
  <2>1. failed' = failed \cup Missed(<<j>>) /\ j.what = "sync"
    BY <1>1, <1>2
  <2> HIDE DEF j
  <2>2. Missed(<<j>>) = {j.ver}
    BY <2>1, MissedOne
  <2> QED BY <2>1, <2>2 DEF j
<1>4. Head(chain[m]).ver \in Versions /\ got[m].event \in Events
  BY <1>2, Bounds, JobTypes DEF Events
<1>5. /\ Showing' = Showing /\ timeouts' \in 0..MaxTimeouts
      /\ google' \in [Events -> Versions] /\ lost' \subseteq Events
      /\ failed' \subseteq Versions /\ left' \subseteq Events \cup {0}
  BY <1>1, <1>3, <1>4 DEF Showing, IInv, Type
<1> QED BY <1>1, <1>2, <1>3, <1>5, EndStep

LEMMA SaveStep ==
    ASSUME IInv, NEW m \in Machines, Save(m)
    PROVE  IInv'
<1> DEFINE e0 == got[m].event
           j == Head(chain[m])
<1>1. /\ at[m] = "save" /\ End(m)
      /\ row' = IF row.there THEN [row EXCEPT !.event = e0] ELSE row
      /\ on' = on /\ google' = google /\ created' = created
      /\ timeouts' = timeouts /\ crashes' = crashes
      /\ failed' = failed /\ lost' = lost /\ left' = left /\ slipped' = slipped
  BY DEF Save, history
<1>2. /\ chain[m] # <<>> /\ j.what = "sync" /\ j.ver <= got[m].ver
      /\ got[m].ver \in 1..row.ver /\ e0 \in Events /\ j.ver \in Nat
  <2>1. /\ chain[m] # <<>> /\ j.what = "sync" /\ j.ver <= got[m].ver
        /\ got[m].ver \in 1..row.ver /\ e0 # 0
    BY <1>1 DEF IInv, Runs, Syncing
  <2> QED BY <2>1, Bounds, JobTypes DEF Events, Versions
<1>3. row \in RowType
  BY DEF IInv, Type
<1> HIDE DEF e0, j
<1>4. /\ row' \in RowType /\ row'.ver = row.ver /\ row'.there = row.there
      /\ row.there => row'.event = e0
  BY <1>1, <1>2, <1>3 DEF RowType
<1>5. /\ chain' \in [Machines -> Seq(Jobs)] /\ at' \in [Machines -> AtType]
      /\ got' \in [Machines -> Seen] /\ lock' \in Machines \cup {Free}
      /\ ahead' \in [Machines -> Int] /\ at'[m] = "idle"
      /\ \A n \in Machines \ {m} : at'[n] = at[n]
      /\ \A n \in Machines : Queued(n)' /\ Runs(n)'
      /\ Pending => Pending' \/ (j.what = "sync" /\ j.ver = row.ver)
  BY <1>1, <1>2, <1>4, Ended DEF j
<1>6. Type'
  BY <1>1, <1>4, <1>5 DEF IInv, Type
<1>7. ~slipped => /\ \A n \in Machines \ {m} : at[n] = "idle"
                  /\ row.there /\ row.event = 0 /\ google[e0] = got[m].ver
  BY <1>1, OneRuns DEF IInv, Locked, Syncing, e0
<1>8. \A n \in Machines : Locked(n)'
  BY <1>1, <1>5, <1>7 DEF Locked
<1>9. Known'
  <2> SUFFICES ASSUME ~slipped, NEW e \in Showing \ lost PROVE e = e0
    BY <1>1, <1>4, <1>7 DEF Known, Showing
  <2>1. e # 0
    BY Bounds DEF Showing, Events
  <2> QED BY <1>1, <1>7, <2>1 DEF IInv, Known, e0
<1>10. Mirrored'
  <2> SUFFICES ASSUME ~slipped, ~Outstanding' PROVE e0 # 0 /\ google[e0] = row.ver
    BY <1>1, <1>4 DEF Mirrored
  <2>1. Pending /\ row.ver \notin failed
    BY <1>1, <1>4, <1>7 DEF IInv, Mirrored, Outstanding
  <2>2. j.ver = row.ver
    BY <1>5, <2>1 DEF Outstanding
  <2>3. got[m].ver = row.ver
    BY <1>2, <2>2, Bounds
  <2>4. e0 # 0
    BY <1>2, Bounds DEF Events
  <2> QED BY <1>7, <2>3, <2>4
<1>11. Unmirrored'
  BY <1>1, <1>4, <1>7 DEF Unmirrored
<1> QED BY <1>5, <1>6, <1>8, <1>9, <1>10, <1>11 DEF IInv

LEMMA RemoveStep ==
    ASSUME IInv, NEW m \in Machines, NEW answer \in Answers, Remove(m, answer)
    PROVE  IInv'
<1> DEFINE e0 == Head(chain[m]).event
<1>1. /\ at[m] = "remove"
      /\ google' = IF answer = "refused" THEN google ELSE [google EXCEPT ![e0] = 0]
      /\ row' = row /\ on' = on /\ created' = created
      /\ timeouts' = timeouts /\ crashes' = crashes /\ slipped' = slipped
  BY DEF Remove
<1>2. chain[m] # <<>> /\ Head(chain[m]).what = "remove" /\ e0 \in Events
  BY <1>1, Bounds, JobTypes DEF IInv, Runs, Events
<1>3. ~row.there
  <2>1. Head(chain[m]) \in Elems(chain[m])
    BY <1>2, Bounds, TailElems
  <2> QED BY <1>2, <2>1 DEF IInv, Queued
<1>4. ~slipped => \A n \in Machines \ {m} : at[n] = "idle"
  BY <1>1, OneRuns
<1> HIDE DEF e0
<1>5. /\ google' \in [Events -> Versions] /\ Showing' \subseteq Showing
      /\ answer # "refused" => e0 \notin Showing'
  <2>1. google \in [Events -> Versions] /\ 0 \in Versions
    BY TimeMirrorAssumption DEF IInv, Type, Versions
  <2>2. CASE answer = "refused"
    BY <1>1, <2>1, <2>2 DEF Showing
  <2>3. CASE answer # "refused"
    BY <1>1, <1>2, <2>1, <2>3 DEF Showing
  <2> QED BY <2>2, <2>3
<1>6. /\ End(m) /\ failed' \subseteq Versions /\ failed \subseteq failed'
      /\ lost' \subseteq Events /\ lost' = lost
      /\ left' \subseteq Events \cup {0} /\ left \subseteq left'
      /\ e0 \in left' \/ e0 \notin Showing'
  <2>1. CASE answer = "ok"
    <3>1. End(m) /\ failed' = failed /\ lost' = lost /\ left' = left
      BY <2>1 DEF Remove
    <3> QED BY <1>5, <2>1, <3>1 DEF IInv, Type
  <2>2. CASE answer # "ok"
    <3>1. GiveUp(m) /\ lost \subseteq Events
      BY <2>2 DEF Remove, IInv, Type
    <3> QED BY <1>2, <3>1, GaveUp DEF e0
  <2> QED BY <2>1, <2>2
<1>7. timeouts' \in 0..MaxTimeouts
  BY <1>1 DEF IInv, Type
<1> QED BY <1>1, <1>2, <1>3, <1>4, <1>5, <1>6, <1>7, EndStep DEF e0

-----------------------------------------------------------------------------
(***************************************************************************)
(* What fails: transactions that time out, machines that die.              *)
(***************************************************************************)
LEMMA TimeOutStep ==
    ASSUME IInv, NEW m \in Machines, TimeOut(m)
    PROVE  IInv'
<1>1. /\ lock' = Free /\ slipped' = TRUE /\ timeouts' \in 0..MaxTimeouts
      /\ row' = row /\ on' = on /\ google' = google /\ created' = created /\ chain' = chain
      /\ at' = at /\ got' = got /\ ahead' = ahead /\ crashes' = crashes
      /\ failed' = failed /\ lost' = lost /\ left' = left
  <2>1. timeouts' = timeouts + 1 /\ timeouts < MaxTimeouts /\ timeouts \in 0..MaxTimeouts
    BY DEF TimeOut, IInv, Type
  <2> QED BY <2>1, TimeMirrorAssumption DEF TimeOut
<1>2. Type'
  BY <1>1 DEF IInv, Type
<1>3. \A n \in Machines : Queued(n)' /\ Runs(n)' /\ Locked(n)'
  BY <1>1, Bounds DEF IInv, Queued, Runs, Locked
<1>4. Known' /\ Mirrored' /\ Unmirrored'
  BY <1>1 DEF Known, Mirrored, Unmirrored
<1> QED BY <1>2, <1>3, <1>4 DEF IInv

LEMMA TimeOutWaitingStep ==
    ASSUME IInv, NEW m \in Machines, TimeOutWaiting(m)
    PROVE  IInv'
<1>1. /\ at[m] = "idle" /\ chain[m] # <<>> /\ GiveUp(m)
      /\ row' = row /\ on' = on /\ google' = google /\ created' = created
      /\ crashes' = crashes /\ slipped' = slipped
  BY DEF TimeOutWaiting
<1>2. timeouts' \in 0..MaxTimeouts
  <2>1. timeouts' = timeouts + 1 /\ timeouts < MaxTimeouts /\ timeouts \in 0..MaxTimeouts
    BY DEF TimeOutWaiting, IInv, Type
  <2> QED BY <2>1, TimeMirrorAssumption
<1>3. /\ failed' \subseteq Versions /\ left' \subseteq Events \cup {0} /\ lost' = lost
      /\ failed \subseteq failed' /\ left \subseteq left' /\ End(m)
      /\ Head(chain[m]).what = "sync" => Head(chain[m]).ver \in failed'
      /\ Head(chain[m]).what = "remove" => Head(chain[m]).event \in left'
  BY <1>1, GaveUp
<1>4. /\ Showing' = Showing
      /\ google' \in [Events -> Versions] /\ lost' \subseteq Events
  BY <1>1, <1>3 DEF Showing, IInv, Type
<1> QED BY <1>1, <1>2, <1>3, <1>4, EndStep

LEMMA CrashStep ==
    ASSUME IInv, NEW m \in Machines, Crash(m)
    PROVE  IInv'
<1>1. /\ failed' = failed \cup Missed(chain[m]) /\ left' = left \cup Unremoved(chain[m])
      /\ lost' = IF at[m] = "save" THEN lost \cup {got[m].event} ELSE lost
      /\ chain' = [chain EXCEPT ![m] = <<>>] /\ at' = [at EXCEPT ![m] = "idle"]
      /\ got' = [got EXCEPT ![m] = [ver |-> 0, event |-> 0]]
      /\ lock' = Released(m) /\ ahead' = [ahead EXCEPT ![m] = -1]
      /\ row' = row /\ on' = on /\ google' = google /\ created' = created
      /\ timeouts' = timeouts /\ slipped' = slipped
  BY DEF Crash
<1>2. crashes' \in 0..MaxCrashes
  <2>1. crashes' = crashes + 1 /\ crashes < MaxCrashes /\ crashes \in 0..MaxCrashes
    BY DEF Crash, IInv, Type
  <2> QED BY <2>1, TimeMirrorAssumption
<1>3. /\ Missed(chain[m]) \subseteq Versions /\ Unremoved(chain[m]) \subseteq Events \cup {0}
      /\ \A j \in Elems(chain[m]) : /\ j.what = "sync" => j.ver \in failed'
                                    /\ j.what = "remove" => j.event \in left'
  BY <1>1, Bounds, MissedAll
<1>4. /\ failed' \subseteq Versions /\ failed \subseteq failed'
      /\ left' \subseteq Events \cup {0} /\ left \subseteq left'
      /\ lost' \subseteq Events /\ lost \subseteq lost'
      /\ at[m] = "save" => got[m].event \in lost'
  <2>1. at[m] = "save" => got[m].event \in Events
    BY Bounds DEF IInv, Runs, Events
  <2> QED BY <1>1, <1>3, <2>1 DEF IInv, Type
<1>5. /\ chain' \in [Machines -> Seq(Jobs)] /\ at' \in [Machines -> AtType]
      /\ got' \in [Machines -> Seen] /\ lock' \in Machines \cup {Free}
      /\ ahead' \in [Machines -> Int]
  <2>1. [ver |-> 0, event |-> 0] \in Seen
    BY TimeMirrorAssumption DEF Seen, Versions
  <2> QED BY <1>1, <2>1 DEF IInv, Type, AtType, Released
<1>6. /\ chain'[m] = <<>> /\ at'[m] = "idle" /\ ahead'[m] = -1
      /\ lock' # m /\ (lock # m => lock' = lock)
      /\ \A n \in Machines \ {m} :
           chain'[n] = chain[n] /\ at'[n] = at[n] /\ got'[n] = got[n] /\ ahead'[n] = ahead[n]
  BY <1>1, Bounds DEF IInv, Type, Released
<1>7. Type'
  BY <1>1, <1>2, <1>4, <1>5 DEF IInv, Type
<1>8. Elems(<<>>) = {} /\ Len(<<>>) = 0
  BY DEF Elems
<1>9. Outstanding => Outstanding'
  BY <1>1, <1>3, <1>4, <1>6 DEF Outstanding, Pending
<1>10. ASSUME NEW n \in Machines PROVE Queued(n)' /\ Runs(n)' /\ Locked(n)'
  <2>1. CASE n = m
    BY <1>6, <1>8, <2>1 DEF Queued, Runs, Locked, Syncing
  <2>2. CASE n # m
    <3>1. lock' = n => lock = n
      BY <1>1, Bounds DEF Released
    <3>2. Queued(n)' /\ Runs(n)'
      BY <1>1, <1>6, <2>2, <3>1 DEF IInv, Queued, Runs
    <3>3. Locked(n)'
      <4> SUFFICES ASSUME ~slipped, at[n] # "idle" PROVE Locked(n)'
        BY <1>1, <1>6, <2>2 DEF Locked
      <4>1. lock = n /\ lock' = n
        BY <1>6, <2>2 DEF IInv, Locked
      <4> QED BY <1>1, <1>6, <1>9, <2>2, <4>1 DEF IInv, Locked
    <3> QED BY <3>2, <3>3
  <2> QED BY <2>1, <2>2
<1>11. Showing' = Showing
  BY <1>1 DEF Showing
<1>12. Known'
  BY <1>1, <1>4, <1>6, <1>11 DEF IInv, Known
<1>13. Mirrored'
  BY <1>1, <1>9 DEF IInv, Mirrored
<1>14. Unmirrored'
  BY <1>1, <1>3, <1>4, <1>6, <1>11 DEF IInv, Unmirrored, Removal
<1> QED BY <1>7, <1>10, <1>12, <1>13, <1>14 DEF IInv

-----------------------------------------------------------------------------
(***************************************************************************)
(* The invariant holds of every behaviour.                                 *)
(***************************************************************************)
LEMMA InitInvariant == Init => IInv
<1> SUFFICES ASSUME Init PROVE IInv
  OBVIOUS
<1>1. PICK m \in Machines :
        chain = [n \in Machines |-> IF n = m THEN <<SyncJob(1)>> ELSE <<>>]
  BY DEF Init
<1> DEFINE one == <<SyncJob(1)>>
<1>2. /\ one \in Seq(Jobs) /\ Len(one) = 1 /\ one[1] = SyncJob(1)
      /\ <<>> \in Seq(Jobs) /\ Len(<<>>) = 0
  <2>1. SyncJob(1) \in Jobs
    BY JobTypes, TimeMirrorAssumption DEF Versions
  <2> QED BY <2>1
<1>3. Elems(<<>>) = {} /\ Elems(one) = {SyncJob(1)}
  BY <1>2 DEF Elems
<1>4. SyncJob(1).what = "sync" /\ SyncJob(1).ver = 1
  BY DEF SyncJob
<1>5. chain[m] = one /\ \A n \in Machines \ {m} : chain[n] = <<>>
  BY <1>1
<1> HIDE DEF one
<1>6. /\ row.there = TRUE /\ row.ver = 1 /\ row.event = 0 /\ row \in RowType
      /\ on \in BOOLEAN /\ google \in [Events -> Versions] /\ created \in Events \cup {0}
      /\ Showing = {}
  BY TimeMirrorAssumption DEF Init, RowType, Versions, Showing
<1>7. /\ chain \in [Machines -> Seq(Jobs)] /\ at \in [Machines -> AtType]
      /\ got \in [Machines -> Seen] /\ lock = Free /\ ahead \in [Machines -> Int]
      /\ timeouts \in 0..MaxTimeouts /\ crashes \in 0..MaxCrashes
      /\ failed = {} /\ lost = {} /\ left = {} /\ slipped = FALSE
      /\ \A n \in Machines : at[n] = "idle" /\ ahead[n] = -1
  <2>1. chain \in [Machines -> Seq(Jobs)]
    BY <1>1, <1>2 DEF one
  <2> QED BY <2>1, TimeMirrorAssumption DEF Init, AtType, Seen, Versions
<1>8. Type
  BY <1>6, <1>7 DEF Type
<1>9. ASSUME NEW n \in Machines PROVE Queued(n) /\ Runs(n) /\ Locked(n)
  <2>1. Queued(n)
    BY <1>2, <1>3, <1>4, <1>5, <1>6, <1>7 DEF Queued
  <2> QED BY <1>7, <2>1, TimeMirrorAssumption DEF Runs, Locked, Syncing
<1>10. Pending
  BY <1>3, <1>4, <1>5, <1>6 DEF Pending
<1>11. Known /\ Mirrored /\ Unmirrored
  BY <1>6, <1>10 DEF Known, Mirrored, Unmirrored, Outstanding
<1> QED BY <1>8, <1>9, <1>11 DEF IInv

LEMMA NextInvariant == IInv /\ [Next]_vars => IInv'
<1> SUFFICES ASSUME IInv, [Next]_vars PROVE IInv'
  OBVIOUS
<1>1. CASE UNCHANGED vars
  BY <1>1 DEF vars, history, IInv, Type, Queued, Runs, Locked, Known, Mirrored, Unmirrored,
              Outstanding, Pending, Removal, Showing
<1>2. ASSUME Toggle PROVE IInv'
  BY <1>2, ToggleStep
<1>3. ASSUME NEW m \in Machines,
             \/ Update(m) \/ UpdateUnanswered(m)
             \/ Delete(m) \/ DeleteRow(m) \/ DeleteUnanswered(m) \/ DeleteTimesOut(m)
      PROVE  IInv'
  BY <1>3, UpdateStep, UpdateUnansweredStep, DeleteStep, DeleteRowStep, DeleteUnansweredStep,
     DeleteTimesOutStep
<1>4. ASSUME NEW m \in Machines, StartSync(m) \/ StartRemove(m) PROVE IInv'
  BY <1>4, StartSyncStep, StartRemoveStep
<1>5. ASSUME NEW m \in Machines, Calls(m) PROVE IInv'
  BY <1>5, PatchStep, RemoveStep, CreateStep, CreateFailsStep, SaveStep, SaveFailsStep DEF Calls
<1>6. ASSUME NEW m \in Machines, TimeOut(m) \/ TimeOutWaiting(m) \/ Crash(m) PROVE IInv'
  BY <1>6, TimeOutStep, TimeOutWaitingStep, CrashStep
<1> QED BY <1>1, <1>2, <1>3, <1>4, <1>5, <1>6 DEF Next

LEMMA Invariant == Spec => []IInv
BY InitInvariant, NextInvariant, PTL DEF Spec

-----------------------------------------------------------------------------
\* The row, the calendar and the queues have their types.
THEOREM TypeCorrect == Spec => []TypeOK
<1>1. IInv => TypeOK
  BY DEF IInv, Type, Queued, TypeOK, RowType, AtType, Syncing
<1> QED BY <1>1, Invariant, PTL

\* Writes on several machines make one event, not two, as long as no call
\* outlives the transaction that holds the lock.
THEOREM EventIsOne == Spec => []OneEvent
<1>1. IInv => OneEvent
  <2> SUFFICES ASSUME IInv, ~slipped, NEW e \in Showing \ lost, NEW f \in Showing \ lost
               PROVE  e = f
    BY DEF OneEvent
  <2>1. e # 0 /\ f # 0
    BY Bounds DEF Showing, Events
  <2>2. CASE \E m \in Machines : at[m] = "save"
    <3>1. PICK m \in Machines : at[m] = "save"
      BY <2>2
    <3>2. row.event = 0 /\ \A n \in Machines \ {m} : at[n] # "save"
      BY <3>1, OneRuns DEF IInv, Locked
    <3> QED BY <2>1, <3>2 DEF IInv, Known
  <2>3. CASE \A m \in Machines : at[m] # "save"
    BY <2>3 DEF IInv, Known
  <2> QED BY <2>2, <2>3
<1> QED BY <1>1, Invariant, PTL

\* When all jobs are through, the event shows the entry's latest version, unless
\* that version's own job failed or found the sync off.
THEOREM LatestIsMirrored == Spec => []LatestMirrored
<1>1. IInv => LatestMirrored
  <2> SUFFICES ASSUME IInv, Quiet, row.there, row.ver \notin failed, ~slipped
               PROVE  row.event # 0 /\ google[row.event] = row.ver
    BY DEF LatestMirrored
  <2>1. ~Pending
    BY DEF Quiet, Pending, Elems
  <2> QED BY <2>1 DEF IInv, Mirrored, Outstanding
<1> QED BY <1>1, Invariant, PTL

\* A deleted entry leaves no event behind, but one whose id was lost or whose
\* removal failed.
THEOREM DeletedIsUnmirrored == Spec => []DeletedUnmirrored
<1>1. IInv => DeletedUnmirrored
  <2> SUFFICES ASSUME IInv, Quiet, ~row.there, ~slipped, NEW e \in Showing \ (lost \cup left)
               PROVE  FALSE
    BY DEF DeletedUnmirrored
  <2>1. ~Removal(e)
    BY DEF Quiet, Removal, Elems
  <2> QED BY <2>1 DEF IInv, Unmirrored
<1> QED BY <1>1, Invariant, PTL
=============================================================================
