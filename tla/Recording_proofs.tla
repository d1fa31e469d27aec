-------------------------- MODULE Recording_proofs --------------------------
(***************************************************************************)
(* Recording, for every set of recordings, notes, channels and handlers.   *)
(***************************************************************************)
EXTENDS Recording, SequenceTheorems, TLAPS

Calls == {"requestStop", "claim", "resume", "finish", "finishFailed", "jobFailed", "jobDone",
          "timedOut", "markRetry", "startProcessing", "readJob", "dispatch", "failDispatch",
          "notConfigured", "finalizeEmpty", "putChunk", "recordChunk", "deletePrefix",
          "deleteRow", "stampDeleted", "sweepAudio", "sweepRows", "countActive", "insert"}

\* Calls that only begin a list; those that follow a certain other one.
First == {"readJob", "dispatch", "sweepAudio", "putChunk"}

MayFollow(call, last) ==
    /\ call \notin First
    /\ call = "recordChunk" => last = "putChunk"
    /\ call = "deletePrefix" => last \in {"finalizeEmpty", "notConfigured"}

\* The calls a handler has still to make are in an order that makes sense.
Ordered(s) == s \in Seq(Calls) /\ \A i \in 1..Len(s) - 1 : MayFollow(s[i + 1], s[i])

LEMMA OrderedTail ==
    ASSUME NEW s, Ordered(s), s # <<>>
    PROVE  /\ Ordered(Tail(s))
           /\ Tail(s) # <<>> => MayFollow(Head(Tail(s)), Head(s))
<1>1. s \in Seq(Calls) /\ Len(s) \in Nat /\ Len(s) # 0
  BY EmptySeq DEF Ordered
<1>2. /\ Tail(s) \in Seq(Calls) /\ Len(Tail(s)) = Len(s) - 1
      /\ \A i \in 1..Len(s) - 1 : Tail(s)[i] = s[i + 1]
  BY <1>1, HeadTailProperties
<1>3. Ordered(Tail(s))
  BY <1>1, <1>2 DEF Ordered
<1>4. ASSUME Tail(s) # <<>> PROVE MayFollow(Head(Tail(s)), Head(s))
  <2>1. Len(s) - 1 # 0
    BY <1>2, <1>4, EmptySeq
  <2>2. Head(Tail(s)) = s[2] /\ Head(s) = s[1]
    BY <1>1, <1>2, <2>1
  <2>3. \A i \in 1..Len(s) - 1, k \in Nat : k = i + 1 => MayFollow(s[k], s[i])
    BY DEF Ordered
  <2>4. 1 \in 1..Len(s) - 1
    <3>1. ASSUME NEW n \in Nat, n # 0, n - 1 # 0 PROVE 1 \in 1..n - 1
      BY <3>1
    <3> QED BY <1>1, <2>1, <3>1
  <2>5. MayFollow(s[2], s[1])
    BY <2>3, <2>4
  <2> QED BY <2>2, <2>5
<1> QED BY <1>3, <1>4

LEMMA OrderedConcat ==
    ASSUME NEW s, NEW t, Ordered(s), Ordered(t), s # <<>>, t # <<>>,
           t[1] \notin First \cup {"recordChunk", "deletePrefix"}
    PROVE  Ordered(s \o t) /\ s \o t # <<>> /\ Head(s \o t) = Head(s)
<1>1. /\ s \in Seq(Calls) /\ Len(s) \in Nat /\ Len(s) # 0
      /\ t \in Seq(Calls) /\ Len(t) \in Nat /\ Len(t) # 0
  BY EmptySeq DEF Ordered
<1>2. /\ s \o t \in Seq(Calls)
      /\ Len(s \o t) = Len(s) + Len(t)
      /\ \A i \in 1..Len(s) + Len(t) : (s \o t)[i] = IF i <= Len(s) THEN s[i] ELSE t[i - Len(s)]
  BY <1>1, ConcatProperties
<1>3. ASSUME NEW i \in 1..Len(s \o t) - 1 PROVE MayFollow((s \o t)[i + 1], (s \o t)[i])
  <2>1. CASE i < Len(s)
    BY <1>1, <1>2, <2>1 DEF Ordered
  <2>2. CASE i = Len(s)
    BY <1>1, <1>2, <2>2 DEF MayFollow
  <2>3. CASE i > Len(s)
    <3>1. i - Len(s) \in 1..Len(t) - 1 /\ (i + 1) - Len(s) = (i - Len(s)) + 1
      BY <1>1, <1>2, <2>3
    <3>2. (s \o t)[i + 1] = t[(i - Len(s)) + 1] /\ (s \o t)[i] = t[i - Len(s)]
      BY <1>1, <1>2, <2>3, <3>1
    <3> QED BY <3>1, <3>2 DEF Ordered
  <2> QED BY <1>1, <2>1, <2>2, <2>3
<1>4. s \o t # <<>> /\ Head(s \o t) = Head(s)
  BY <1>1, <1>2
<1> QED BY <1>2, <1>3, <1>4 DEF Ordered

Begins(s, call) == Ordered(s) /\ s # <<>> /\ Head(s) = call

\* The lists that handlers are given.
LEMMA SingleLists ==
    /\ Ordered(<<>>)
    /\ Begins(<<"requestStop">>, "requestStop")
    /\ Begins(<<"claim">>, "claim") /\ Begins(<<"resume">>, "resume")
    /\ Begins(<<"finish">>, "finish") /\ Begins(<<"finishFailed">>, "finishFailed")
    /\ Begins(<<"jobDone">>, "jobDone") /\ Begins(<<"jobFailed">>, "jobFailed")
    /\ Begins(<<"timedOut">>, "timedOut")
    /\ Begins(<<"startProcessing">>, "startProcessing")
    /\ Begins(<<"readJob">>, "readJob") /\ Begins(<<"dispatch">>, "dispatch")
    /\ Begins(<<"failDispatch">>, "failDispatch")
BY DEF Begins, Ordered, Calls

LEMMA PairLists ==
    /\ Begins(<<"finalizeEmpty", "deletePrefix">>, "finalizeEmpty")
    /\ Begins(<<"notConfigured", "deletePrefix">>, "notConfigured")
    /\ Begins(<<"putChunk", "recordChunk">>, "putChunk")
    /\ Begins(<<"deletePrefix", "deleteRow">>, "deletePrefix")
    /\ Begins(<<"deletePrefix", "stampDeleted">>, "deletePrefix")
    /\ Begins(<<"markRetry", "startProcessing">>, "markRetry")
    /\ Begins(<<"sweepAudio", "sweepRows">>, "sweepAudio")
    /\ Begins(<<"countActive", "insert">>, "countActive")
BY DEF Begins, Ordered, Calls, MayFollow, First

-----------------------------------------------------------------------------
(***************************************************************************)
(* The inductive invariant.                                                *)
(***************************************************************************)
\* A handler at work knows its recording, and the channel of its chunk.
Handled ==
    /\ todo \in [Handlers -> Seq(Calls)]
    /\ \A h \in Handlers :
         /\ Ordered(todo[h])
         /\ todo[h] # <<>> => rec[h] \in created
         /\ Next1(h, "putChunk") \/ Next1(h, "recordChunk") => chan[h] \in Channels

\* Ended(r): nobody needs r's audio any more.
Ended(r) == r \in deleting \/ row[r].finalized

\* Audio is deleted only of a recording that has ended, and a chunk is
\* recorded only where its audio is, unless the recording has ended since.
Spared ==
    \A h \in Handlers :
       /\ swept[h] \subseteq deleting
       /\ Next1(h, "deletePrefix") => Ended(rec[h])
       /\ Next1(h, "recordChunk") => rec[h] \in audio \/ Ended(rec[h])

AudioOfAll == \A r \in Recs : row[r].channels # {} => r \in audio \/ Ended(r)

StoredOfAll == \A r \in Recs : stored[r] \subseteq row[r].channels

\* From the claim of a row to the fresh read of it, channels are only added.
Heard ==
    \A h \in Handlers :
       /\ Next1(h, "readJob") => heard[h] \subseteq stored[rec[h]]
       /\ Next1(h, "dispatch") => heard[h] \subseteq saw[h].channels

IInv == TypeOK /\ Handled /\ Spared /\ AudioOfAll /\ StoredOfAll /\ Heard

-----------------------------------------------------------------------------
(***************************************************************************)
(* What the steps amount to.                                               *)
(***************************************************************************)
\* h starts on r; its calls keep to the order, and do not assume what only
\* earlier calls bring about.
Starts(h, r, calls, call) ==
    /\ Free(h) /\ r \in exists
    /\ Begins(calls, call)
    /\ call \notin {"readJob", "dispatch", "recordChunk", "sweepAudio"}
    /\ call = "putChunk" => chan'[h] \in Channels
    /\ call = "deletePrefix" => r \in deleting' \/ row[r].finalized
    /\ todo' = [todo EXCEPT ![h] = calls]
    /\ rec' = [rec EXCEPT ![h] = r]
    /\ saw' = [saw EXCEPT ![h] = row[r]]
    /\ chan' = chan \/ \E c \in Channels : chan' = [chan EXCEPT ![h] = c]
    /\ swept' = swept /\ requests' \in Nat
    /\ deleting' = deleting \/ deleting' = deleting \cup {r}
    /\ Unread

LEMMA ProcessLists ==
    ASSUME NEW s
    PROVE  /\ \E call \in {"startProcessing", "finalizeEmpty"} : Begins(Process(s), call)
           /\ Process(s)[1] \in {"startProcessing", "finalizeEmpty"}
<1>1. CASE s.channels # {}
  BY <1>1, SingleLists DEF Process
<1>2. CASE s.channels = {}
  BY <1>2, PairLists DEF Process
<1> QED BY <1>1, <1>2

LEMMA StopList ==
    ASSUME NEW s, NEW final \in BOOLEAN
    PROVE  Begins(<<"requestStop">> \o (IF final THEN Process(s) ELSE <<>>), "requestStop")
<1>1. CASE final
  <2>1. Process(s)[1] \notin First \cup {"recordChunk", "deletePrefix"}
    BY ProcessLists DEF First
  <2>2. Ordered(Process(s)) /\ Process(s) # <<>>
    BY ProcessLists DEF Begins
  <2>3. Ordered(<<"requestStop">>) /\ <<"requestStop">> # <<>> /\ Head(<<"requestStop">>) = "requestStop"
    BY SingleLists DEF Begins
  <2>4. Begins(<<"requestStop">> \o Process(s), "requestStop")
    BY <2>1, <2>2, <2>3, OrderedConcat DEF Begins
  <2> QED BY <1>1, <2>4
<1>2. CASE ~final
  BY <1>2, SingleLists
<1> QED BY <1>1, <1>2

LEMMA RequestStarts ==
    ASSUME TypeOK, NEW h \in Handlers, NEW r \in Recs, Arrive(h, r)
    PROVE  Create(h, r) \/ \E calls, call : Starts(h, r, calls, call)
<1> USE DEF Begin, Request
<1>0. /\ requests \in Nat /\ chan \in [Handlers -> Channels \cup {NoChannel}]
  BY DEF TypeOK
<1>1. ASSUME NEW final \in BOOLEAN, Stop(h, r, final) PROVE \E calls : Starts(h, r, calls, "requestStop")
  <2> DEFINE calls == <<"requestStop">> \o (IF final THEN Process(row[r]) ELSE <<>>)
  <2>1. Begins(calls, "requestStop")
    BY StopList
  <2>2. /\ Request /\ Begin(h, r, calls)
        /\ UNCHANGED <<chan, swept, deleting>> /\ Unread
    BY <1>1 DEF Stop
  <2> HIDE DEF calls
  <2>3. Starts(h, r, calls, "requestStop")
    BY <1>0, <2>1, <2>2 DEF Starts
  <2> QED BY <2>3
<1>2. ASSUME NEW error \in BOOLEAN, Finish(h, r, error) PROVE \E calls, call : Starts(h, r, calls, call)
  <2>1. CASE error
    <3>1. Starts(h, r, <<"finishFailed">>, "finishFailed")
      BY <1>0, <1>2, <2>1, SingleLists DEF Finish, Starts
    <3> QED BY <3>1
  <2>2. CASE ~error
    <3>1. Starts(h, r, <<"finish">>, "finish")
      BY <1>0, <1>2, <2>2, SingleLists DEF Finish, Starts
    <3> QED BY <3>1
  <2> QED BY <2>1, <2>2
<1>3. ASSUME NEW error \in BOOLEAN, Result(h, r, error) PROVE \E calls, call : Starts(h, r, calls, call)
  <2>1. CASE error
    <3>1. Starts(h, r, <<"jobFailed">>, "jobFailed")
      BY <1>0, <1>3, <2>1, SingleLists DEF Result, Starts
    <3> QED BY <3>1
  <2>2. CASE ~error
    <3>1. Starts(h, r, <<"jobDone">>, "jobDone")
      BY <1>0, <1>3, <2>2, SingleLists DEF Result, Starts
    <3> QED BY <3>1
  <2> QED BY <2>1, <2>2
<1>4. ASSUME NEW c \in Channels, Chunk(h, r, c)
      PROVE  Starts(h, r, <<"putChunk", "recordChunk">>, "putChunk")
  <2>1. chan' = [chan EXCEPT ![h] = c] /\ chan'[h] = c
    BY <1>0, <1>4 DEF Chunk
  <2> DEFINE calls == <<"putChunk", "recordChunk">>
  <2>2. Begins(calls, "putChunk")
    BY PairLists
  <2>3. /\ Request /\ Begin(h, r, calls)
        /\ UNCHANGED <<swept, deleting>> /\ Unread
    BY <1>4 DEF Chunk
  <2> HIDE DEF calls
  <2>4. "putChunk" # "deletePrefix" /\ requests' \in Nat
    BY <1>0, <2>3
  <2>5. Starts(h, r, calls, "putChunk")
    BY <2>1, <2>2, <2>3, <2>4 DEF Starts
  <2> QED BY <2>5 DEF calls
<1>5. ASSUME Claim(h, r) PROVE Starts(h, r, <<"claim">>, "claim")
  BY <1>0, <1>5, SingleLists DEF Claim, Starts
<1>6. ASSUME Resume(h, r) PROVE Starts(h, r, <<"resume">>, "resume")
  BY <1>0, <1>6, SingleLists DEF Resume, Starts
<1>7. ASSUME Discard(h, r) PROVE Starts(h, r, <<"deletePrefix", "deleteRow">>, "deletePrefix")
  BY <1>0, <1>7, PairLists DEF Discard, Starts
<1> QED BY <1>1, <1>2, <1>3, <1>4, <1>5, <1>6, <1>7 DEF Arrive

LEMMA VisitStarts ==
    ASSUME NEW h \in Handlers, NEW r \in Recs, requests \in Nat,
           Visit(h, r) \/ VisitExpired(h, r)
    PROVE  \E calls, call : Starts(h, r, calls, call)
<1> USE DEF Begin
<1>1. CASE Visit(h, r)
  <2> DEFINE calls == Branch(r)
             listed == \E i \in DOMAIN calls : calls[i] = "deleteRow"
  <2>0. calls # <<>>
    BY <1>1 DEF Visit
  <2>1. \/ calls \in {Process(row[r]), <<"timedOut">>, <<"markRetry", "startProcessing">>,
                      <<"startProcessing">>}
        \/ calls = <<"deletePrefix", "deleteRow">>
    BY <2>0 DEF Branch, RetryOrFail
  <2>2. PICK call \in {"startProcessing", "finalizeEmpty", "timedOut", "markRetry", "deletePrefix"} :
            /\ Begins(calls, call)
            /\ call = "deletePrefix" => calls = <<"deletePrefix", "deleteRow">>
    BY <2>1, ProcessLists, SingleLists, PairLists
  <2>3. call = "deletePrefix" => r \in deleting'
    <3>1. ASSUME call = "deletePrefix" PROVE "deleteRow" \in {calls[i] : i \in DOMAIN calls}
      <4>1. calls[2] = "deleteRow" /\ 2 \in DOMAIN calls
        BY <2>2, <3>1
      <4> QED BY <4>1
    <3> QED BY <1>1, <3>1 DEF Visit
  <2>4. deleting' = deleting \/ deleting' = deleting \cup {r}
    BY <1>1 DEF Visit
  <2>5. todo' = [todo EXCEPT ![h] = calls]
    BY <1>1 DEF Visit
  <2> HIDE DEF calls
  <2>6. Starts(h, r, calls, call)
    BY <1>1, <2>2, <2>3, <2>4, <2>5 DEF Visit, Starts
  <2> QED BY <2>6
<1>2. CASE VisitExpired(h, r)
  <2>1. Starts(h, r, <<"deletePrefix", "stampDeleted">>, "deletePrefix")
    BY <1>2, PairLists DEF VisitExpired, Starts
  <2> QED BY <2>1
<1> QED BY <1>1, <1>2

-----------------------------------------------------------------------------
(***************************************************************************)
(* The steps, split into what becomes of the recordings and what of the    *)
(* handlers.                                                               *)
(***************************************************************************)
DataOK ==
    /\ exists \subseteq created /\ created \subseteq Recs
    /\ row \in [Recs -> RowType]
    /\ age \in [Recs -> [idle : 0..2, silent : BOOLEAN, old : BOOLEAN, expired : BOOLEAN]]
    /\ audio \subseteq Recs
    /\ requests \in Nat /\ throws \in Nat
    /\ stored \in [Recs -> SUBSET Channels]
    /\ jobs \subseteq Recs
    /\ deleting \subseteq Recs

HandlersOK ==
    /\ rec \in [Handlers -> Recs \cup {NoRec}]
    /\ saw \in [Handlers -> RowType]
    /\ chan \in [Handlers -> Channels \cup {NoChannel}]
    /\ swept \in [Handlers -> SUBSET Recs]

\* What has ended stays so; only the audio of what has ended goes; channels are
\* added, and the first one only where there is audio.
DataStep ==
    /\ DataOK'
    /\ created \subseteq created' /\ deleting \subseteq deleting'
    /\ \A r \in Recs :
         /\ Ended(r) => Ended(r)'
         /\ r \in audio => r \in audio' \/ Ended(r)
         /\ stored[r] \subseteq stored'[r] /\ stored'[r] \subseteq row'[r].channels
         /\ row'[r].channels # {} => row[r].channels # {} \/ r \in audio \/ Ended(r)

Same(g) ==
    /\ todo'[g] = todo[g] /\ rec'[g] = rec[g] /\ saw'[g] = saw[g]
    /\ chan'[g] = chan[g] /\ swept'[g] = swept[g]

\* h goes on with calls, whose first one finds what it relies on.
HandlerStep(h, calls) ==
    /\ HandlersOK' /\ Ordered(calls) /\ todo' = [todo EXCEPT ![h] = calls]
    /\ \A g \in Handlers \ {h} : Same(g)
    /\ swept'[h] \subseteq deleting'
    /\ calls # <<>> =>
         /\ rec'[h] \in created'
         /\ Head(calls) \in {"putChunk", "recordChunk"} => chan'[h] \in Channels
         /\ Head(calls) = "deletePrefix" => Ended(rec[h])'
         /\ Head(calls) = "recordChunk" => rec'[h] \in audio' \/ Ended(rec[h])'
         /\ Head(calls) = "readJob" => Next1(h, "startProcessing") /\ rec'[h] = rec[h]
         /\ Head(calls) = "dispatch" => Next1(h, "readJob") /\ saw'[h] = row[rec[h]]

LEMMA TypeSplit == TypeOK <=> DataOK /\ HandlersOK /\ heard \in [Handlers -> SUBSET Channels]
BY DEF TypeOK, DataOK, HandlersOK

\* What a handler has heard when a step is done.
LEMMA HistoryStep ==
    ASSUME History, NEW g \in Handlers
    PROVE  /\ todo'[g] = todo[g] /\ todo[g] # <<>> => heard'[g] = heard[g]
           /\ todo'[g] = <<>> => heard'[g] = {}
           /\ todo'[g] # <<>> /\ Made(g, "startProcessing") => heard'[g] = stored[rec[g]]
           /\ todo'[g] # <<>> /\ ~Made(g, "startProcessing") => heard'[g] = heard[g]
<1>1. heard'[g] = CASE todo'[g] = <<>> -> {}
                    [] Made(g, "startProcessing") /\ todo'[g] # <<>> -> stored[rec[g]]
                    [] OTHER -> heard[g]
  BY DEF History
<1>2. todo'[g] = todo[g] => ~Made(g, "startProcessing")
  BY DEF Made
<1> QED BY <1>1, <1>2

\* The two halves of a step make a step of the invariant.
LEMMA Halves ==
    ASSUME IInv, History, DataStep, NEW h \in Handlers, NEW calls, HandlerStep(h, calls)
    PROVE  IInv'
<1> USE DEF IInv
<1>1. DataOK /\ HandlersOK /\ heard \in [Handlers -> SUBSET Channels]
  BY TypeSplit
<1>2. /\ todo \in [Handlers -> Seq(Calls)] /\ calls \in Seq(Calls)
      /\ todo'[h] = calls
      /\ \A g \in Handlers : g # h => Same(g)
  BY DEF Handled, HandlerStep, Ordered
<1>3. heard' \in [Handlers -> SUBSET Channels]
  <2>1. ASSUME NEW g \in Handlers PROVE heard'[g] \in SUBSET Channels
    <3>1. CASE todo'[g] # <<>> /\ Made(g, "startProcessing")
      <4>1. rec[g] \in Recs
        BY <1>1, <3>1 DEF Made, Next1, Handled, DataOK
      <4> QED BY <1>1, <3>1, <4>1, HistoryStep DEF DataOK
    <3>2. CASE ~(todo'[g] # <<>> /\ Made(g, "startProcessing"))
      BY <1>1, <3>2, HistoryStep
    <3> QED BY <3>1, <3>2
  <2>2. heard' = [g \in Handlers |-> heard'[g]]
    BY DEF History
  <2> QED BY <2>1, <2>2
<1>4. TypeOK'
  <2>1. DataOK' /\ HandlersOK' /\ (heard \in [Handlers -> SUBSET Channels])'
    BY <1>3 DEF DataStep, HandlerStep
  <2> QED BY <2>1 DEF TypeOK, DataOK, HandlersOK
<1>5. Handled'
  <2>1. todo' \in [Handlers -> Seq(Calls)]
    BY <1>2 DEF HandlerStep
  <2>2. ASSUME NEW g \in Handlers
        PROVE  (/\ Ordered(todo[g])
                /\ todo[g] # <<>> => rec[g] \in created
                /\ Next1(g, "putChunk") \/ Next1(g, "recordChunk") => chan[g] \in Channels)'
    <3>1. CASE g = h
      BY <1>2, <3>1 DEF HandlerStep, Next1, Ordered
    <3>2. CASE g # h
      BY <1>2, <3>2 DEF Same, Handled, Next1, DataStep, Ordered
    <3> QED BY <3>1, <3>2
  <2> QED BY <2>1, <2>2 DEF Handled
<1>6. Spared'
  <2>1. ASSUME NEW g \in Handlers
        PROVE  (/\ swept[g] \subseteq deleting
                /\ Next1(g, "deletePrefix") => Ended(rec[g])
                /\ Next1(g, "recordChunk") => rec[g] \in audio \/ Ended(rec[g]))'
    <3>1. CASE g = h
      BY <1>2, <3>1 DEF HandlerStep, Next1
    <3>2. CASE g # h
      <4>1. /\ swept[g] \subseteq deleting
            /\ Next1(g, "deletePrefix") => Ended(rec[g])
            /\ Next1(g, "recordChunk") => rec[g] \in audio \/ Ended(rec[g])
        BY DEF Spared
      <4>2. Same(g)
        BY <1>2, <3>2
      <4>3. todo[g] # <<>> => rec[g] \in Recs
        BY <1>1 DEF Handled, DataOK
      <4> QED BY <4>1, <4>2, <4>3 DEF Same, Next1, DataStep, Ended
    <3> QED BY <3>1, <3>2
  <2> QED BY <2>1 DEF Spared
<1>7. AudioOfAll' /\ StoredOfAll'
  BY DEF DataStep, AudioOfAll, StoredOfAll
<1>8. Heard'
  <2>1. ASSUME NEW g \in Handlers
        PROVE  (/\ Next1(g, "readJob") => heard[g] \subseteq stored[rec[g]]
                /\ Next1(g, "dispatch") => heard[g] \subseteq saw[g].channels)'
    <3>0. todo[g] # <<>> => rec[g] \in Recs
      BY <1>1 DEF Handled, DataOK
    <3>1. CASE g = h
      <4>1. ASSUME Next1(h, "readJob")' PROVE heard'[h] \subseteq stored'[rec'[h]]
        <5>1. Next1(h, "startProcessing") /\ rec'[h] = rec[h] /\ todo'[h] # <<>> /\ todo'[h] # todo[h]
          BY <1>2, <4>1 DEF HandlerStep, Next1
        <5>2. heard'[h] = stored[rec[h]]
          BY <5>1, HistoryStep DEF Made
        <5> QED BY <3>0, <3>1, <5>1, <5>2 DEF DataStep, Next1
      <4>2. ASSUME Next1(h, "dispatch")' PROVE heard'[h] \subseteq saw'[h].channels
        <5>1. Next1(h, "readJob") /\ saw'[h] = row[rec[h]] /\ todo'[h] # <<>>
          BY <1>2, <4>2 DEF HandlerStep, Next1
        <5>2. heard'[h] = heard[h]
          BY <5>1, HistoryStep DEF Made, Next1
        <5>3. heard[h] \subseteq stored[rec[h]] /\ stored[rec[h]] \subseteq row[rec[h]].channels
          BY <3>0, <3>1, <5>1 DEF Heard, StoredOfAll, Next1
        <5> QED BY <5>1, <5>2, <5>3
      <4> QED BY <3>1, <4>1, <4>2
    <3>2. CASE g # h
      <4>1. Same(g)
        BY <1>2, <3>2
      <4>2. todo[g] # <<>> => heard'[g] = heard[g]
        BY <4>1, HistoryStep DEF Same
      <4> QED BY <3>0, <4>1, <4>2 DEF Same, Heard, Next1, DataStep
    <3> QED BY <3>1, <3>2
  <2> QED BY <2>1 DEF Heard
<1> QED BY <1>4, <1>5, <1>6, <1>7, <1>8 DEF DataStep

-----------------------------------------------------------------------------
(***************************************************************************)
(* Each kind of step.                                                      *)
(***************************************************************************)
LEMMA RowsKept ==
    ASSUME IInv, UNCHANGED <<exists, row, age, audio, stored>>,
           created \subseteq created', created' \subseteq Recs,
           deleting \subseteq deleting', deleting' \subseteq Recs,
           jobs' \subseteq Recs, requests' \in Nat, throws' \in Nat
    PROVE  DataStep
<1>1. DataOK /\ StoredOfAll
  BY TypeSplit DEF IInv
<1>2. DataOK'
  BY <1>1 DEF DataOK
<1> QED BY <1>1, <1>2 DEF DataStep, StoredOfAll, Ended

LEMMA NewRowType == NewRow \in RowType
BY DEF NewRow, RowType, Status

LEMMA StartStep ==
    ASSUME IInv, History, NEW h \in Handlers, NEW r \in Recs, NEW calls, NEW call,
           Starts(h, r, calls, call)
    PROVE  IInv'
<1>1. DataOK /\ HandlersOK /\ Handled /\ Spared
  BY TypeSplit DEF IInv
<1>2. DataStep
  BY <1>1, RowsKept DEF Starts, Unread, DataOK
<1>3. HandlersOK'
  <2>1. rec' \in [Handlers -> Recs \cup {NoRec}]
    BY <1>1 DEF Starts, HandlersOK
  <2>2. saw' \in [Handlers -> RowType]
    BY <1>1 DEF Starts, HandlersOK, DataOK
  <2>3. chan' \in [Handlers -> Channels \cup {NoChannel}]
    BY <1>1 DEF Starts, HandlersOK
  <2> QED BY <1>1, <2>1, <2>2, <2>3 DEF Starts, HandlersOK
<1>4. \A g \in Handlers \ {h} : Same(g)
  BY <1>1 DEF Starts, Same, HandlersOK, Handled
<1>5. HandlerStep(h, calls)
  <2>1. rec'[h] = r /\ r \in created'
    BY <1>1 DEF Starts, HandlersOK, Unread, DataOK
  <2>2. swept'[h] \subseteq deleting'
    BY <1>1 DEF Starts, Spared
  <2>3. call = "deletePrefix" => Ended(r)'
    BY DEF Starts, Ended, Unread
  <2>4. Ordered(calls) /\ calls # <<>> /\ Head(calls) = call
    BY DEF Starts, Begins
  <2>5. call \notin {"recordChunk", "readJob", "dispatch"}
    BY DEF Starts
  <2>6. todo' = [todo EXCEPT ![h] = calls] /\ (call = "putChunk" => chan'[h] \in Channels)
    BY DEF Starts
  <2>7. Ended(rec[h])' <=> Ended(r)'
    BY <2>1 DEF Ended
  <2> QED BY <1>3, <1>4, <2>1, <2>2, <2>3, <2>4, <2>5, <2>6, <2>7 DEF HandlerStep
<1> QED BY <1>2, <1>5, Halves

LEMMA CreateStep ==
    ASSUME IInv, History, NEW h \in Handlers, NEW r \in Recs, Create(h, r)
    PROVE  IInv'
<1>1. DataOK /\ HandlersOK /\ Handled
  BY TypeSplit DEF IInv
<1>2. DataStep
  <2>1. /\ created \subseteq created' /\ created' \subseteq Recs
        /\ deleting \subseteq deleting' /\ deleting' \subseteq Recs
        /\ requests' \in Nat
    BY <1>1 DEF Create, DataOK, Stale, Request
  <2>2. UNCHANGED <<exists, row, age, audio, stored, jobs, throws>>
    BY DEF Create
  <2> QED BY <1>1, <2>1, <2>2, RowsKept DEF DataOK
<1>3. PICK calls, call : /\ Begins(calls, call) /\ call \in {"sweepAudio", "countActive"}
                         /\ todo' = [todo EXCEPT ![h] = calls]
  <2>1. CASE Stale(r) = {}
    <3>1. todo' = [todo EXCEPT ![h] = <<>> \o <<"countActive", "insert">>]
      BY <2>1 DEF Create
    <3>2. <<>> \o <<"countActive", "insert">> = <<"countActive", "insert">>
      OBVIOUS
    <3> QED BY <3>1, <3>2, PairLists
  <2>2. CASE Stale(r) # {}
    <3> DEFINE calls == <<"sweepAudio", "sweepRows">> \o <<"countActive", "insert">>
    <3>1. todo' = [todo EXCEPT ![h] = calls]
      BY <2>2 DEF Create
    <3>2. <<"countActive", "insert">>[1] \notin First \cup {"recordChunk", "deletePrefix"}
      BY DEF First
    <3>3. /\ Ordered(<<"sweepAudio", "sweepRows">>) /\ Ordered(<<"countActive", "insert">>)
          /\ <<"sweepAudio", "sweepRows">> # <<>> /\ <<"countActive", "insert">> # <<>>
          /\ Head(<<"sweepAudio", "sweepRows">>) = "sweepAudio"
      BY PairLists DEF Begins
    <3>4. Begins(calls, "sweepAudio")
      BY <3>2, <3>3, OrderedConcat DEF Begins
    <3> HIDE DEF calls
    <3> QED BY <3>1, <3>4
  <2> QED BY <2>1, <2>2
<1>4. HandlersOK'
  <2>1. Stale(r) \in SUBSET Recs
    BY <1>1 DEF Stale, DataOK
  <2> QED BY <1>1, <2>1 DEF Create, HandlersOK
<1>5. \A g \in Handlers \ {h} : Same(g)
  BY <1>1, <1>3 DEF Create, Same, HandlersOK, Handled
<1>6. HandlerStep(h, calls)
  <2>1. rec'[h] = r /\ r \in created' /\ swept'[h] = Stale(r) /\ Stale(r) \subseteq deleting'
    BY <1>1 DEF Create, HandlersOK
  <2> QED BY <1>3, <1>4, <1>5, <2>1 DEF HandlerStep, Begins
<1> QED BY <1>2, <1>6, Halves

\* h makes the call c and goes on: with the rest of its calls, with others, or
\* with none.
LEMMA GoStep ==
    ASSUME IInv, History, DataStep, NEW h \in Handlers, NEW c, NEW calls, Next1(h, c), Go(h, calls),
           \/ calls = <<>>
           \/ /\ calls = Rest(h)
              /\ c \in {"finalizeEmpty", "notConfigured"} => row'[rec[h]].finalized
              /\ c = "putChunk" => rec[h] \in audio'
           \/ \E call : /\ Begins(calls, call)
                        /\ call \notin {"putChunk", "recordChunk", "deletePrefix", "dispatch"}
                        /\ call = "readJob" => c = "startProcessing"
    PROVE  IInv'
<1>1. DataOK /\ HandlersOK /\ Handled /\ Spared
  BY TypeSplit DEF IInv
<1>0. Ordered(todo[h]) /\ todo[h] # <<>> /\ Head(todo[h]) = c
  BY <1>1 DEF Handled, Next1
<1>2. /\ Ordered(calls)
      /\ calls # <<>> =>
           /\ Head(calls) \notin {"putChunk", "dispatch"}
           /\ Head(calls) = "recordChunk" => c = "putChunk" /\ rec[h] \in audio'
           /\ Head(calls) = "deletePrefix" => row'[rec[h]].finalized
           /\ Head(calls) = "readJob" => c = "startProcessing"
  <2>1. CASE calls = <<>>
    BY <2>1, SingleLists
  <2>2. CASE /\ calls = Rest(h)
             /\ c \in {"finalizeEmpty", "notConfigured"} => row'[rec[h]].finalized
             /\ c = "putChunk" => rec[h] \in audio'
    <3>1. Ordered(calls) /\ (calls # <<>> => MayFollow(Head(calls), c))
      BY <1>0, <2>2, OrderedTail DEF Rest
    <3> QED BY <2>2, <3>1 DEF MayFollow, First
  <2>3. CASE \E call : /\ Begins(calls, call)
                       /\ call \notin {"putChunk", "recordChunk", "deletePrefix", "dispatch"}
                       /\ call = "readJob" => c = "startProcessing"
    BY <2>3 DEF Begins
  <2> QED BY <2>1, <2>2, <2>3
<1>3. /\ todo' = [todo EXCEPT ![h] = calls]
      /\ rec' = rec \/ rec' = [rec EXCEPT ![h] = NoRec]
      /\ saw' = saw \/ saw' = [saw EXCEPT ![h] = NewRow]
      /\ chan' = chan \/ chan' = [chan EXCEPT ![h] = NoChannel]
      /\ swept' = swept \/ swept' = [swept EXCEPT ![h] = {}]
      /\ calls # <<>> => UNCHANGED <<rec, saw, chan, swept>>
  BY DEF Go, Forget
<1>4. HandlersOK'
  BY <1>1, <1>3, NewRowType DEF HandlersOK
<1>5. \A g \in Handlers \ {h} : Same(g)
  BY <1>1, <1>3 DEF Same, HandlersOK, Handled
<1>6. swept'[h] \subseteq deleting'
  BY <1>1, <1>3 DEF HandlersOK, Spared, DataStep
<1>7. ASSUME calls # <<>>
      PROVE  /\ rec'[h] = rec[h] /\ rec[h] \in created' /\ rec[h] \in Recs
             /\ Head(calls) = "recordChunk" => chan'[h] \in Channels
  BY <1>0, <1>1, <1>2, <1>3, <1>7 DEF Handled, DataStep, Next1, DataOK
<1>8. calls # <<>> /\ Head(calls) = "deletePrefix" => Ended(rec[h])'
  BY <1>2, <1>7 DEF Ended
<1>9. HandlerStep(h, calls)
  BY <1>0, <1>2, <1>3, <1>4, <1>5, <1>6, <1>7, <1>8 DEF HandlerStep, Next1
<1> QED BY <1>9, Halves

\* An update by id, of a handler that makes the call c.
LEMMA UpdateStep ==
    ASSUME IInv, History, NEW h \in Handlers, NEW c, NEW calls, NEW new, Next1(h, c),
           Update(h, new, calls), Elsewhere,
           rec[h] \in Recs => new \in RowType,
           new.channels = Mine(h).channels, Mine(h).finalized => new.finalized,
           c \in {"finalizeEmpty", "notConfigured"} => new.finalized,
           \/ calls = Rest(h) /\ c # "putChunk"
           \/ calls = <<"readJob">> /\ c = "startProcessing"
    PROVE  IInv'
<1>1. DataOK /\ HandlersOK /\ Handled /\ StoredOfAll /\ rec[h] \in Recs
  BY TypeSplit DEF IInv, Handled, Next1, DataOK
<1>2. CASE rec[h] \in exists /\ ~Clash(rec[h], new.status)
  <2>1. /\ row' = [row EXCEPT ![rec[h]] = new]
        /\ age' = [age EXCEPT ![rec[h]].idle = 0, ![rec[h]].expired = @ /\ ~Dates(h)]
        /\ Go(h, calls)
    BY <1>2 DEF Update
  <2>2. UNCHANGED <<exists, created, audio, requests, throws, stored, jobs, deleting>>
    BY DEF Elsewhere, history
  <2>3. age' \in [Recs -> [idle : 0..2, silent : BOOLEAN, old : BOOLEAN, expired : BOOLEAN]]
    BY <1>1, <2>1 DEF DataOK
  <2>4. DataOK'
    BY <1>1, <2>1, <2>2, <2>3 DEF DataOK
  <2>6. DataStep
    BY <1>1, <2>1, <2>2, <2>4 DEF DataStep, DataOK, Ended, StoredOfAll, Mine
  <2>7. row'[rec[h]] = new
    BY <1>1, <2>1 DEF DataOK
  <2>8. \/ calls = Rest(h) /\ c # "putChunk"
        \/ Begins(calls, "readJob") /\ c = "startProcessing"
    BY SingleLists
  <2> QED BY <2>1, <2>6, <2>7, <2>8, GoStep
<1>3. CASE ~(rec[h] \in exists /\ ~Clash(rec[h], new.status))
  <2>1. UNCHANGED <<row, age>> /\ Go(h, <<>>)
    BY <1>3 DEF Update
  <2>2. DataStep
    BY <1>1, <2>1, RowsKept DEF Elsewhere, history, DataOK
  <2> QED BY <2>1, <2>2, GoStep
<1> QED BY <1>2, <1>3

\* Every update by id keeps the channels and what is finalized.
LEMMA UpdateCalls ==
    ASSUME IInv, History, NEW h \in Handlers,
           \/ RequestStop(h) \/ ClaimRow(h) \/ ResumeRow(h) \/ FinishRow(h)
           \/ FailRecording(h) \/ FinalizeEmpty(h) \/ ApplyResult(h)
           \/ MarkRetry(h) \/ StampDeleted(h)
    PROVE  IInv'
<1> DEFINE m == Mine(h)
<1>1. todo[h] # <<>> => m \in RowType
  BY TypeSplit DEF IInv, DataOK, Handled, Mine
<1>2. ASSUME NEW c, NEW new, Next1(h, c), Update(h, new, Rest(h)), Elsewhere, c # "putChunk",
             new \in RowType, new.channels = m.channels, m.finalized => new.finalized,
             c \in {"finalizeEmpty", "notConfigured"} => new.finalized
      PROVE  IInv'
  BY <1>2, UpdateStep
<1> HIDE DEF m
<1>3. ASSUME NEW r \in RowType, NEW st \in Status
      PROVE  /\ [r EXCEPT !.status = st] \in RowType
             /\ [r EXCEPT !.status = st].channels = r.channels
             /\ [r EXCEPT !.status = st].finalized = r.finalized
             /\ [r EXCEPT !.status = st, !.retried = FALSE] \in RowType
             /\ [r EXCEPT !.status = st, !.retried = FALSE].channels = r.channels
             /\ [r EXCEPT !.status = st, !.retried = FALSE].finalized = r.finalized
             /\ [r EXCEPT !.status = st, !.finalized = TRUE] \in RowType
             /\ [r EXCEPT !.status = st, !.finalized = TRUE].channels = r.channels
             /\ [r EXCEPT !.status = st, !.finalized = TRUE].finalized
             /\ [r EXCEPT !.status = st, !.retried = FALSE, !.finalized = TRUE] \in RowType
             /\ [r EXCEPT !.status = st, !.retried = FALSE, !.finalized = TRUE].channels = r.channels
             /\ [r EXCEPT !.status = st, !.retried = FALSE, !.finalized = TRUE].finalized
  BY DEF RowType
<1>4. ASSUME NEW r \in RowType
      PROVE  /\ [r EXCEPT !.retried = TRUE] \in RowType
             /\ [r EXCEPT !.retried = TRUE].channels = r.channels
             /\ [r EXCEPT !.retried = TRUE].finalized = r.finalized
             /\ [r EXCEPT !.audioDeleted = TRUE] \in RowType
             /\ [r EXCEPT !.audioDeleted = TRUE].channels = r.channels
             /\ [r EXCEPT !.audioDeleted = TRUE].finalized = r.finalized
  BY DEF RowType
<1>5. {"Stopped", "Recording", "Pending", "Failed", "Done"} \subseteq Status
  BY DEF Status
<1>a. CASE RequestStop(h)
  <2>1. Next1(h, "requestStop") /\ Update(h, Stopped(h), Rest(h)) /\ Elsewhere
    BY <1>a DEF RequestStop
  <2>2. m \in RowType
    BY <1>1, <2>1 DEF Next1
  <2>3. CASE Update(h, m, Rest(h))
    BY <1>2, <2>1, <2>2, <2>3
  <2>4. CASE Update(h, [m EXCEPT !.status = "Stopped"], Rest(h))
    BY <1>2, <1>3, <1>5, <2>1, <2>2, <2>4
  <2>5. Update(h, m, Rest(h)) \/ Update(h, [m EXCEPT !.status = "Stopped"], Rest(h))
    BY <2>1 DEF Stopped, m
  <2> QED BY <2>3, <2>4, <2>5
<1>b. CASE ClaimRow(h)
  <2>1. /\ Next1(h, "claim") /\ Elsewhere
        /\ Update(h, [m EXCEPT !.status = "Recording"], Rest(h))
    BY <1>b DEF ClaimRow, m
  <2> QED BY <1>1, <1>2, <1>3, <1>5, <2>1 DEF Next1
<1>c. CASE ResumeRow(h)
  <2>1. /\ Next1(h, "resume") /\ Elsewhere
        /\ Update(h, [m EXCEPT !.status = "Pending", !.retried = FALSE], Rest(h))
    BY <1>c DEF ResumeRow, m
  <2> QED BY <1>1, <1>2, <1>3, <1>5, <2>1 DEF Next1
<1>d. CASE FinishRow(h)
  <2>1. CASE /\ Next1(h, "finish") /\ Elsewhere
             /\ Update(h, [m EXCEPT !.status = "Stopped"], Rest(h))
    BY <1>1, <1>2, <1>3, <1>5, <2>1 DEF Next1
  <2>2. CASE /\ Next1(h, "finishFailed") /\ Elsewhere
             /\ Update(h, [m EXCEPT !.status = "Failed", !.retried = FALSE], Rest(h))
    BY <1>1, <1>2, <1>3, <1>5, <2>2 DEF Next1
  <2> QED BY <1>d, <2>1, <2>2 DEF FinishRow, m
<1>e. CASE FailRecording(h)
  <2>1. CASE /\ Next1(h, "failDispatch") /\ Elsewhere
             /\ Update(h, [m EXCEPT !.status = "Failed", !.retried = FALSE], Rest(h))
    BY <1>1, <1>2, <1>3, <1>5, <2>1 DEF Next1
  <2>2. CASE /\ Next1(h, "notConfigured") /\ Elsewhere
             /\ Update(h, [m EXCEPT !.status = "Failed", !.retried = FALSE, !.finalized = TRUE],
                       Rest(h))
    BY <1>1, <1>2, <1>3, <1>5, <2>2 DEF Next1
  <2> QED BY <1>e, <2>1, <2>2 DEF FailRecording, m
<1>f. CASE FinalizeEmpty(h)
  <2>1. /\ Next1(h, "finalizeEmpty") /\ Elsewhere
        /\ Update(h, [m EXCEPT !.status = "Stopped", !.finalized = TRUE], Rest(h))
    BY <1>f DEF FinalizeEmpty, m
  <2> QED BY <1>1, <1>2, <1>3, <1>5, <2>1 DEF Next1
<1>g. CASE ApplyResult(h)
  <2>1. PICK c \in {"jobDone", "jobFailed", "timedOut"}, st \in {"Done", "Failed"} :
           /\ Next1(h, c) /\ Elsewhere
           /\ Update(h, [m EXCEPT !.status = st, !.retried = FALSE, !.finalized = TRUE], Rest(h))
    BY <1>g DEF ApplyResult, m
  <2> DEFINE new == [m EXCEPT !.status = st, !.retried = FALSE, !.finalized = TRUE]
  <2>2. m \in RowType
    BY <1>1, <2>1 DEF Next1
  <2>3. st \in Status
    BY <1>5
  <2>4. new \in RowType /\ new.channels = m.channels /\ new.finalized
    BY <1>3, <2>2, <2>3
  <2>5. Next1(h, c) /\ Elsewhere /\ Update(h, new, Rest(h)) /\ c # "putChunk"
    BY <2>1
  <2> HIDE DEF new
  <2> QED BY <1>2, <2>4, <2>5
<1>h. CASE MarkRetry(h)
  <2>1. /\ Next1(h, "markRetry") /\ Elsewhere
        /\ Update(h, [m EXCEPT !.retried = TRUE], Rest(h))
    BY <1>h DEF MarkRetry, m
  <2> QED BY <1>1, <1>2, <1>4, <2>1 DEF Next1
<1>i. CASE StampDeleted(h)
  <2>1. /\ Next1(h, "stampDeleted") /\ Elsewhere
        /\ Update(h, [m EXCEPT !.audioDeleted = TRUE], Rest(h))
    BY <1>i DEF StampDeleted, m
  <2> QED BY <1>1, <1>2, <1>4, <2>1 DEF Next1
<1> QED BY <1>a, <1>b, <1>c, <1>d, <1>e, <1>f, <1>g, <1>h, <1>i

LEMMA ClaimCall ==
    ASSUME IInv, History, NEW h \in Handlers, StartProcessing(h)
    PROVE  IInv'
<1>1. DataOK /\ Next1(h, "startProcessing") /\ Elsewhere
  BY TypeSplit DEF IInv, StartProcessing
<1>2. CASE rec[h] \in exists /\ Mine(h).status \notin {"Processing", "Done"} /\ ~Mine(h).finalized
  <2> DEFINE new == [Mine(h) EXCEPT !.status = "Processing"]
  <2>1. Update(h, new, <<"readJob">>)
    BY <1>2 DEF StartProcessing
  <2>2. Mine(h) \in RowType
    BY <1>1, <1>2 DEF DataOK, Mine
  <2>3. new \in RowType /\ new.channels = Mine(h).channels /\ new.finalized = Mine(h).finalized
    BY <2>2 DEF RowType, Status
  <2> HIDE DEF new
  <2> QED BY <1>1, <2>1, <2>3, UpdateStep
<1>3. CASE ~(rec[h] \in exists /\ Mine(h).status \notin {"Processing", "Done"} /\ ~Mine(h).finalized)
  <2>1. UNCHANGED <<row, age>> /\ Go(h, <<>>)
    BY <1>3 DEF StartProcessing
  <2>2. DataStep
    BY <1>1, <2>1, RowsKept DEF Elsewhere, history, DataOK
  <2> QED BY <1>1, <2>1, <2>2, GoStep
<1> QED BY <1>2, <1>3

LEMMA ReadCall ==
    ASSUME IInv, History, NEW h \in Handlers, ReadJob(h)
    PROVE  IInv'
<1>1. DataOK /\ HandlersOK /\ Handled /\ Spared /\ Next1(h, "readJob") /\ Elsewhere
  BY TypeSplit DEF IInv, ReadJob
<1>2. DataStep
  BY <1>1, RowsKept DEF ReadJob, Elsewhere, history, DataOK
<1>3. CASE rec[h] \in exists
  <2>1. /\ saw' = [saw EXCEPT ![h] = row[rec[h]]]
        /\ todo' = [todo EXCEPT ![h] = <<"dispatch">>]
        /\ UNCHANGED <<rec, chan, swept>>
    BY <1>3 DEF ReadJob, JobRow, Mine
  <2>2. HandlersOK'
    BY <1>1, <1>3, <2>1 DEF HandlersOK, DataOK
  <2>3. \A g \in Handlers \ {h} : Same(g)
    BY <1>1, <2>1 DEF Same, HandlersOK, Handled
  <2>4. rec'[h] \in created' /\ swept'[h] \subseteq deleting' /\ saw'[h] = row[rec[h]]
    BY <1>1, <1>2, <2>1 DEF Handled, HandlersOK, DataStep, Spared, Next1
  <2> DEFINE calls == <<"dispatch">>
  <2>5. Begins(calls, "dispatch") /\ todo' = [todo EXCEPT ![h] = calls]
    BY <2>1, SingleLists
  <2> HIDE DEF calls
  <2>6. HandlerStep(h, calls)
    BY <1>1, <2>2, <2>3, <2>4, <2>5 DEF HandlerStep, Begins
  <2> QED BY <1>2, <2>6, Halves
<1>4. CASE rec[h] \notin exists
  BY <1>1, <1>2, <1>4, GoStep DEF ReadJob
<1> QED BY <1>3, <1>4

LEMMA DispatchCall ==
    ASSUME IInv, History, NEW h \in Handlers, NEW accepted \in BOOLEAN, NEW answered \in BOOLEAN,
           Dispatch(h, accepted, answered)
    PROVE  IInv'
<1>1. DataOK /\ Next1(h, "dispatch") /\ rec[h] \in Recs
  BY TypeSplit DEF IInv, Dispatch, Handled, DataOK, Next1
<1>2. DataStep
  <2>1. jobs' \subseteq Recs
    BY <1>1 DEF Dispatch, DataOK
  <2> QED BY <1>1, <2>1, RowsKept DEF Dispatch, DataOK
<1>3. CASE Go(h, <<>>)
  BY <1>1, <1>2, <1>3, GoStep
<1>4. CASE Go(h, <<"failDispatch">>)
  BY <1>1, <1>2, <1>4, SingleLists, GoStep
<1>5. CASE Go(h, <<"notConfigured", "deletePrefix">>)
  BY <1>1, <1>2, <1>5, PairLists, GoStep
<1> QED BY <1>3, <1>4, <1>5 DEF Dispatch, NotTaken

LEMMA ChunkCalls ==
    ASSUME IInv, History, NEW h \in Handlers, PutChunk(h) \/ RecordChunk(h)
    PROVE  IInv'
<1>1. /\ DataOK /\ StoredOfAll /\ Handled
      /\ Next1(h, "putChunk") \/ Next1(h, "recordChunk")
      /\ rec[h] \in Recs /\ chan[h] \in Channels
  BY TypeSplit DEF IInv, PutChunk, RecordChunk, Handled, DataOK, Next1
<1>2. CASE PutChunk(h)
  <2>1. DataStep
    <3>1. DataOK'
      BY <1>1, <1>2 DEF PutChunk, history, DataOK
    <3> QED BY <1>1, <1>2, <3>1 DEF PutChunk, history, DataStep, StoredOfAll, Ended
  <2>2. rec[h] \in audio' /\ Next1(h, "putChunk") /\ Go(h, Rest(h))
    BY <1>2 DEF PutChunk
  <2> QED BY <2>1, <2>2, GoStep
<1>3. CASE RecordChunk(h)
  <2>0. Next1(h, "recordChunk") /\ Go(h, Rest(h))
    BY <1>3 DEF RecordChunk
  <2>1. CASE rec[h] \in exists
    <3> DEFINE m == row[rec[h]]
               st == IF m.status = "Pending" THEN "Recording" ELSE m.status
               new == [m EXCEPT !.status = st, !.channels = m.channels \cup {chan[h]}]
    <3>1. /\ row' = [row EXCEPT ![rec[h]].status = st,
                                ![rec[h]].channels = m.channels \cup {chan[h]}]
          /\ age' = [age EXCEPT ![rec[h]].idle = 0, ![rec[h]].silent = FALSE]
          /\ stored' = [stored EXCEPT ![rec[h]] = @ \cup {chan[h]}]
          /\ UNCHANGED <<exists, audio, requests, throws, created, jobs, deleting>>
      BY <1>3, <2>1 DEF RecordChunk, FromLockedRow, Mine
    <3>2. row' = [row EXCEPT ![rec[h]] = new]
      BY <1>1, <3>1 DEF DataOK, RowType
    <3>3. m \in RowType
      BY <1>1 DEF DataOK
    <3>4. /\ new \in RowType /\ new.status = st /\ new.finalized = m.finalized
          /\ new.channels = m.channels \cup {chan[h]}
      BY <1>1, <3>3 DEF RowType, Status
    <3> HIDE DEF new, st
    <3>5. DataOK'
      BY <1>1, <3>1, <3>2, <3>4 DEF DataOK
    <3>7. rec[h] \in audio \/ Ended(rec[h])
      BY <2>0 DEF IInv, Spared
    <3>8. \A r \in Recs : row'[r].finalized = row[r].finalized
      BY <1>1, <3>2, <3>4 DEF DataOK
    <3>9. \A r \in Recs : r # rec[h] => row'[r] = row[r] /\ stored'[r] = stored[r]
      BY <1>1, <3>1, <3>2 DEF DataOK
    <3>10. /\ stored'[rec[h]] = stored[rec[h]] \cup {chan[h]}
           /\ row'[rec[h]].channels = m.channels \cup {chan[h]}
      BY <1>1, <3>1, <3>2, <3>4 DEF DataOK
    <3>11. DataStep
      BY <1>1, <3>1, <3>5, <3>7, <3>8, <3>9, <3>10 DEF DataStep, StoredOfAll, Ended
    <3> QED BY <2>0, <3>11, GoStep
  <2>2. CASE rec[h] \notin exists
    <3>1. DataStep
      BY <1>1, <1>3, <2>2, RowsKept DEF RecordChunk, DataOK
    <3> QED BY <2>0, <3>1, GoStep
  <2> QED BY <2>1, <2>2
<1> QED BY <1>2, <1>3

LEMMA DeleteCalls ==
    ASSUME IInv, History, NEW h \in Handlers, DeletePrefix(h) \/ DeleteRow(h)
    PROVE  IInv'
<1>1. DataOK /\ HandlersOK /\ StoredOfAll /\ Spared
  BY TypeSplit DEF IInv
<1>2. CASE DeletePrefix(h)
  <2>1. PICK c \in {"deletePrefix", "sweepAudio"} : Next1(h, c) /\ Go(h, Rest(h))
    BY <1>2 DEF DeletePrefix
  <2>2. audio' \subseteq audio /\ \A r \in audio \ audio' : Ended(r)
    BY <1>1, <1>2 DEF DeletePrefix, Spared, Ended
  <2>3. UNCHANGED <<exists, row, age, requests, throws, created, stored, jobs, deleting>>
    BY <1>2 DEF DeletePrefix, history
  <2>4. DataOK'
    BY <1>1, <2>2, <2>3 DEF DataOK
  <2>5. DataStep
    BY <1>1, <2>2, <2>3, <2>4 DEF DataStep, StoredOfAll, Ended
  <2> QED BY <2>1, <2>5, GoStep
<1>3. CASE DeleteRow(h)
  <2>1. PICK c \in {"deleteRow", "sweepRows"} : Next1(h, c) /\ Go(h, Rest(h))
    BY <1>3 DEF DeleteRow
  <2>2. exists' \subseteq exists
    BY <1>3 DEF DeleteRow
  <2>3. UNCHANGED <<row, age, audio, requests, throws, created, stored, jobs, deleting>>
    BY <1>3 DEF DeleteRow, history
  <2>4. DataOK'
    BY <1>1, <2>2, <2>3 DEF DataOK
  <2>5. DataStep
    BY <1>1, <2>3, <2>4 DEF DataStep, StoredOfAll, Ended
  <2> QED BY <2>1, <2>5, GoStep
<1> QED BY <1>2, <1>3

LEMMA CreateCalls ==
    ASSUME IInv, History, NEW h \in Handlers, CountActive(h) \/ Insert(h)
    PROVE  IInv'
<1>1. DataOK /\ Handled /\ StoredOfAll
  BY TypeSplit DEF IInv
<1>2. CASE CountActive(h)
  <2>1. DataStep
    BY <1>1, <1>2, RowsKept DEF CountActive, Elsewhere, history, DataOK
  <2>2. Next1(h, "countActive") /\ (Go(h, <<>>) \/ Go(h, Rest(h)))
    BY <1>2 DEF CountActive
  <2> QED BY <2>1, <2>2, GoStep
<1>3. CASE Insert(h)
  <2>1. /\ Next1(h, "insert") /\ Go(h, <<>>) /\ rec[h] \in created
        /\ UNCHANGED <<row, age, audio, requests, throws, created, stored, jobs, deleting>>
    BY <1>1, <1>3 DEF Insert, history, Handled, Next1
  <2>2. \/ exists' = exists
        \/ exists' = exists \cup {rec[h]} /\ ~Clash(rec[h], "Pending")
    <3>1. CASE Clash(rec[h], "Pending")
      BY <1>3, <3>1 DEF Insert
    <3>2. CASE ~Clash(rec[h], "Pending")
      BY <1>3, <3>2 DEF Insert
    <3> QED BY <3>1, <3>2
  <2>3. "Pending" \in Active
    BY DEF Active
  <2>4. DataOK'
    BY <1>1, <2>1, <2>2 DEF DataOK
  <2>6. DataStep
    BY <1>1, <2>1, <2>4 DEF DataStep, StoredOfAll, Ended
  <2> QED BY <2>1, <2>6, GoStep
<1> QED BY <1>2, <1>3

LEMMA ThrowStep ==
    ASSUME IInv, History, NEW h \in Handlers, Throw(h)
    PROVE  IInv'
<1>1. DataOK
  BY TypeSplit DEF IInv
<1>2. DataStep
  BY <1>1, RowsKept DEF Throw, history, DataOK
<1>3. Next1(h, Head(todo[h])) /\ Go(h, <<>>)
  BY DEF Throw, Free, Next1
<1> QED BY <1>2, <1>3, GoStep

\* Steps that leave every handler as it was.
LEMMA HandlersRest ==
    ASSUME IInv, DataStep, UNCHANGED handlerVars, History \/ UNCHANGED heard
    PROVE  IInv'
<1>1. DataOK /\ HandlersOK /\ heard \in [Handlers -> SUBSET Channels]
  BY TypeSplit DEF IInv
<1>2. \A g \in Handlers : heard'[g] \in SUBSET Channels /\ (todo[g] # <<>> => heard'[g] = heard[g])
  BY <1>1, HistoryStep DEF handlerVars, Made
<1>3. heard' \in [Handlers -> SUBSET Channels]
  <2>1. CASE History
    <3>1. heard' = [g \in Handlers |-> heard'[g]]
      BY <2>1 DEF History
    <3> QED BY <1>2, <3>1
  <2> QED BY <1>1, <2>1
<1>4. TypeOK'
  <2>1. DataOK' /\ HandlersOK' /\ (heard \in [Handlers -> SUBSET Channels])'
    BY <1>1, <1>3 DEF DataStep, HandlersOK, handlerVars
  <2> QED BY <2>1 DEF TypeOK, DataOK, HandlersOK
<1>5. ASSUME NEW h \in Handlers PROVE todo[h] # <<>> => rec[h] \in Recs
  BY <1>1 DEF IInv, Handled, DataOK
<1>6. Handled'
  BY DEF IInv, Handled, handlerVars, Next1, DataStep, Ordered
<1>7. Spared'
  BY <1>5 DEF IInv, Spared, handlerVars, Next1, DataStep, Ended
<1>8. AudioOfAll' /\ StoredOfAll'
  BY DEF IInv, DataStep, AudioOfAll, StoredOfAll
<1>9. Heard'
  BY <1>2, <1>5 DEF IInv, Heard, handlerVars, Next1, DataStep
<1> QED BY <1>4, <1>6, <1>7, <1>8, <1>9 DEF IInv, DataStep

LEMMA TimeStep ==
    ASSUME IInv, History, NEW r \in Recs, Progress(r) \/ Touch(r) \/ Idle(r) \/ Age(r)
    PROVE  IInv'
<1>1. DataOK /\ Handled /\ StoredOfAll
  BY TypeSplit DEF IInv
<1>2. UNCHANGED <<exists, row, audio, handlerVars, throws, history>> /\ requests' \in Nat
  BY <1>1 DEF Progress, Touch, Idle, Age, Request, DataOK
<1>3. age' \in [Recs -> [idle : 0..2, silent : BOOLEAN, old : BOOLEAN, expired : BOOLEAN]]
  <2> DEFINE A == [idle : 0..2, silent : BOOLEAN, old : BOOLEAN, expired : BOOLEAN]
  <2>0. age \in [Recs -> A]
    BY <1>1 DEF DataOK
  <2>1. ASSUME NEW a \in A
        PROVE  /\ [a EXCEPT !.idle = 0] \in A /\ [a EXCEPT !.silent = TRUE] \in A
               /\ [a EXCEPT !.old = TRUE] \in A /\ [a EXCEPT !.expired = TRUE] \in A
               /\ a.idle < 2 => [a EXCEPT !.idle = @ + 1, !.silent = TRUE] \in A
    <3>1. a.idle \in 0..2 /\ (a.idle < 2 => a.idle + 1 \in 0..2) /\ 0 \in 0..2
      OBVIOUS
    <3> QED BY <3>1
  <2>2. PICK a : /\ age' = [age EXCEPT ![r] = a]
                 /\ \/ a \in { [age[r] EXCEPT !.idle = 0], [age[r] EXCEPT !.silent = TRUE],
                               [age[r] EXCEPT !.old = TRUE], [age[r] EXCEPT !.expired = TRUE] }
                    \/ age[r].idle < 2 /\ a = [age[r] EXCEPT !.idle = @ + 1, !.silent = TRUE]
    <3>1. CASE Progress(r) \/ Touch(r)
      BY <2>0, <3>1 DEF Progress, Touch
    <3>2. CASE Idle(r)
      BY <2>0, <3>2 DEF Idle
    <3>3. CASE Age(r)
      <4>1. CASE age' = [age EXCEPT ![r].silent = TRUE]
        BY <2>0, <4>1
      <4>2. CASE age' = [age EXCEPT ![r].old = TRUE]
        BY <2>0, <4>2
      <4>3. CASE age' = [age EXCEPT ![r].expired = TRUE]
        BY <2>0, <4>3
      <4> QED BY <3>3, <4>1, <4>2, <4>3 DEF Age
    <3> QED BY <3>1, <3>2, <3>3
  <2>3. a \in A
    <3>1. age[r] \in A
      BY <2>0
    <3> DEFINE b == age[r]
    <3>2. b \in A
      BY <3>1
    <3>3. \/ a \in { [b EXCEPT !.idle = 0], [b EXCEPT !.silent = TRUE],
                      [b EXCEPT !.old = TRUE], [b EXCEPT !.expired = TRUE] }
          \/ b.idle < 2 /\ a = [b EXCEPT !.idle = @ + 1, !.silent = TRUE]
      BY <2>2
    <3> HIDE DEF b, A
    <3> QED BY <2>1, <3>2, <3>3
  <2> QED BY <2>0, <2>2, <2>3
<1>4. DataOK'
  BY <1>1, <1>2, <1>3 DEF DataOK, history
<1>5. DataStep
  BY <1>1, <1>2, <1>4 DEF DataStep, StoredOfAll, history, Ended
<1> QED BY <1>2, <1>5, HandlersRest

-----------------------------------------------------------------------------
(***************************************************************************)
(* The theorems.                                                           *)
(***************************************************************************)
LEMMA InitIInv == Init => IInv
<1> SUFFICES ASSUME Init PROVE IInv
  OBVIOUS
<1>1. TypeOK
  BY NewRowType DEF Init, TypeOK, Young
<1>2. Handled
  BY SingleLists DEF Init, Handled, Next1, Ordered
<1>3. Spared /\ AudioOfAll /\ StoredOfAll /\ Heard
  BY DEF Init, Spared, AudioOfAll, StoredOfAll, Heard, Next1, NewRow
<1> QED BY <1>1, <1>2, <1>3 DEF IInv

LEMMA NextIInv == IInv /\ [Next]_vars => IInv'
<1> SUFFICES ASSUME IInv, [Next]_vars
             PROVE  IInv'
  OBVIOUS
<1>1. CASE Next
  <2>1. Act /\ History
    BY <1>1 DEF Next
  <2>2. ASSUME NEW h \in Handlers, NEW r \in Recs, Arrive(h, r) PROVE IInv'
    BY <2>1, <2>2, RequestStarts, StartStep, CreateStep DEF IInv
  <2>3. ASSUME NEW h \in Handlers, NEW r \in Recs, Visit(h, r) \/ VisitExpired(h, r) PROVE IInv'
    BY <2>1, <2>3, VisitStarts, StartStep DEF IInv, TypeOK
  <2>4. ASSUME NEW h \in Handlers, Call(h) PROVE IInv'
    BY <2>1, <2>4, UpdateCalls, ClaimCall, ReadCall, DispatchCall, ChunkCalls, DeleteCalls,
       CreateCalls DEF Call
  <2>5. ASSUME NEW h \in Handlers, Throw(h) PROVE IInv'
    BY <2>1, <2>5, ThrowStep
  <2>6. ASSUME NEW r \in Recs, Progress(r) \/ Touch(r) \/ Idle(r) \/ Age(r) PROVE IInv'
    BY <2>1, <2>6, TimeStep
  <2> QED BY <2>1, <2>2, <2>3, <2>4, <2>5, <2>6 DEF Act
<1>2. CASE UNCHANGED vars
  <2>1. UNCHANGED <<exists, row, age, audio, requests, throws, created, stored, jobs, deleting>>
        /\ UNCHANGED handlerVars /\ UNCHANGED heard
    BY <1>2 DEF vars, history
  <2>2. DataStep
    BY <2>1, TypeSplit, RowsKept DEF IInv, DataOK
  <2> QED BY <2>1, <2>2, HandlersRest
<1> QED BY <1>1, <1>2

LEMMA Invariance == Spec => []IInv
BY InitIInv, NextIInv, PTL DEF Spec

\* Every variable stays within its type.
THEOREM TypeCorrect == Spec => []TypeOK
<1>1. IInv => TypeOK
  BY DEF IInv
<1> QED BY <1>1, Invariance, PTL

\* Chunks recorded at once, on whatever machines and between whatever other
\* writes of the row, all keep their channel's entry.
THEOREM ChannelsKept == Spec => []NoChannelLost
<1>1. IInv => NoChannelLost
  BY DEF IInv, TypeOK, StoredOfAll, NoChannelLost
<1> QED BY <1>1, Invariance, PTL

\* No handler deletes the audio of a recording that could still be transcribed.
THEOREM AudioIsKept == Spec => []AudioKept
<1>1. IInv => AudioKept
  BY DEF IInv, TypeOK, AudioOfAll, AudioKept, Ended
<1> QED BY <1>1, Invariance, PTL

\* A transcription job has every channel that was there when its row was claimed.
THEOREM JobsComplete == Spec => []JobComplete
<1>1. IInv => JobComplete
  BY DEF IInv, Heard, JobComplete
<1> QED BY <1>1, Invariance, PTL
=============================================================================
