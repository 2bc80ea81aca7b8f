----------------------- MODULE TrackingPipeline_proofs -----------------------
(* What an answered tracking request tells of itself, for any trackers,     *)
(* dates and rows in the tables: see IInv in TrackingPipeline.              *)
EXTENDS TrackingPipeline, FiniteSetTheorems, SequenceTheorems, WellFoundedInduction, TLAPS

-----------------------------------------------------------------------------
(* Sides, rows and answers                                                  *)

\* A vendor gives a value of JSON, or it fails.
LEMMA Answers ==
  ASSUME NEW c \in DOMAIN Class
  PROVE  Class[c].asks \subseteq Json \cup Raised
<1>1. c \in {"flow", "btc", "btcflow", "path", "btcpath"}
  BY DEF Class
<1>2. CoinpathAPIInterface \subseteq Json \cup Raised
  BY DEF CoinpathAPIInterface, Raised, Json, Truthy
<1>3. CASE c = "flow"
  BY <1>2, <1>3 DEF Class, TrackingResults
<1>4. CASE c = "btc"
  BY <1>4 DEF Class, BTCTrackingResults, LyzeAPIInterface
<1>5. CASE c = "btcflow"
  BY <1>5 DEF Class, BTCCoinpathTrackingResults, BloxyBTCAPIInterface
<1>6. CASE c = "path"
  BY <1>6 DEF Class, EthPathResults, BloxyEthAPIInterface
<1>7. CASE c = "btcpath"
  BY <1>7 DEF Class, BtcPathResults, EthPathResults, BloxyEthAPIInterface
<1> QED
  BY <1>1, <1>3, <1>4, <1>5, <1>6, <1>7

\* Each side ends once, so that the result thread never has more than two to
\* deliver.
LEMMA AtMostTwo ==
  ASSUME NEW q \in Seq(Sides), \A i, j \in DOMAIN q : q[i] = q[j] => i = j
  PROVE  Len(q) =< 2
<1>1. ASSUME Len(q) >= 3 PROVE FALSE
  <2>1. 1 \in DOMAIN q /\ 2 \in DOMAIN q /\ 3 \in DOMAIN q
    BY <1>1
  <2>2. q[1] \in Sides /\ q[2] \in Sides /\ q[3] \in Sides
    BY <2>1
  <2>3. q[1] # q[2] /\ q[1] # q[3] /\ q[2] # q[3]
    BY <2>1
  <2> QED
    BY <2>2, <2>3 DEF Sides
<1> QED
  BY <1>1

\* Sides are counted one by one.
LEMMA CountedSides ==
  ASSUME NEW S \in SUBSET Sides
  PROVE  Cardinality(S) = (IF "source" \in S THEN 1 ELSE 0) + (IF "distribution" \in S THEN 1 ELSE 0)
<1>1. Cardinality({}) = 0 /\ Cardinality({"source"}) = 1 /\ Cardinality({"distribution"}) = 1
  BY FS_EmptySet, FS_Singleton
<1>2. Cardinality({"source", "distribution"}) = 2
  <2>1. IsFiniteSet({"source"}) /\ "distribution" \notin {"source"}
    BY FS_Singleton
  <2>2. Cardinality({"source"} \cup {"distribution"}) = Cardinality({"source"}) + 1
    BY <2>1, FS_AddElement
  <2>3. {"source"} \cup {"distribution"} = {"source", "distribution"}
    OBVIOUS
  <2> QED
    BY <1>1, <2>2, <2>3
<1>3. S = {} \/ S = {"source"} \/ S = {"distribution"} \/ S = {"source", "distribution"}
  BY DEF Sides
<1> QED
  BY <1>1, <1>2, <1>3

\* Of the rows that lie inside the range the last one is found.
LEMMA NewestIsAHit ==
  ASSUME TypeOK, NEW s \in Sides, Hits(s) # {}
  PROVE  Newest(s).range.from >= tracker.range.from /\ Newest(s).range.to =< tracker.range.to
         /\ Newest(s).range \in Ranges
<1> DEFINE len == Len(table[s])
           back == {len - i : i \in Hits(s)}
<1>1. table[s] \in Seq(Rows) /\ len \in Nat /\ Hits(s) \subseteq 1..len
  BY DEF TypeOK, Hits
<1>2. back \in SUBSET Nat /\ back # {}
  BY <1>1
<1>3. \E i \in Hits(s) : \A j \in Hits(s) : j =< i
  <2> HIDE DEF back
  <2>1. PICK n \in back : \A m \in back : ~ (<<m, n>> \in OpToRel(<, Nat))
    BY <1>2, NatLessThanWellFounded, WFMin, Zenon
  <2>2. \A m \in back : m < n => <<m, n>> \in OpToRel(<, Nat)
    BY <1>2 DEF OpToRel
  <2>3. \A m \in back : ~(m < n)
    BY <2>1, <2>2
  <2>4. PICK i \in Hits(s) : n = len - i
    BY DEF back
  <2>5. ASSUME NEW j \in Hits(s) PROVE j =< i
    <3>1. len - j \in back
      BY DEF back
    <3>2. ~(len - j < len - i)
      BY <2>3, <2>4, <3>1
    <3> QED
      BY <1>1, <3>2
  <2> QED
    BY <2>5
<1>4. PICK i \in Hits(s) : Newest(s) = table[s][i]
  BY <1>3 DEF Newest
<1>5. table[s][i] \in Rows
  BY <1>1
<1> QED
  BY <1>4, <1>5 DEF Hits, Rows

-----------------------------------------------------------------------------
(* The threads of the pool                                                  *)

\* A side's thread works only while the caller waits in join().
LEMMA WorkersComeBeforeTheJoin ==
  ASSUME IInv, NEW s \in Sides, fetch[s] \in {"begin", "count", "store"}
  PROVE  phase = "join" /\ s \in tracker.sides /\ s \notin got /\ answer = "none"
         /\ \A i \in DOMAIN done : done[i] # s
<1>1. phase # "start" /\ s \in tracker.sides
  BY DEF IInv, FetchOK
<1>2. s \notin got /\ \A i \in DOMAIN done : done[i] # s
  BY DEF IInv, DeliveryOK
<1>3. phase = "join"
  BY <1>1, <1>2 DEF IInv, DeliveryOK
<1> QED
  BY <1>1, <1>2, <1>3 DEF IInv, AnswerOK

\* What it finds changes nothing that is drawn or answered yet.
LEMMA WorkersDrawNothing ==
  ASSUME IInv, NEW s \in Sides, fetch[s] \in {"begin", "count", "store"},
         UNCHANGED <<tracker, phase, answer, graph, drawn>>,
         value' = value \/ (value[s] = "none" /\ \E v : value' = [value EXCEPT ![s] = v])
  PROVE  DrawnOK' /\ AnswerOK'
<1>1. phase = "join" /\ answer = "none"
  BY WorkersComeBeforeTheJoin
<1>2. \A o \in Sides : ~Fetched(o) /\ ~Annotated(o)
  BY <1>1 DEF Fetched, Annotated, Draws, Waits, Waiting
<1>3. \A o \in Sides : ~Fetched(o)' /\ ~Annotated(o)' /\ ~Waiting(o)'
  BY <1>1 DEF Fetched, Annotated, Draws, Waits, Waiting
<1>4. \A o \in Sides : graph[o] = "none" /\ o \notin drawn
  BY <1>1, <1>2 DEF IInv, DrawnOK
<1>5. DrawnOK'
  BY <1>3, <1>4 DEF DrawnOK
<1>6. AnswerOK'
  BY <1>1 DEF AnswerOK, VendorErrorIsReported, Sides
<1> QED
  BY <1>5, <1>6

\* A thread that ends is told of once.
LEMMA EndedOnce ==
  ASSUME IInv, NEW s \in Sides, fetch[s] \in {"begin", "store"},
         fetch' = [fetch EXCEPT ![s] = "end"], done' = Append(done, s),
         UNCHANGED <<tracker, phase, got, error>>,
         value' = value \/ (value[s] = "none" /\ \E v : value' = [value EXCEPT ![s] = v])
  PROVE  DeliveryOK' /\ done' \in Seq(Sides) /\ Len(done') =< 2
<1>1. /\ phase = "join" /\ s \in tracker.sides /\ s \notin got
      /\ \A i \in DOMAIN done : done[i] # s
  BY WorkersComeBeforeTheJoin
<1>2. done \in Seq(Sides) /\ Len(done) \in Nat
  BY DEF IInv, TypeOK
<1>3. /\ done' \in Seq(Sides) /\ DOMAIN done' = 1..(Len(done) + 1)
      /\ \A i \in DOMAIN done : i \in DOMAIN done' /\ done'[i] = done[i]
      /\ done'[Len(done) + 1] = s /\ Len(done) + 1 \in DOMAIN done'
      /\ \A i \in DOMAIN done' : i \in DOMAIN done \/ i = Len(done) + 1
  BY <1>2
<1>4. \A i, j \in DOMAIN done' : done'[i] = done'[j] => i = j
  BY <1>1, <1>3 DEF IInv, DeliveryOK
<1>5. Len(done') =< 2
  BY <1>3, <1>4, AtMostTwo
<1>6. ASSUME NEW o \in Sides
      PROVE  /\ fetch'[o] = "end" <=> o \in got' \/ \E i \in DOMAIN done' : done'[i] = o
             /\ o \in got' => \A i \in DOMAIN done' : done'[i] # o
             /\ o \in got' => value'[o] \notin Deadly /\ (value'[o] = "error" => error' # "none")
  <2>1. CASE o = s
    BY <1>1, <1>3, <2>1 DEF IInv, TypeOK
  <2>2. CASE o # s
    <3>1. fetch'[o] = fetch[o] /\ value'[o] = value[o]
      BY <2>2 DEF IInv, TypeOK
    <3>2. (\E i \in DOMAIN done' : done'[i] = o) <=> \E i \in DOMAIN done : done[i] = o
      BY <1>3, <2>2
    <3> QED
      BY <2>2, <3>1, <3>2 DEF IInv, DeliveryOK
  <2> QED
    BY <2>1, <2>2
<1>7. error' # "none" => value'[error'] = "error"
  BY DEF IInv, TypeOK, DeliveryOK
<1> QED
  BY <1>1, <1>3, <1>4, <1>5, <1>6, <1>7 DEF DeliveryOK

\* A side that is served from its table.
LEMMA ReuseStep ==
  ASSUME IInv, NEW s \in Sides, Reuse(s)
  PROVE  IInv'
<1> DEFINE r == Newest(s).range
<1>1. /\ fetch[s] = "begin" /\ value' = [value EXCEPT ![s] = "rows"]
      /\ used' = [used EXCEPT ![s] = {r}] /\ fetch' = [fetch EXCEPT ![s] = "end"]
      /\ done' = Append(done, s)
      /\ UNCHANGED <<tracker, table, got, deaf, error, error_messages, ext_api_calls, loaded,
                     graph, drawn, phase, answer, asked>>
  BY DEF Reuse, pool, drawing
<1>2. /\ r \in Ranges /\ tracker.range.from =< r.from /\ r.to =< tracker.range.to /\ ~tracker.force
  <2>1. Hits(s) # {} /\ ~tracker.force
    BY DEF Reuse, ServedFromDb
  <2>2. r \in Ranges /\ r.from >= tracker.range.from /\ r.to =< tracker.range.to
    BY <2>1, NewestIsAHit DEF IInv
  <2>3. r.from \in Nat /\ tracker.range.from \in Nat
    BY <2>2, TrackingAssumption DEF IInv, TypeOK, Ranges
  <2> QED
    BY <2>1, <2>2, <2>3
<1> HIDE DEF r
<1>3. value[s] = "none" /\ phase = "join" /\ s \in tracker.sides
  BY <1>1, WorkersComeBeforeTheJoin DEF IInv, FetchOK
<1>4. DrawnOK' /\ AnswerOK'
  BY <1>1, <1>3, WorkersDrawNothing
<1>5. DeliveryOK' /\ done' \in Seq(Sides) /\ Len(done') =< 2
  BY <1>1, <1>3, EndedOnce
<1>6. TypeOK'
  BY <1>1, <1>2, <1>5 DEF IInv, TypeOK, Json, Truthy
<1>7. FetchOK'
  BY <1>1, <1>3 DEF IInv, FetchOK, TypeOK
<1>8. CountOK'
  <2>1. \A o \in Sides : Ended(o)' = Ended(o)
    BY <1>1 DEF IInv, TypeOK, Ended
  <2> QED
    BY <1>1, <1>3, <2>1 DEF IInv, CountOK, TypeOK, FetchOK, Sides
<1>9. RowsStayInRange'
  BY <1>1, <1>2 DEF IInv, RowsStayInRange, TypeOK
<1> QED
  BY <1>4, <1>5, <1>6, <1>7, <1>8, <1>9 DEF IInv

\* A side for which a vendor is asked, up to the answer.
LEMMA AskStep ==
  ASSUME IInv, NEW s \in Sides, Ask(s)
  PROVE  IInv'
<1> PICK v \in Class[tracker.class].asks :
      /\ value' = [value EXCEPT ![s] = v]
      /\ IF v \in Raised
         THEN /\ fetch' = [fetch EXCEPT ![s] = "end"]
              /\ done' = Append(done, s)
              /\ UNCHANGED error_messages
         ELSE /\ fetch' = [fetch EXCEPT ![s] = "count"]
              /\ error_messages' = IF v \in Truthy THEN error_messages
                                   ELSE error_messages \cup {s}
              /\ UNCHANGED done
  BY DEF Ask
<1>1. /\ fetch[s] = "begin" /\ asked' \in {asked, asked \cup {s}}
      /\ UNCHANGED <<tracker, table, used, got, deaf, error, ext_api_calls, loaded,
                     graph, drawn, phase, answer>>
  BY DEF Ask, pool, drawing
<1>2. v \in Json \cup Raised
  BY Answers, TrackersAssumption DEF IInv, TypeOK
<1>3. /\ value[s] = "none" /\ phase = "join" /\ s \in tracker.sides /\ s \notin got
      /\ s \notin error_messages /\ used[s] = {}
  BY <1>1, WorkersComeBeforeTheJoin DEF IInv, FetchOK
<1>4. DrawnOK' /\ AnswerOK'
  BY <1>1, <1>3, WorkersDrawNothing
<1>5. DeliveryOK' /\ done' \in Seq(Sides) /\ Len(done') =< 2
  <2>1. CASE v \in Raised
    BY <1>1, <1>3, <2>1, EndedOnce
  <2>2. CASE v \notin Raised
    BY <1>1, <1>3, <2>2 DEF IInv, DeliveryOK, TypeOK
  <2> QED
    BY <2>1, <2>2
<1>6. TypeOK'
  <2>1. value' \in [Sides -> {"none"} \cup Json \cup Raised]
    <3>1. v \in {"none"} \cup Json \cup Raised
      BY <1>2
    <3> QED
      BY <3>1 DEF IInv, TypeOK
  <2>2. error_messages' \subseteq tracker.sides
    BY <1>3 DEF IInv, TypeOK
  <2>3. fetch' \in [Sides -> {"idle", "begin", "count", "store", "end"}]
    BY DEF IInv, TypeOK
  <2>4. asked' \subseteq tracker.sides
    BY <1>1, <1>3 DEF IInv, TypeOK
  <2> QED
    BY <1>1, <1>5, <2>1, <2>2, <2>3, <2>4 DEF IInv, TypeOK
<1>7. FetchOK'
  BY <1>1, <1>2, <1>3 DEF IInv, FetchOK, TypeOK, Json, Truthy, Raised
<1>8. CountOK'
  <2>1. Ended(s) = 0 /\ Ended(s)' \in {0, 1} /\ \A o \in Sides \ {s} : Ended(o)' = Ended(o)
    BY <1>1 DEF IInv, TypeOK, Ended
  <2>2. ext_api_calls =< Ended("source")' + Ended("distribution")'
    BY <2>1 DEF IInv, CountOK, TypeOK, Sides, Ended
  <2>3. ASSUME NEW a \in Sides, NEW o \in Sides, fetch'[a] = "store", o # a
        PROVE  loaded[a] =< Ended(o)'
    <3>1. fetch' = [fetch EXCEPT ![s] = "end"] \/ fetch' = [fetch EXCEPT ![s] = "count"]
      OBVIOUS
    <3>2. fetch \in [Sides -> {"idle", "begin", "count", "store", "end"}] /\ loaded[a] \in Nat
      <4>1. fetch \in [Sides -> {"idle", "begin", "count", "store", "end"}] /\ loaded \in [Sides -> 0..1]
        BY DEF IInv, TypeOK
      <4> QED
        BY <4>1
    <3>3. fetch[a] = "store"
      BY <2>3, <3>1, <3>2
    <3>4. loaded[a] =< Ended(o)
      BY <2>3, <3>3 DEF IInv, CountOK
    <3> QED
      BY <2>1, <3>2, <3>4 DEF Ended
  <2>4. ASSUME NEW a \in asked', fetch'[a] = "end", value'[a] \notin Raised
        PROVE  ext_api_calls >= 1
    BY <1>1, <2>4 DEF IInv, CountOK, TypeOK
  <2> QED
    BY <1>1, <2>2, <2>3, <2>4 DEF CountOK
<1>9. RowsStayInRange'
  BY <1>1 DEF IInv, RowsStayInRange
<1> QED
  BY <1>4, <1>5, <1>6, <1>7, <1>8, <1>9 DEF IInv

\* The count is read, ...
LEMMA LoadStep ==
  ASSUME IInv, NEW s \in Sides, Load(s)
  PROVE  IInv'
<1>1. /\ fetch[s] = "count" /\ table' = Save(s)
      /\ loaded' = [loaded EXCEPT ![s] = ext_api_calls]
      /\ fetch' = [fetch EXCEPT ![s] = "store"]
      /\ UNCHANGED <<tracker, value, used, done, got, deaf, error, error_messages,
                     ext_api_calls, graph, drawn, phase, answer, asked>>
  BY DEF Load, pool, drawing
<1>2. phase = "join" /\ s \in tracker.sides
  BY <1>1, WorkersComeBeforeTheJoin
<1>3. DrawnOK' /\ AnswerOK'
  BY <1>1, WorkersDrawNothing
<1>4. \A o \in Sides : Ended(o)' = Ended(o) /\ Ended(o) \in {0, 1}
  BY <1>1 DEF IInv, TypeOK, Ended
<1>5. ASSUME NEW o \in Sides, o # s PROVE ext_api_calls =< Ended(o)
  <2>1. Ended(s) = 0
    BY <1>1 DEF Ended
  <2> QED
    BY <1>4, <1>5, <2>1 DEF IInv, CountOK, TypeOK, Sides
<1>6. ext_api_calls \in 0..1
  <2>1. PICK o \in Sides : o # s
    BY DEF Sides
  <2>2. ext_api_calls \in 0..2
    BY DEF IInv, TypeOK
  <2> QED
    BY <1>4, <1>5, <2>1, <2>2
<1>7. table' \in [Sides -> Seq(Rows)]
  <2> DEFINE row == [range |-> tracker.range, result |-> "rows"]
  <2>1. row \in Rows
    BY DEF IInv, TypeOK, Rows
  <2>2. table' = table \/ table' = [table EXCEPT ![s] = Append(table[s], row)]
    BY <1>1 DEF Save
  <2> HIDE DEF row
  <2>3. Append(table[s], row) \in Seq(Rows) /\ table \in [Sides -> Seq(Rows)]
    BY <2>1 DEF IInv, TypeOK
  <2> QED
    BY <2>2, <2>3
<1>8. TypeOK'
  BY <1>1, <1>6, <1>7 DEF IInv, TypeOK
<1>9. FetchOK' /\ DeliveryOK' /\ RowsStayInRange'
  BY <1>1, <1>2 DEF IInv, FetchOK, DeliveryOK, RowsStayInRange, TypeOK
<1>10. CountOK'
  <2>1. ASSUME NEW a \in Sides, NEW o \in Sides, fetch'[a] = "store", o # a
        PROVE  loaded'[a] =< Ended(o)'
    <3>1. CASE a = s
      BY <1>1, <1>4, <1>5, <2>1, <3>1 DEF IInv, TypeOK
    <3>2. CASE a # s
      BY <1>1, <1>4, <2>1, <3>2 DEF IInv, TypeOK, CountOK
    <3> QED
      BY <3>1, <3>2
  <2>2. ext_api_calls' =< Ended("source")' + Ended("distribution")'
    BY <1>1, <1>4 DEF IInv, CountOK, Sides
  <2>3. ASSUME NEW a \in asked', fetch'[a] = "end", value'[a] \notin Raised
        PROVE  ext_api_calls' >= 1
    BY <1>1, <2>3 DEF IInv, CountOK, TypeOK
  <2> QED
    BY <2>1, <2>2, <2>3 DEF CountOK
<1> QED
  BY <1>3, <1>8, <1>9, <1>10 DEF IInv

\* ... and written one higher.
LEMMA StoreStep ==
  ASSUME IInv, NEW s \in Sides, Store(s)
  PROVE  IInv'
<1>1. /\ fetch[s] = "store" /\ ext_api_calls' = loaded[s] + 1
      /\ fetch' = [fetch EXCEPT ![s] = "end"] /\ done' = Append(done, s)
      /\ UNCHANGED <<tracker, table, value, used, got, deaf, error, error_messages, loaded,
                     graph, drawn, phase, answer, asked>>
  BY DEF Store, pool, drawing
<1>2. phase = "join" /\ s \in tracker.sides /\ value[s] # "none"
  BY <1>1, WorkersComeBeforeTheJoin DEF IInv, FetchOK
<1>3. DrawnOK' /\ AnswerOK'
  BY <1>1, WorkersDrawNothing
<1>4. DeliveryOK' /\ done' \in Seq(Sides) /\ Len(done') =< 2
  BY <1>1, EndedOnce
<1>5. loaded[s] \in 0..1
  BY DEF IInv, TypeOK
<1>6. TypeOK'
  BY <1>1, <1>4, <1>5 DEF IInv, TypeOK
<1>7. FetchOK' /\ RowsStayInRange'
  BY <1>1, <1>2 DEF IInv, FetchOK, RowsStayInRange, TypeOK
<1>8. CountOK'
  <2>1. /\ Ended(s)' = 1 /\ \A o \in Sides \ {s} : Ended(o)' = Ended(o)
        /\ \A o \in Sides : Ended(o) \in {0, 1}
    BY <1>1 DEF IInv, TypeOK, Ended, FetchOK
  <2>2. \A o \in Sides \ {s} : loaded[s] =< Ended(o)
    BY <1>1 DEF IInv, CountOK
  <2>3. ext_api_calls' =< Ended("source")' + Ended("distribution")'
    BY <1>1, <1>5, <2>1, <2>2 DEF Sides
  <2>4. ASSUME NEW a \in Sides, NEW o \in Sides, fetch'[a] = "store", o # a
        PROVE  loaded'[a] =< Ended(o)'
    <3>1. fetch[a] = "store" /\ a # s /\ loaded[a] \in Nat
      <4>1. DOMAIN fetch = Sides /\ loaded[a] \in 0..1
        BY DEF IInv, TypeOK
      <4> QED
        BY <1>1, <2>4, <4>1
    <3>2. loaded[a] =< Ended(o)
      BY <2>4, <3>1 DEF IInv, CountOK
    <3> QED
      BY <1>1, <2>1, <3>1, <3>2
  <2>5. ext_api_calls' >= 1
    BY <1>1, <1>5
  <2> QED
    BY <2>3, <2>4, <2>5 DEF CountOK
<1> QED
  BY <1>3, <1>4, <1>6, <1>7, <1>8 DEF IInv

-----------------------------------------------------------------------------
(* The caller's thread and the result thread                                *)

\* A task for every side with a depth.
LEMMA StartStep ==
  ASSUME IInv, get_tracking_data
  PROVE  IInv'
<1>1. /\ phase = "start" /\ phase' = "join"
      /\ fetch' = [s \in Sides |-> IF s \in tracker.sides THEN "begin" ELSE "idle"]
      /\ UNCHANGED <<tracker, table, value, used, done, got, deaf, error, error_messages,
                     ext_api_calls, loaded, graph, drawn, answer, asked>>
  BY DEF get_tracking_data, pool
<1>2. \A s \in Sides : fetch[s] = "idle" /\ value[s] = "none"
  BY <1>1 DEF IInv, FetchOK
<1>3. TypeOK'
  BY <1>1 DEF IInv, TypeOK
<1>4. FetchOK'
  BY <1>1, <1>2 DEF IInv, FetchOK
<1>5. DeliveryOK'
  BY <1>1, <1>2 DEF IInv, DeliveryOK
<1>6. CountOK' /\ RowsStayInRange'
  <2>1. asked = {} /\ \A o \in Sides : fetch'[o] \notin {"end", "store"} /\ fetch[o] # "end"
    BY <1>1, <1>2 DEF IInv, FetchOK, TypeOK
  <2>2. \A o \in Sides : Ended(o)' = 0 /\ Ended(o) = 0
    BY <2>1 DEF Ended
  <2>3. CountOK'
    BY <1>1, <2>1, <2>2 DEF IInv, CountOK, Sides
  <2>4. RowsStayInRange'
    BY <1>1 DEF IInv, RowsStayInRange
  <2> QED
    BY <2>3, <2>4
<1>7. DrawnOK'
  BY <1>1 DEF IInv, DrawnOK, Fetched, Annotated, Draws, Waits, Waiting
<1>8. AnswerOK'
  BY <1>1 DEF IInv, AnswerOK, VendorErrorIsReported, Sides
<1> QED
  BY <1>3, <1>4, <1>5, <1>6, <1>7, <1>8 DEF IInv

\* The callback of a side has run before its result is ready.
LEMMA DeliverStep ==
  ASSUME IInv, Deliver
  PROVE  IInv'
<1> DEFINE s == Head(done)
<1>1. /\ done # <<>>
      /\ UNCHANGED <<tracker, table, fetch, value, used, error_messages, ext_api_calls, loaded,
                     graph, drawn, phase, answer, asked>>
  BY DEF Deliver, drawing
<1>2. CASE value[s] \in Deadly
  <2>1. deaf' = TRUE /\ UNCHANGED <<got, error, done>>
    BY <1>2 DEF Deliver
  <2>2. TypeOK' /\ FetchOK' /\ DeliveryOK'
    BY <1>1, <2>1 DEF IInv, TypeOK, FetchOK, DeliveryOK
  <2>3. CountOK' /\ RowsStayInRange'
    BY <1>1, <2>1 DEF IInv, CountOK, Ended, RowsStayInRange
  <2>4. DrawnOK' /\ AnswerOK'
    BY <1>1, <2>1 DEF IInv, DrawnOK, Fetched, Annotated, Waiting, AnswerOK, VendorErrorIsReported
  <2> QED
    BY <2>2, <2>3, <2>4 DEF IInv
<1>3. CASE value[s] \notin Deadly
  <2>1. /\ got' = got \cup {s} /\ error' = IF value[s] = "error" THEN s ELSE error
        /\ done' = Tail(done) /\ UNCHANGED deaf
    BY <1>3 DEF Deliver
  <2>2. done \in Seq(Sides) /\ Len(done) =< 2
    BY DEF IInv, TypeOK
  <2>3. /\ 1 \in DOMAIN done /\ s = done[1] /\ s \in Sides
        /\ done' \in Seq(Sides) /\ Len(done') =< 2
        /\ \A i \in DOMAIN done' : i + 1 \in DOMAIN done /\ done'[i] = done[i + 1] /\ i + 1 # 1
        /\ \A i \in DOMAIN done : i # 1 => i - 1 \in DOMAIN done' /\ done'[i - 1] = done[i]
        /\ DOMAIN done' \subseteq Nat
    BY <1>1, <2>1, <2>2
  <2> HIDE DEF s
  <2>4. fetch[s] = "end" /\ s \in tracker.sides
    BY <2>3 DEF IInv, DeliveryOK, FetchOK
  <2>5. \A i \in DOMAIN done' : done'[i] # s
    BY <2>3 DEF IInv, DeliveryOK
  <2>6. DeliveryOK'
    <3>1. \A i, j \in DOMAIN done' : done'[i] = done'[j] => i = j
      <4>1. ASSUME NEW i \in DOMAIN done', NEW j \in DOMAIN done', done'[i] = done'[j]
            PROVE  i + 1 = j + 1
        BY <2>3, <4>1 DEF IInv, DeliveryOK
      <4> QED
        BY <2>3, <4>1
    <3>2. ASSUME NEW o \in Sides
          PROVE  /\ fetch[o] = "end" <=> o \in got' \/ \E i \in DOMAIN done' : done'[i] = o
                 /\ o \in got' => \A i \in DOMAIN done' : done'[i] # o
      <4>1. CASE o = s
        BY <2>1, <2>4, <2>5, <4>1
      <4>2. CASE o # s
        <5>1. (\E i \in DOMAIN done' : done'[i] = o) <=> \E i \in DOMAIN done : done[i] = o
          BY <2>3, <4>2
        <5> QED
          BY <2>1, <4>2, <5>1 DEF IInv, DeliveryOK
      <4> QED
        BY <4>1, <4>2
    <3>3. \A o \in got' : value[o] \notin Deadly /\ (value[o] = "error" => error' # "none")
      BY <1>3, <2>1, <2>3 DEF IInv, DeliveryOK, TypeOK, Sides
    <3>4. error' # "none" => value[error'] = "error"
      BY <2>1 DEF IInv, DeliveryOK
    <3> QED
      BY <1>1, <2>1, <3>1, <3>2, <3>3, <3>4 DEF IInv, DeliveryOK
  <2>7. TypeOK'
    BY <1>1, <2>1, <2>3, <2>4 DEF IInv, TypeOK
  <2>8. FetchOK' /\ CountOK' /\ RowsStayInRange'
    BY <1>1, <2>1 DEF IInv, FetchOK, CountOK, Ended, RowsStayInRange
  <2>9. DrawnOK' /\ AnswerOK'
    BY <1>1, <2>1 DEF IInv, DrawnOK, Fetched, Annotated, Waiting, AnswerOK, VendorErrorIsReported
  <2> QED
    BY <2>6, <2>7, <2>8, <2>9 DEF IInv
<1> QED
  BY <1>2, <1>3

\* What is drawn changes nothing in the pool.
LEMMA DrawingKeeps ==
  ASSUME IInv, UNCHANGED <<tracker, fetching, pool, error_messages>>,
         phase # "start", phase' # "start", phase # "join" \/ tracker.sides \subseteq got
  PROVE  FetchOK' /\ DeliveryOK' /\ CountOK' /\ RowsStayInRange'
<1>1. UNCHANGED <<tracker, table, fetch, value, used, done, got, deaf, error, error_messages,
                  ext_api_calls, loaded, asked>>
  BY DEF fetching, pool
<1>2. FetchOK'
  BY <1>1 DEF IInv, FetchOK
<1>3. DeliveryOK'
  BY <1>1 DEF IInv, DeliveryOK
<1>4. CountOK'
  BY <1>1 DEF IInv, CountOK, Ended
<1>5. RowsStayInRange'
  BY <1>1 DEF IInv, RowsStayInRange
<1> QED
  BY <1>2, <1>3, <1>4, <1>5

\* By the time somebody fails, every vendor's error has been seen.
LEMMA FailureIsTold ==
  ASSUME IInv, NEW e \in Raised, FailWith(e), phase \notin {"start", "join"},
         UNCHANGED <<value>>
  PROVE  AnswerOK' /\ answer' \in {"timeout", "oops"} \cup Sides /\ phase' = "failed"
<1>1. phase' = "failed" /\ answer' = Message(e)
  BY DEF FailWith, Results, CATVSerializer_results, CATVBTCSerializer_results,
         CATVBTCCoinpathSerializer_results, CATVEthPathSerializer_results
<1>2. error \in Sides \cup {"none"}
  BY DEF IInv, TypeOK
<1>3. answer' = "oops" => error = "none"
  BY <1>1, <1>2 DEF Message, Sides
<1>4. answer' \in Sides => answer' = error
  BY <1>1, <1>2 DEF Message, Sides
<1>5. \A s \in Sides : value[s] = "error" => s \in got
  BY DEF IInv, FetchOK, DeliveryOK
<1>6. VendorErrorIsReported'
  BY <1>2, <1>3, <1>4, <1>5 DEF IInv, DeliveryOK, VendorErrorIsReported, Sides
<1>7. answer' \in {"timeout", "oops"} \cup Sides
  BY <1>1, <1>2 DEF Message
<1> QED
  BY <1>1, <1>6, <1>7 DEF AnswerOK

\* While the graphs are made there is no answer yet.
LEMMA NoAnswerYet ==
  ASSUME IInv, UNCHANGED <<value, answer>>, phase \notin {"answered", "failed"}
  PROVE  AnswerOK' /\ answer = "none"
BY DEF IInv, AnswerOK, VendorErrorIsReported, Sides

\* join() returns when every side is delivered.
LEMMA JoinStep ==
  ASSUME IInv, Join
  PROVE  IInv'
<1>1. /\ phase = "join" /\ tracker.sides \subseteq got /\ phase' = "get source"
      /\ UNCHANGED <<tracker, fetching, pool, error_messages, graph, drawn, answer>>
  BY DEF Join
<1>2. FetchOK' /\ DeliveryOK' /\ CountOK' /\ RowsStayInRange'
  BY <1>1, DrawingKeeps
<1>3. AnswerOK'
  BY <1>1, NoAnswerYet DEF fetching
<1>4. DrawnOK'
  BY <1>1 DEF IInv, DrawnOK, Fetched, Annotated, Draws, Waits, Waiting, fetching
<1>5. TypeOK'
  BY <1>1 DEF IInv, TypeOK, fetching, pool, Gets
<1> QED
  BY <1>2, <1>3, <1>4, <1>5 DEF IInv

\* get() for one side, in order.
LEMMA GetStep ==
  ASSUME IInv, NEW s \in Sides, NEW here, NEW next, Get(s, here, next),
         <<s, here, next>> \in {<<"source", "get source", "get distribution">>,
                                <<"distribution", "get distribution", "join graphs">>}
  PROVE  IInv'
<1>1. /\ phase = here /\ phase' \in {next, "failed"}
      /\ UNCHANGED <<tracker, fetching, pool, error_messages, drawn>>
  BY DEF Get, FailWith
<1>2. UNCHANGED <<table, fetch, value, used, done, got, deaf, error, ext_api_calls, loaded, asked>>
  BY <1>1 DEF fetching, pool
<1>3. FetchOK' /\ DeliveryOK' /\ CountOK' /\ RowsStayInRange'
  BY <1>1, DrawingKeeps
<1>4. CASE s \in tracker.sides /\ value[s] \in Raised
  <2>1. FailWith(value[s]) /\ UNCHANGED graph
    BY <1>4 DEF Get
  <2>2. AnswerOK' /\ answer' \in {"timeout", "oops"} \cup Sides /\ phase' = "failed"
    BY <1>1, <1>2, <1>4, <2>1, FailureIsTold
  <2>3. DrawnOK'
    BY <1>1, <1>2, <2>1, <2>2 DEF IInv, DrawnOK, Fetched, Annotated, Draws, Waits, Waiting
  <2>4. TypeOK'
    BY <1>1, <1>2, <2>1, <2>2 DEF IInv, TypeOK
  <2> QED
    BY <1>3, <2>2, <2>3, <2>4 DEF IInv
<1>5. CASE ~(s \in tracker.sides /\ value[s] \in Raised)
  <2>1. /\ phase' = next /\ UNCHANGED answer
        /\ graph' = IF s \in tracker.sides /\ value[s] \in Truthy
                    THEN [graph EXCEPT ![s] = "queued"] ELSE graph
    BY <1>5 DEF Get
  <2>2. AnswerOK'
    BY <1>1, <1>2, <2>1, NoAnswerYet
  <2>3. \A o \in Sides : o \notin tracker.sides => value[o] = "none"
    BY <1>1 DEF IInv, FetchOK
  <2>4. graph' \in [Sides -> {"none", "queued", "built", "broken"}]
    BY <2>1 DEF IInv, TypeOK
  <2>5. TypeOK'
    BY <1>1, <1>2, <2>1, <2>4 DEF IInv, TypeOK, Gets, Draws, Waits
  <2>6. graph[s] = "none" /\ s \notin drawn
    BY <1>1 DEF IInv, DrawnOK, Fetched, Draws, Waits, Waiting
  <2>7. DrawnOK'
    <3>2. ASSUME NEW o \in Sides, o # s
          PROVE  graph'[o] = graph[o] /\ value'[o] = value[o] /\ (o \in drawn' <=> o \in drawn)
      BY <1>1, <1>2, <2>1, <3>2 DEF IInv, TypeOK
    <3>3. /\ graph'[s] # "none" => value[s] \in Truthy /\ s \in tracker.sides
          /\ value[s] \in Truthy /\ s \in tracker.sides => graph'[s] # "none"
          /\ s \notin tracker.sides => value[s] = "none"
          /\ value'[s] = value[s] /\ s \notin drawn'
      BY <1>1, <1>2, <2>1, <2>3, <2>6 DEF IInv, TypeOK
    <3>4. Fetched(s)' /\ ~Annotated(s)' /\ ~Waiting(s)'
      BY <1>1, <2>1 DEF Fetched, Annotated, Draws, Waits, Waiting
    <3>5. "none" \notin Truthy \cup Raised
      BY DEF Truthy, Raised
    <3>6. ASSUME NEW o \in Sides, o # s
          PROVE  (Fetched(o)' <=> Fetched(o)) /\ ~Annotated(o)' /\ ~Waiting(o)'
      BY <1>1, <2>1, <3>6 DEF Fetched, Annotated, Draws, Waits, Waiting, Sides
    <3> QED
      BY <1>1, <1>2, <1>5, <2>1, <3>2, <3>3, <3>4, <3>5, <3>6 DEF IInv, DrawnOK
  <2> QED
    BY <1>3, <2>2, <2>5, <2>7 DEF IInv
<1> QED
  BY <1>4, <1>5

\* The builder of a side, whenever it runs.
LEMMA BuildStep ==
  ASSUME IInv, NEW s \in Sides, Build(s)
  PROVE  IInv'
<1> PICK g \in {"built", "broken"} : graph' = [graph EXCEPT ![s] = g]
  BY DEF Build
<1>1. /\ graph[s] = "queued"
      /\ UNCHANGED <<tracker, fetching, pool, error_messages, drawn, phase, answer>>
  BY DEF Build
<1>2. UNCHANGED <<table, fetch, value, used, done, got, deaf, error, ext_api_calls, loaded, asked>>
  BY <1>1 DEF fetching, pool
<1>3. graph' \in [Sides -> {"none", "queued", "built", "broken"}]
  BY DEF IInv, TypeOK
<1>4. \A o \in Sides : /\ graph'[o] = "none" <=> graph[o] = "none"
                       /\ graph[o] = "built" => graph'[o] = "built"
  BY <1>1 DEF IInv, TypeOK
<1>5. TypeOK'
  BY <1>1, <1>2, <1>3 DEF IInv, TypeOK
<1>6. DrawnOK'
  BY <1>1, <1>2, <1>4 DEF IInv, DrawnOK, Fetched, Annotated, Waiting
<1>7. FetchOK' /\ DeliveryOK' /\ CountOK' /\ RowsStayInRange'
  <2>1. phase \notin {"start", "join"}
    BY <1>1 DEF IInv, DrawnOK, Fetched, Draws, Waits, Waiting
  <2> QED
    BY <1>1, <2>1, DrawingKeeps
<1>8. AnswerOK'
  BY <1>1, <1>2 DEF IInv, AnswerOK, VendorErrorIsReported
<1> QED
  BY <1>5, <1>6, <1>7, <1>8 DEF IInv

\* The caller waits for the builders, ...
LEMMA JoinGraphsStep ==
  ASSUME IInv, JoinGraphs
  PROVE  IInv'
<1>1. /\ phase = "join graphs" /\ phase' = "annotate source"
      /\ UNCHANGED <<tracker, fetching, pool, error_messages, graph, drawn, answer>>
  BY DEF JoinGraphs
<1>2. UNCHANGED <<table, fetch, value, used, done, got, deaf, error, ext_api_calls, loaded, asked>>
  BY <1>1 DEF fetching, pool
<1>3. FetchOK' /\ DeliveryOK' /\ CountOK' /\ RowsStayInRange'
  BY <1>1, DrawingKeeps
<1>4. AnswerOK'
  BY <1>1, <1>2, NoAnswerYet
<1>5. DrawnOK'
  BY <1>1, <1>2 DEF IInv, DrawnOK, Fetched, Annotated, Draws, Waits, Waiting
<1>6. TypeOK'
  BY <1>1, <1>2 DEF IInv, TypeOK, Draws, Waits
<1> QED
  BY <1>3, <1>4, <1>5, <1>6 DEF IInv

\* ... asks for the annotations of what they have built, side by side, ...
LEMMA AnnotateStep ==
  ASSUME IInv, NEW s \in Sides, NEW here, NEW wait, NEW next, Annotate(s, here, wait, next),
         <<s, here, wait, next>> \in
            {<<"source", "annotate source", "wait source", "annotate distribution">>,
             <<"distribution", "annotate distribution", "wait distribution", "answer">>}
  PROVE  IInv'
<1>1. /\ phase = here
      /\ UNCHANGED <<tracker, fetching, pool, error_messages, graph, drawn>>
  BY DEF Annotate
<1>2. UNCHANGED <<table, fetch, value, used, done, got, deaf, error, ext_api_calls, loaded, asked>>
  BY <1>1 DEF fetching, pool
<1>3. \/ graph[s] = "none" /\ phase' = next /\ UNCHANGED answer
      \/ graph[s] = "built" /\ phase' = wait /\ UNCHANGED answer
      \/ graph[s] # "none" /\ FailWith("raised")
  BY DEF Annotate
<1>4. phase' # "start"
  BY <1>3 DEF FailWith
<1>5. FetchOK' /\ DeliveryOK' /\ CountOK' /\ RowsStayInRange'
  BY <1>1, <1>4, DrawingKeeps
<1>6. CASE FailWith("raised")
  <2>1. AnswerOK' /\ answer' \in {"timeout", "oops"} \cup Sides /\ phase' = "failed"
    BY <1>1, <1>2, <1>6, FailureIsTold DEF Raised
  <2>2. DrawnOK'
    BY <1>1, <1>2, <2>1 DEF IInv, DrawnOK, Fetched, Annotated, Draws, Waits, Waiting
  <2>3. TypeOK'
    BY <1>1, <1>2, <2>1 DEF IInv, TypeOK
  <2> QED
    BY <1>5, <2>1, <2>2, <2>3 DEF IInv
<1>7. CASE /\ UNCHANGED answer
           /\ \/ graph[s] = "none" /\ phase' = next
              \/ graph[s] = "built" /\ phase' = wait
  <2>1. AnswerOK'
    BY <1>1, <1>2, <1>7, NoAnswerYet
  <2>2. DrawnOK'
    BY <1>1, <1>2, <1>7 DEF IInv, DrawnOK, Fetched, Annotated, Draws, Waits, Waiting, Sides
  <2>3. TypeOK'
    BY <1>1, <1>2, <1>7 DEF IInv, TypeOK, Draws, Waits
  <2> QED
    BY <1>5, <2>1, <2>2, <2>3 DEF IInv
<1> QED
  BY <1>3, <1>6, <1>7

\* ... takes them when they come, ...
LEMMA IndicatorsStep ==
  ASSUME IInv, NEW s \in Sides, NEW wait, NEW next, Indicators(s, wait, next),
         <<s, wait, next>> \in {<<"source", "wait source", "annotate distribution">>,
                                <<"distribution", "wait distribution", "answer">>}
  PROVE  IInv'
<1>1. /\ phase = wait
      /\ UNCHANGED <<tracker, fetching, pool, error_messages, graph>>
  BY DEF Indicators
<1>2. UNCHANGED <<table, fetch, value, used, done, got, deaf, error, ext_api_calls, loaded, asked>>
  BY <1>1 DEF fetching, pool
<1>3. \/ phase' = next /\ drawn' = drawn \cup {s} /\ UNCHANGED answer
      \/ FailWith("raised") /\ UNCHANGED drawn
  BY DEF Indicators
<1>4. phase' # "start"
  BY <1>3 DEF FailWith
<1>5. FetchOK' /\ DeliveryOK' /\ CountOK' /\ RowsStayInRange'
  BY <1>1, <1>4, DrawingKeeps
<1>6. CASE FailWith("raised") /\ UNCHANGED drawn
  <2>1. AnswerOK' /\ answer' \in {"timeout", "oops"} \cup Sides /\ phase' = "failed"
    BY <1>1, <1>2, <1>6, FailureIsTold DEF Raised
  <2>2. DrawnOK'
    BY <1>1, <1>2, <1>6, <2>1 DEF IInv, DrawnOK, Fetched, Annotated, Draws, Waits, Waiting
  <2>3. TypeOK'
    BY <1>1, <1>2, <1>6, <2>1 DEF IInv, TypeOK
  <2> QED
    BY <1>5, <2>1, <2>2, <2>3 DEF IInv
<1>7. CASE phase' = next /\ drawn' = drawn \cup {s} /\ UNCHANGED answer
  <2>0. graph[s] = "built" /\ s \in tracker.sides
    BY <1>1 DEF IInv, DrawnOK, Waiting
  <2>1. AnswerOK'
    BY <1>1, <1>2, <1>7, NoAnswerYet
  <2>2. DrawnOK'
    BY <1>1, <1>2, <1>7, <2>0 DEF IInv, DrawnOK, Fetched, Annotated, Draws, Waits, Waiting, Sides
  <2>3. drawn' \subseteq tracker.sides
    BY <1>7, <2>0 DEF IInv, TypeOK
  <2>4. TypeOK'
    BY <1>1, <1>2, <1>7, <2>3 DEF IInv, TypeOK, Draws, Waits
  <2> QED
    BY <1>5, <2>1, <2>2, <2>4 DEF IInv
<1> QED
  BY <1>3, <1>6, <1>7

\* ... and answers with the graphs there are.
LEMMA AnswerStep ==
  ASSUME IInv, Return
  PROVE  IInv'
<1>1. /\ phase = "answer" /\ phase' = "answered" /\ answer' = "graph" /\ drawn' = make_graph_dict
      /\ UNCHANGED <<tracker, fetching, pool, error_messages, graph>>
  BY DEF Return
<1>2. UNCHANGED <<table, fetch, value, used, done, got, deaf, error, ext_api_calls, loaded, asked>>
  BY <1>1 DEF fetching, pool
<1>3. drawn' = drawn
  <2>1. drawn \subseteq Sides
    BY DEF IInv, TypeOK
  <2> QED
    BY <1>1, <2>1 DEF make_graph_dict, Sides
<1>4. FetchOK' /\ DeliveryOK' /\ CountOK' /\ RowsStayInRange'
  BY <1>1, DrawingKeeps
<1>5. AnswerOK'
  BY <1>1 DEF AnswerOK, VendorErrorIsReported, Sides
<1>6. DrawnOK'
  BY <1>1, <1>2, <1>3 DEF IInv, DrawnOK, Fetched, Annotated, Draws, Waits, Waiting
<1>7. TypeOK'
  BY <1>1, <1>2, <1>3 DEF IInv, TypeOK
<1> QED
  BY <1>4, <1>5, <1>6, <1>7 DEF IInv

-----------------------------------------------------------------------------
(* The theorems                                                             *)

\* Nothing has begun.
LEMMA InitInv == Init => IInv
<1> SUFFICES ASSUME Init PROVE IInv
  OBVIOUS
<1>1. PICK c \in Trackers, s \in SUBSET Sides \ {{}}, r \in Ranges, f \in BOOLEAN :
        /\ tracker = [class |-> c, sides |-> s, range |-> r, force |-> f]
        /\ table \in [Sides -> BoundedSeq(Rows, MaxRows)]
  BY DEF Init
<1>2. tracker \in [class : Trackers, sides : SUBSET Sides, range : Ranges, force : BOOLEAN]
  BY <1>1
<1>3. table \in [Sides -> Seq(Rows)]
  <2>1. BoundedSeq(Rows, MaxRows) \subseteq Seq(Rows)
    BY TrackingAssumption, SeqDef DEF BoundedSeq, SeqOf
  <2> QED
    BY <1>1, <2>1
<1>4. TypeOK
  <2>1. done \in Seq(Sides) /\ Len(done) =< 2
    BY DEF Init
  <2>2. /\ fetch \in [Sides -> {"idle", "begin", "count", "store", "end"}]
        /\ value \in [Sides -> {"none"} \cup Json \cup Raised]
        /\ used \in [Sides -> SUBSET Ranges]
        /\ graph \in [Sides -> {"none", "queued", "built", "broken"}]
    BY DEF Init
  <2>3. loaded \in [Sides -> 0..1]
    BY DEF Init
  <2>4. /\ got = {} /\ deaf = FALSE /\ error = "none" /\ error_messages = {} /\ ext_api_calls = 0
        /\ drawn = {} /\ phase = "start" /\ answer = "none" /\ asked = {}
    BY DEF Init
  <2>5. /\ got \subseteq tracker.sides /\ error \in Sides \cup {"none"}
        /\ error_messages \subseteq tracker.sides /\ ext_api_calls \in 0..2
        /\ drawn \subseteq tracker.sides /\ asked \subseteq tracker.sides
        /\ phase \in {"start", "join"} \cup Gets \cup Draws \cup {"answered", "failed"}
        /\ answer \in {"none", "graph", "timeout", "oops"} \cup Sides
    BY <2>4
  <2>6. deaf \in BOOLEAN
    BY Zenon DEF Init
  <2> QED
    BY <1>2, <1>3, <2>1, <2>2, <2>3, <2>5, <2>6 DEF TypeOK
<1>5. FetchOK
  BY DEF Init, FetchOK
<1>6. DeliveryOK
  BY DEF Init, DeliveryOK
<1>7. CountOK
  BY DEF Init, CountOK, Ended, Sides
<1>8. RowsStayInRange
  BY DEF Init, RowsStayInRange
<1>9. DrawnOK /\ AnswerOK
  BY DEF Init, DrawnOK, AnswerOK, VendorErrorIsReported, Fetched, Annotated, Draws, Waits, Waiting, Sides
<1> QED
  BY <1>4, <1>5, <1>6, <1>7, <1>8, <1>9 DEF IInv

\* The lemmas above together.
LEMMA StepInv == IInv /\ [Next]_vars => IInv'
<1> SUFFICES ASSUME IInv, [Next]_vars PROVE IInv'
  OBVIOUS
<1>1. CASE Main
  <2>1. CASE get_tracking_data
    BY <2>1, StartStep
  <2>2. CASE Join
    BY <2>2, JoinStep
  <2>3. CASE create_graph_data
    <3>1. CASE Get("source", "get source", "get distribution")
      BY <3>1, GetStep DEF Sides
    <3>2. CASE Get("distribution", "get distribution", "join graphs")
      BY <3>2, GetStep DEF Sides
    <3> QED
      BY <2>3, <3>1, <3>2 DEF create_graph_data
  <2>4. CASE JoinGraphs
    BY <2>4, JoinGraphsStep
  <2>5. CASE set_annotations_from_db
    <3>1. CASE Annotate("source", "annotate source", "wait source", "annotate distribution")
      BY <3>1, AnnotateStep DEF Sides
    <3>2. CASE Annotate("distribution", "annotate distribution", "wait distribution", "answer")
      BY <3>2, AnnotateStep DEF Sides
    <3> QED
      BY <2>5, <3>1, <3>2 DEF set_annotations_from_db
  <2>6. CASE Return
    BY <2>6, AnswerStep
  <2> QED
    BY <1>1, <2>1, <2>2, <2>3, <2>4, <2>5, <2>6 DEF Main
<1>2. CASE Deliver
  BY <1>2, DeliverStep
<1>3. ASSUME NEW s \in Sides, Worker(s) PROVE IInv'
  BY <1>3, ReuseStep, AskStep, LoadStep, StoreStep, BuildStep DEF Worker
<1>3a. CASE update_annotations
  <2>1. CASE Indicators("source", "wait source", "annotate distribution")
    BY <2>1, IndicatorsStep DEF Sides
  <2>2. CASE Indicators("distribution", "wait distribution", "answer")
    BY <2>2, IndicatorsStep DEF Sides
  <2> QED
    BY <1>3a, <2>1, <2>2 DEF update_annotations
<1>4. CASE UNCHANGED vars
  <2>1. TypeOK' /\ FetchOK' /\ DeliveryOK'
    BY <1>4 DEF vars, IInv, TypeOK, FetchOK, DeliveryOK
  <2>2. CountOK' /\ RowsStayInRange'
    BY <1>4 DEF vars, IInv, CountOK, Ended, RowsStayInRange
  <2>3. DrawnOK' /\ AnswerOK'
    BY <1>4 DEF vars, IInv, DrawnOK, Fetched, Annotated, Waiting, AnswerOK, VendorErrorIsReported
  <2> QED
    BY <2>1, <2>2, <2>3 DEF IInv
<1> QED
  BY <1>1, <1>2, <1>3, <1>3a, <1>4 DEF Next

\* How far each side, the result thread and the caller are, at every step.
THEOREM Invariance == Spec => []IInv
BY InitInv, StepInv, PTL DEF Spec

\* Every variable of tracker, pool and graphs keeps its type.
THEOREM TypeCorrect == Spec => []TypeOK
<1>1. IInv => TypeOK
  BY DEF IInv
<1> QED
  BY <1>1, Invariance, PTL

\* In an answer every side is drawn or named as missing, the calls are those
\* that were made, and rows from a table lie inside the range asked for.
THEOREM AnswersAddUp == Spec => []TheAnswerAddsUp
<1>1. IInv => EverySideIsAccountedFor
  <2> SUFFICES ASSUME IInv, phase = "answered"
               PROVE  drawn \cup error_messages = tracker.sides /\ drawn \cap error_messages = {}
    BY DEF EverySideIsAccountedFor
  <2>1. /\ drawn \subseteq tracker.sides /\ error_messages \subseteq tracker.sides
        /\ tracker.sides \subseteq Sides /\ tracker.sides \subseteq got
    BY DEF IInv, TypeOK, DeliveryOK
  <2>2. \A s \in Sides : Fetched(s) /\ Annotated(s)
    BY DEF Fetched, Annotated
  <2>3. \A s \in Sides : s \in drawn <=> value[s] \in Truthy
    BY <2>2 DEF IInv, DrawnOK
  <2>4. \A s \in tracker.sides : s \in error_messages <=> value[s] \notin Truthy
    <3>1. ASSUME NEW s \in tracker.sides PROVE value[s] \notin Raised \cup {"none"}
      BY <2>1, <2>2 DEF IInv, DrawnOK, FetchOK, DeliveryOK
    <3>2. \A s \in Sides : value[s] \in {"none"} \cup Json \cup Raised
      BY DEF IInv, TypeOK
    <3> QED
      BY <2>1, <3>1, <3>2 DEF IInv, FetchOK, Json, Truthy
  <2> QED
    BY <2>1, <2>3, <2>4
<1>2. IInv => CallsAreNotInvented
  <2> SUFFICES ASSUME IInv, phase = "answered"
               PROVE  /\ ext_api_calls =< Cardinality({s \in tracker.sides : used[s] = {}})
                      /\ asked # {} => ext_api_calls >= 1
    BY DEF CallsAreNotInvented
  <2> DEFINE S == {s \in tracker.sides : used[s] = {}}
  <2>1. S \in SUBSET Sides
    BY DEF IInv, TypeOK
  <2>2. \A s \in Sides : Ended(s) = 1 => s \in S
    BY DEF IInv, FetchOK, Ended
  <2>3. \A s \in Sides : Ended(s) \in {0, 1}
    BY DEF Ended
  <2>4. ext_api_calls \in 0..2 /\ ext_api_calls =< Ended("source") + Ended("distribution")
    BY DEF IInv, TypeOK, CountOK
  <2>5. asked # {} => ext_api_calls >= 1
    <3>1. ASSUME NEW s \in asked PROVE fetch[s] = "end" /\ value[s] \notin Raised
      BY DEF IInv, TypeOK, DeliveryOK, DrawnOK, Fetched
    <3> QED
      BY <3>1 DEF IInv, CountOK
  <2> HIDE DEF S
  <2>6. ext_api_calls =< Cardinality(S)
    BY <2>1, <2>2, <2>3, <2>4, CountedSides DEF Sides
  <2> QED
    BY <2>5, <2>6 DEF S
<1>3. IInv => TheAnswerAddsUp
  BY <1>1, <1>2 DEF IInv, TheAnswerAddsUp
<1> QED
  BY <1>3, Invariance, PTL

\* The general message is given only if no vendor named an error, and an error
\* is quoted of the side it is about, in whatever order the sides end.
THEOREM ErrorsAreQuoted == Spec => []VendorErrorIsReported
<1>1. IInv => VendorErrorIsReported
  BY DEF IInv, AnswerOK
<1> QED
  BY <1>1, Invariance, PTL
=============================================================================
