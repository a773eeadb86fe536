----------------------- MODULE BufferedCollectorProofs ----------------------
(***************************************************************************)
(* Proofs about BufferedCollector: what the flush promises, for every set  *)
(* of datapoints, scores and risk factors and any number of drains.        *)
(*                                                                         *)
(* The invariant follows each value from the sink to the request that      *)
(* carries it: a result is in the map, in the batch being sent, or stored; *)
(* a score is in the map, in the newest window that has its id, or stored; *)
(* a risk is counted as soon as the score that shows it was drained.       *)
(***************************************************************************)
EXTENDS BufferedCollector, TLAPS

\* the score that the data lake keeps
LakeScores == [type : {"unknown", "result", "error"}, value : 0 .. 100, completion : 0 .. 100,
               modified : Nat, failure : Nat]

\* what the data lake and the server have of the asset
Lake  == [data : [Data -> Values \cup {Removed, None}], score : [QrIds -> LakeScores],
          risk : [Risks -> {None, "no", "yes"}]]
Remote == [data : [Data -> Values \cup {Removed, None}], last : BOOLEAN]

Types ==
  /\ TypeOK
  /\ lastData \in [Data -> Values \cup {None}]
  /\ lastScore \in [QrIds -> Scores \cup {None}]
  /\ store \in Lake
  /\ server \in Remote

\* where the goroutine stands: it goes round for the last time only when the
\* executor has stopped sinking, and then finds both maps empty afterwards
Control ==
  /\ done => executor # "running"
  /\ executor = "returned" => pc = "returned"
  /\ pc # "data" => batch = NoData
  /\ pc = "data" /\ done => results = NoData /\ scores = NoScores
  /\ pc \in {"scores", "store", "returned"} => done /\ results = NoData /\ scores = NoScores
  /\ server.last => pc = "returned"
  /\ pc = "store" \/ windows # <<>> => QrIds # {}
  /\ pc = "returned" => windows = <<>> \/ QrIds \subseteq failed

\* the last result of d arrived at the data lake and at the server
DataStored(d) ==
  /\ store.data[d] = toResult(lastData[d])
  /\ server.data[d] = store.data[d]

\* where the last result of d is
DataAt(d) ==
  /\ results[d] # None => results[d] = lastData[d]
  /\ results[d] = None /\ batch[d] # None => batch[d] = lastData[d]
  /\ results[d] = None /\ batch[d] = None => DataStored(d) \/ d \in failed

DataFlow == \A d \in Data : lastData[d] # None => DataAt(d)

Kept(q) == RiskMRNs[q] = {} \/ q \in keepQrIds

\* the last score of q arrived at the data lake
ScoreStored(q) ==
  /\ store.score[q].type = lastScore[q].type
  /\ store.score[q].value = lastScore[q].value
  /\ store.score[q].completion = lastScore[q].completion

\* the newest window that has q has its last score
InWindow(q) ==
  \E i \in 1 .. Len(windows) :
    /\ windows[i][q] = lastScore[q]
    /\ \A j \in 1 .. Len(windows) : j > i => windows[j][q] = None

NoWindow(q) == \A i \in 1 .. Len(windows) : windows[i][q] = None

\* where the last score of q is
ScoreAt(q) ==
  /\ scores[q] # None => scores[q] = lastScore[q]
  /\ scores[q] = None /\ Kept(q) =>
       \/ InWindow(q)
       \/ NoWindow(q) /\ (ScoreStored(q) \/ (pc = "returned" /\ q \in failed))

ScoreFlow == \A q \in QrIds :
  /\ scores[q] # None => lastScore[q] # None
  /\ lastScore[q] # None => ScoreAt(q)

\* the risks follow the scores that were drained
RiskFlow ==
  /\ \A q \in QrIds : lastScore[q] # None => \A r \in RiskMRNs[q] :
       /\ lastScore[q].value = 100 => r \in wasRisk
       /\ scores[q] = None => /\ risksIdx[r] # None
                              /\ lastScore[q].value = 100 => risksIdx[r] = "yes"
  /\ \A r \in Risks :
       /\ risksIdx[r] = "yes" => r \in wasRisk
       /\ risksIdx[r] # None => \E q \in QrIds : lastScore[q] # None /\ r \in RiskMRNs[q]
       /\ pc # "returned" => store.risk[r] = None
       /\ pc = "returned" /\ QrIds \cap failed = {} => store.risk[r] = risksIdx[r]

CollectorInv == Types /\ Control /\ DataFlow /\ ScoreFlow /\ RiskFlow

-----------------------------------------------------------------------------
(* The operators *)

\* Merging keeps the entries that the batch does not have.
LEMMA MergeKeeps ==
  ASSUME NEW K, NEW V, NEW f \in [K -> V], NEW g \in [K -> V]
  PROVE  /\ Merge(f, g) \in [K -> V]
         /\ \A k \in K : Merge(f, g)[k] = IF g[k] # None THEN g[k] ELSE f[k]
  BY DEF Merge

\* updateScore stores the type, the value and the completion of the score that
\* comes, whichever of its branches decides about the times.
LEMMA UpdateScoreTakes ==
  ASSUME CollectorAssumption, now \in Nat, NEW org \in LakeScores, NEW s \in Scores
  PROVE  /\ updateScore(org, s) \in LakeScores
         /\ updateScore(org, s).type = s.type
         /\ updateScore(org, s).value = s.value
         /\ updateScore(org, s).completion = s.completion
<1>1. s \in [type : {"result", "error"}, value : 0 .. 100, completion : 0 .. 100]
  BY DEF CollectorAssumption
<1>2. CASE org.value = s.value /\ org.type = s.type /\ org.completion = s.completion
  BY <1>2 DEF updateScore
<1>3. CASE ~(org.value = s.value /\ org.type = s.type /\ org.completion = s.completion)
  <2>1. \E m \in Nat, f \in Nat :
          updateScore(org, s) = [type |-> s.type, value |-> s.value, completion |-> s.completion,
                                 modified |-> m, failure |-> f]
    <3>1. org.modified \in Nat /\ org.failure \in Nat /\ 0 \in Nat
      BY DEF LakeScores
    <3>. QED
      BY <1>3, <3>1 DEF updateScore
  <2>. QED
    BY <1>1, <2>1 DEF LakeScores
<1>. QED
  BY <1>2, <1>3

\* A window of scores stores its scores and leaves the others alone.
LEMMA UpdateScoresTakes ==
  ASSUME CollectorAssumption, now \in Nat,
         NEW sc \in [QrIds -> LakeScores], NEW f \in [QrIds -> Scores \cup {None}]
  PROVE  /\ UpdateScores(sc, f) \in [QrIds -> LakeScores]
         /\ \A q \in QrIds : f[q] = None => UpdateScores(sc, f)[q] = sc[q]
         /\ \A q \in QrIds : f[q] # None =>
              /\ UpdateScores(sc, f)[q].type = f[q].type
              /\ UpdateScores(sc, f)[q].value = f[q].value
              /\ UpdateScores(sc, f)[q].completion = f[q].completion
<1>1. ASSUME NEW q \in QrIds, f[q] # None
      PROVE  /\ UpdateScores(sc, f)[q] \in LakeScores
             /\ UpdateScores(sc, f)[q].type = f[q].type
             /\ UpdateScores(sc, f)[q].value = f[q].value
             /\ UpdateScores(sc, f)[q].completion = f[q].completion
  <2>1. UpdateScores(sc, f)[q] = updateScore(sc[q], f[q])
    BY <1>1 DEF UpdateScores
  <2>2. f[q] \in Scores /\ sc[q] \in LakeScores
    BY <1>1
  <2>. QED
    BY <2>1, <2>2, UpdateScoreTakes
<1>2. ASSUME NEW q \in QrIds, f[q] = None PROVE UpdateScores(sc, f)[q] = sc[q]
  BY <1>2 DEF UpdateScores
<1>3. UpdateScores(sc, f) \in [QrIds -> LakeScores]
  <2>1. \A q \in QrIds : UpdateScores(sc, f)[q] \in LakeScores
    BY <1>1, <1>2
  <2>. QED
    BY <2>1 DEF UpdateScores
<1>. QED
  BY <1>1, <1>2, <1>3

\* The fields of the data lake that an update of one of them leaves alone.
LEMMA LakeUpdates ==
  ASSUME NEW s \in Lake
  PROVE  /\ \A x : /\ [s EXCEPT !.data = x].data = x
                   /\ [s EXCEPT !.data = x].score = s.score
                   /\ [s EXCEPT !.data = x].risk = s.risk
         /\ \A x : /\ [s EXCEPT !.score = x].score = x
                   /\ [s EXCEPT !.score = x].data = s.data
                   /\ [s EXCEPT !.score = x].risk = s.risk
         /\ \A x : /\ [s EXCEPT !.risk = x].risk = x
                   /\ [s EXCEPT !.risk = x].data = s.data
                   /\ [s EXCEPT !.risk = x].score = s.score
         /\ \A x \in [Data -> Values \cup {Removed, None}] : [s EXCEPT !.data = x] \in Lake
         /\ \A x \in [QrIds -> LakeScores] : [s EXCEPT !.score = x] \in Lake
         /\ \A x \in [Risks -> {None, "no", "yes"}] : [s EXCEPT !.risk = x] \in Lake
         /\ s.data \in [Data -> Values \cup {Removed, None}]
         /\ s.score \in [QrIds -> LakeScores]
         /\ s.risk \in [Risks -> {None, "no", "yes"}]
  BY DEF Lake

\* Storing results writes those in S and keeps the rest.
LEMMA WithResultsTakes ==
  ASSUME batch \in [Data -> Values \cup {None}], NEW S,
         NEW data \in [Data -> Values \cup {Removed, None}]
  PROVE  /\ WithResults(data, S) \in [Data -> Values \cup {Removed, None}]
         /\ \A d \in Data : d \in S => WithResults(data, S)[d] = toResult(batch[d])
         /\ \A d \in Data : d \notin S => WithResults(data, S)[d] = data[d]
  BY DEF WithResults, toResult

\* The risks that a drain decides.
LEMMA ConsumeRiskTakes ==
  ASSUME CollectorAssumption, NEW idx \in [Risks -> {None, "no", "yes"}],
         NEW f \in [QrIds -> Scores \cup {None}]
  PROVE  /\ consumeRisk(idx, f) \in [Risks -> {None, "no", "yes"}]
         /\ \A r \in Risks, q \in QrIds : f[q] # None /\ r \in RiskMRNs[q] =>
              /\ consumeRisk(idx, f)[r] # None
              /\ f[q].value = 100 => consumeRisk(idx, f)[r] = "yes"
         /\ \A r \in Risks : /\ idx[r] # None => consumeRisk(idx, f)[r] # None
                             /\ idx[r] = "yes" => consumeRisk(idx, f)[r] = "yes"
         /\ \A r \in Risks : consumeRisk(idx, f)[r] = "yes" =>
              idx[r] = "yes" \/ \E q \in QrIds : f[q] # None /\ r \in RiskMRNs[q] /\ f[q].value = 100
         /\ \A r \in Risks : consumeRisk(idx, f)[r] # None =>
              idx[r] # None \/ \E q \in QrIds : f[q] # None /\ r \in RiskMRNs[q]
<1>1. Keys(f) = {q \in QrIds : f[q] # None}
  BY DEF Keys
<1>2. None # "no" /\ None # "yes"
  BY DEF CollectorAssumption
<1>. QED
  BY <1>1, <1>2 DEF consumeRisk

\* The windows that a drain leaves.
LEMMA DrainWindows ==
  ASSUME Types, scores \in [QrIds -> Scores \cup {None}]
  PROVE  /\ KeptScores(scores) \in [QrIds -> Scores \cup {None}]
         /\ \A q \in QrIds : KeptScores(scores)[q] = IF Kept(q) THEN scores[q] ELSE None
         /\ Keys(KeptScores(scores)) # {} <=> \E q \in QrIds : Kept(q) /\ scores[q] # None
<1>1. \A q \in QrIds : KeptScores(scores)[q] = IF Kept(q) THEN scores[q] ELSE None
  BY DEF KeptScores, Kept
<1>2. KeptScores(scores) \in [QrIds -> Scores \cup {None}]
  BY DEF KeptScores
<1>. QED
  BY <1>1, <1>2 DEF Keys

\* A batch the executor sinks is a function of all the keys.
LEMMA BatchesAreFunctions ==
  ASSUME NEW K, NEW V, NEW f \in Batches(K, V)
  PROVE  f \in [K -> V \cup {None}] /\ Keys(f) = {k \in K : f[k] # None}
  BY DEF Batches, Keys

\* A chunk that is sent: all of it is stored and forwarded, or a part of it is
\* stored, nothing reaches the server, and the whole chunk counts as failed.
LEMMA SendChunkTakes ==
  ASSUME NEW chunk \in SUBSET Data, SendChunk(chunk)
  PROVE  \E S \in SUBSET chunk :
           /\ store' = [store EXCEPT !.data = WithResults(store.data, S)]
           /\ \/ S = chunk /\ server' = Upstream(chunk) /\ failed' = failed \ chunk
              \/ server' = server /\ failed' = failed \cup chunk
<1>1. Written(chunk) \subseteq chunk
  BY DEF Written
<1>2. CASE /\ store' = [store EXCEPT !.data = WithResults(store.data, chunk)]
           /\ \/ server' = Upstream(chunk) /\ failed' = failed \ chunk
              \/ server' = server /\ failed' = failed \cup chunk
  BY <1>2
<1>3. CASE /\ \E S \in SUBSET (Written(chunk) \ Unknown) :
                 store' = [store EXCEPT !.data = WithResults(store.data, S)]
           /\ server' = server
           /\ failed' = failed \cup chunk
  BY <1>1, <1>3
<1>. QED
  BY <1>2, <1>3 DEF SendChunk

-----------------------------------------------------------------------------
(* The types *)

\* Everything is empty at the start.
LEMMA InitTypes == CollectorAssumption /\ Init => Types
<1>. SUFFICES ASSUME CollectorAssumption, Init PROVE Types
  OBVIOUS
<1>1. EmptyScore \in LakeScores
  BY DEF EmptyScore, LakeScores
<1>2. store \in Lake
  BY <1>1 DEF Init, Lake, NoData
<1>3. server \in Remote
  BY DEF Init, Remote, NoData
<1>4. TypeOK
  <2>1. now \in 1 .. MaxTime /\ sinks \in 0 .. MaxSinks
    BY DEF Init, CollectorAssumption
  <2>2. windows \in Seq([QrIds -> Scores \cup {None}])
    BY DEF Init
  <2>. QED
    BY <2>1, <2>2 DEF Init, TypeOK, NoData, NoScores
<1>. QED
  BY <1>2, <1>3, <1>4 DEF Types, Init, NoData, NoScores

\* Every step keeps the types, those of the data lake and the server included.
LEMMA StepTypes == CollectorAssumption /\ Types /\ [Next]_vars => Types'
<1>. SUFFICES ASSUME CollectorAssumption, Types, [Next]_vars PROVE Types'
  OBVIOUS
<1>. USE DEF Types, TypeOK, buffers, sunk, local
<1>1. now \in Nat
  BY DEF CollectorAssumption
<1>2. NoData \in [Data -> Values \cup {None}] /\ NoScores \in [QrIds -> Scores \cup {None}]
  BY DEF NoData, NoScores
<1>3. ASSUME NEW f \in Batches(Data, Values), SinkData(f) PROVE Types'
  <2>1. Merge(results, f) \in [Data -> Values \cup {None}] /\ Merge(lastData, f) \in [Data -> Values \cup {None}]
    BY MergeKeeps, BatchesAreFunctions
  <2>2. sinks + 1 \in 0 .. MaxSinks
    BY <1>3 DEF CollectorAssumption, SinkData
  <2>. QED
    BY <1>3, <2>1, <2>2 DEF SinkData
<1>4. ASSUME NEW f \in Batches(QrIds, Scores), SinkScore(f) PROVE Types'
  <2>1. Merge(scores, f) \in [QrIds -> Scores \cup {None}] /\ Merge(lastScore, f) \in [QrIds -> Scores \cup {None}]
    BY MergeKeeps, BatchesAreFunctions
  <2>2. sinks + 1 \in 0 .. MaxSinks
    BY <1>4 DEF CollectorAssumption, SinkScore
  <2>. QED
    BY <1>4, <2>1, <2>2 DEF SinkScore
<1>5. CASE FlushAndStop
  BY <1>5 DEF FlushAndStop
<1>6. CASE FlushReturns
  BY <1>6 DEF FlushReturns
<1>7. CASE Drain
  <2>1. consumeRisk(risksIdx, scores) \in [Risks -> {None, "no", "yes"}]
    BY ConsumeRiskTakes
  <2>2. windows' \in Seq([QrIds -> Scores \cup {None}])
    BY <1>7, DrainWindows DEF Drain
  <2>. QED
    BY <1>2, <1>7, <2>1, <2>2 DEF Drain
<1>8. ASSUME NEW chunk \in SUBSET Data, SendChunk(chunk) PROVE Types'
  <2>1. \A S : [store EXCEPT !.data = WithResults(store.data, S)] \in Lake
    BY WithResultsTakes, LakeUpdates
  <2>2. Upstream(chunk) \in Remote
    BY WithResultsTakes DEF Upstream, Remote
  <2>3. batch' \in [Data -> Values \cup {None}]
    BY <1>8 DEF SendChunk
  <2>4. store' \in Lake /\ server' \in Remote /\ failed' \subseteq Data \cup QrIds
    <3>1. PICK S \in SUBSET chunk :
            /\ store' = [store EXCEPT !.data = WithResults(store.data, S)]
            /\ \/ S = chunk /\ server' = Upstream(chunk) /\ failed' = failed \ chunk
               \/ server' = server /\ failed' = failed \cup chunk
      BY <1>8, SendChunkTakes
    <3>. QED
      BY <2>1, <2>2, <3>1
  <2>. QED
    BY <1>8, <2>3, <2>4 DEF SendChunk
<1>9. CASE DataSent
  BY <1>9 DEF DataSent
<1>10. CASE SendNothing
  BY <1>10 DEF SendNothing
<1>11. CASE SendScores
  BY <1>11 DEF SendScores
<1>12. CASE StoreWindow
  <2>1. Head(windows) \in [QrIds -> Scores \cup {None}] /\ windows' \in Seq([QrIds -> Scores \cup {None}])
    BY <1>12 DEF StoreWindow
  <2>2. store' \in Lake
    BY <1>1, <1>12, <2>1, UpdateScoresTakes, LakeUpdates DEF StoreWindow
  <2>. QED
    BY <1>12, <2>1, <2>2 DEF StoreWindow
<1>13. CASE StoreRisks
  <2>1. UpdateRisks(store.risk, Risks) \in [Risks -> {None, "no", "yes"}]
    BY LakeUpdates DEF UpdateRisks
  <2>2. store' \in Lake
    BY <1>13, <2>1, LakeUpdates DEF StoreRisks
  <2>3. server' \in Remote
    BY <1>13 DEF StoreRisks, Remote
  <2>. QED
    BY <1>13, <2>2, <2>3 DEF StoreRisks
<1>14. CASE StoreFails
  <2>1. ASSUME windows # <<>>, NEW S \in SUBSET QrIds
        PROVE  [store EXCEPT !.score = UpdateScores(store.score, [q \in QrIds |-> IF q \in S THEN Head(windows)[q] ELSE None])] \in Lake
    <3>1. Head(windows) \in [QrIds -> Scores \cup {None}]
      BY <2>1
    <3>2. [q \in QrIds |-> IF q \in S THEN Head(windows)[q] ELSE None] \in [QrIds -> Scores \cup {None}]
      BY <3>1
    <3>. QED
      BY <1>1, <3>2, UpdateScoresTakes, LakeUpdates
  <2>2. ASSUME NEW R \in SUBSET Risks PROVE [store EXCEPT !.risk = UpdateRisks(store.risk, R)] \in Lake
    <3>1. UpdateRisks(store.risk, R) \in [Risks -> {None, "no", "yes"}]
      BY LakeUpdates DEF UpdateRisks
    <3>. QED
      BY <3>1, LakeUpdates
  <2>3. store' \in Lake
    BY <1>14, <2>1, <2>2 DEF StoreFails
  <2>. QED
    BY <1>14, <2>3 DEF StoreFails
<1>15. CASE TimerFires
  BY <1>15 DEF TimerFires, CollectorAssumption
<1>16. CASE StopTaken
  BY <1>16 DEF StopTaken
<1>17. CASE UNCHANGED vars
  BY <1>17 DEF vars
<1>. QED
  BY <1>3, <1>4, <1>5, <1>6, <1>7, <1>8, <1>9, <1>10, <1>11, <1>12, <1>13, <1>14, <1>15, <1>16, <1>17
     DEF Next, Loop

-----------------------------------------------------------------------------
(* The places of the goroutine *)

\* The executor does not sink any more when the goroutine makes its last round.
LEMMA StepControl == CollectorAssumption /\ Types /\ Control /\ RiskFlow /\ [Next]_vars => Control'
<1>. SUFFICES ASSUME CollectorAssumption, Types, Control, RiskFlow, [Next]_vars PROVE Control'
  OBVIOUS
<1>. USE DEF Types, TypeOK, Control, buffers, sunk, local
<1>1. ASSUME NEW f \in Batches(Data, Values), SinkData(f) PROVE Control'
  BY <1>1 DEF SinkData
<1>2. ASSUME NEW f \in Batches(QrIds, Scores), SinkScore(f) PROVE Control'
  BY <1>2 DEF SinkScore
<1>3. CASE FlushAndStop
  BY <1>3 DEF FlushAndStop
<1>4. CASE FlushReturns
  BY <1>4 DEF FlushReturns
<1>5. CASE Drain
  <2>1. windows' # <<>> => QrIds # {}
    BY <1>5, DrainWindows DEF Drain
  <2>. QED
    BY <1>5, <2>1 DEF Drain
<1>6. ASSUME NEW chunk \in SUBSET Data, SendChunk(chunk) PROVE Control'
  <2>1. server'.last = server.last
    BY <1>6 DEF SendChunk, Upstream, Remote
  <2>. QED
    BY <1>6, <2>1 DEF SendChunk
<1>7. CASE DataSent
  <2>1. batch = NoData
    BY <1>7 DEF DataSent, NoData, Keys
  <2>. QED
    BY <1>7, <2>1 DEF DataSent
<1>8. CASE SendNothing
  BY <1>8 DEF SendNothing, ToSend
<1>9. CASE SendScores
  BY <1>9 DEF SendScores, ToSend, RiskFlow
<1>10. CASE StoreWindow
  BY <1>10 DEF StoreWindow
<1>11. CASE StoreRisks
  BY <1>11 DEF StoreRisks
<1>12. CASE StoreFails
  BY <1>12 DEF StoreFails
<1>13. CASE TimerFires
  BY <1>13 DEF TimerFires
<1>14. CASE StopTaken
  BY <1>14 DEF StopTaken
<1>15. CASE UNCHANGED vars
  BY <1>15 DEF vars
<1>. QED
  BY <1>1, <1>2, <1>3, <1>4, <1>5, <1>6, <1>7, <1>8, <1>9, <1>10, <1>11, <1>12, <1>13, <1>14, <1>15
     DEF Next, Loop

-----------------------------------------------------------------------------
(* The results *)

\* A result is in the map, in the batch or stored, also when a second one of
\* the same id arrives between the drain and the request.
LEMMA StepDataFlow ==
  CollectorAssumption /\ Types /\ Control /\ DataFlow /\ [Next]_vars => DataFlow'
<1>. SUFFICES ASSUME CollectorAssumption, Types, Control, DataFlow, [Next]_vars PROVE DataFlow'
  OBVIOUS
<1>. USE DEF Types, TypeOK, buffers, sunk, local
<1>1. ASSUME NEW f \in Batches(Data, Values), SinkData(f) PROVE DataFlow'
  <2>a. f \in [Data -> Values \cup {None}]
    BY BatchesAreFunctions
  <2>b. \A d \in Data : /\ Merge(results, f)[d] = IF f[d] # None THEN f[d] ELSE results[d]
                       /\ Merge(lastData, f)[d] = IF f[d] # None THEN f[d] ELSE lastData[d]
    BY <2>a DEF Merge
  <2>1. ASSUME NEW d \in Data, lastData'[d] # None PROVE DataAt(d)'
    <3>1. CASE f[d] # None
      <4>1. results'[d] = f[d] /\ lastData'[d] = f[d]
        BY <1>1, <2>b, <3>1 DEF SinkData
      <4>. QED
        BY <3>1, <4>1 DEF DataAt
    <3>2. CASE f[d] = None
      <4>1. results'[d] = results[d] /\ lastData'[d] = lastData[d]
        BY <1>1, <2>b, <3>2 DEF SinkData
      <4>2. d \in failed' <=> d \in failed
        BY <1>1, <3>2, BatchesAreFunctions DEF SinkData
      <4>3. DataAt(d)
        BY <2>1, <4>1 DEF DataFlow
      <4>. QED
        BY <1>1, <4>1, <4>2, <4>3 DEF SinkData, DataAt, DataStored
    <3>. QED
      BY <3>1, <3>2
  <2>. QED
    BY <2>1 DEF DataFlow
<1>2. CASE Drain
  <2>1. ASSUME NEW d \in Data, lastData'[d] # None PROVE DataAt(d)'
    <3>1. batch'[d] = results[d] /\ results'[d] = None /\ batch[d] = None
      BY <1>2 DEF Drain, NoData, Control
    <3>2. DataAt(d)
      BY <1>2, <2>1 DEF DataFlow, Drain
    <3>. QED
      BY <1>2, <3>1, <3>2 DEF Drain, DataAt, DataStored
  <2>. QED
    BY <2>1 DEF DataFlow
<1>3. ASSUME NEW chunk \in SUBSET Data, SendChunk(chunk) PROVE DataFlow'
  <2>1. PICK S \in SUBSET chunk :
           /\ store' = [store EXCEPT !.data = WithResults(store.data, S)]
           /\ \/ S = chunk /\ server' = Upstream(chunk) /\ failed' = failed \ chunk
              \/ server' = server /\ failed' = failed \cup chunk
    BY <1>3, SendChunkTakes
  <2>2. store'.data = WithResults(store.data, S)
    BY <2>1, LakeUpdates
  <2>3. Upstream(chunk).data = WithResults(server.data, chunk) /\ server.data \in [Data -> Values \cup {Removed, None}]
    BY DEF Upstream, Remote
  <2>4. ASSUME NEW d \in Data, lastData'[d] # None PROVE DataAt(d)'
    <3>1. DataAt(d) /\ lastData'[d] = lastData[d] /\ results'[d] = results[d]
      BY <1>3, <2>4 DEF DataFlow, SendChunk
    <3>2. CASE d \in chunk
      <4>1. batch'[d] = None /\ batch[d] # None
        BY <1>3, <3>2 DEF SendChunk, Keys
      <4>2. CASE S = chunk /\ server' = Upstream(chunk) /\ failed' = failed \ chunk
        <5>1. store'.data[d] = toResult(batch[d]) /\ server'.data[d] = toResult(batch[d])
          <6>1. store.data \in [Data -> Values \cup {Removed, None}]
            BY LakeUpdates
          <6>2. WithResults(store.data, chunk)[d] = toResult(batch[d])
            BY <3>2, <6>1, WithResultsTakes
          <6>3. WithResults(server.data, chunk)[d] = toResult(batch[d])
            BY <2>3, <3>2, WithResultsTakes
          <6>. QED
            BY <2>2, <2>3, <4>2, <6>2, <6>3
        <5>. QED
          BY <3>1, <4>1, <5>1 DEF DataAt, DataStored, toResult
      <4>3. CASE failed' = failed \cup chunk
        BY <3>1, <3>2, <4>1, <4>3 DEF DataAt
      <4>. QED
        BY <2>1, <4>2, <4>3
    <3>3. CASE d \notin chunk
      <4>1. batch'[d] = batch[d] /\ (d \in failed' <=> d \in failed)
        BY <1>3, <2>1, <3>3 DEF SendChunk
      <4>2. store'.data[d] = store.data[d]
        BY <2>1, <2>2, <3>3, WithResultsTakes, LakeUpdates
      <4>3. server'.data[d] = server.data[d]
        BY <2>1, <2>3, <3>3, WithResultsTakes
      <4>. QED
        BY <3>1, <4>1, <4>2, <4>3 DEF DataAt, DataStored, toResult
    <3>. QED
      BY <3>2, <3>3
  <2>. QED
    BY <2>4 DEF DataFlow
<1>4. CASE StoreWindow
  <2>1. store'.data = store.data
    BY <1>4, LakeUpdates DEF StoreWindow
  <2>. QED
    BY <1>4, <2>1 DEF StoreWindow, DataFlow, DataAt, DataStored, toResult
<1>5. CASE StoreRisks
  <2>1. store'.data = store.data
    BY <1>5, LakeUpdates DEF StoreRisks
  <2>2. server'.data = server.data
    BY <1>5 DEF StoreRisks, Remote
  <2>. QED
    BY <1>5, <2>1, <2>2 DEF StoreRisks, DataFlow, DataAt, DataStored, toResult
<1>6. CASE StoreFails
  <2>1. store'.data = store.data
    <3>1. CASE \E x : store' = [store EXCEPT !.score = x]
      <4>1. PICK x : store' = [store EXCEPT !.score = x]
        BY <3>1
      <4>. QED
        BY <4>1, LakeUpdates
    <3>2. CASE \E x : store' = [store EXCEPT !.risk = x]
      <4>1. PICK x : store' = [store EXCEPT !.risk = x]
        BY <3>2
      <4>. QED
        BY <4>1, LakeUpdates
    <3>. QED
      BY <1>6, <3>1, <3>2 DEF StoreFails
  <2>2. failed \subseteq failed'
    BY <1>6 DEF StoreFails
  <2>. QED
    BY <1>6, <2>1, <2>2 DEF StoreFails, DataFlow, DataAt, DataStored, toResult
<1>7. CASE UNCHANGED <<results, batch, lastData, store, server, failed>>
  BY <1>7 DEF DataFlow, DataAt, DataStored, toResult
<1>. QED
  BY <1>1, <1>2, <1>3, <1>4, <1>5, <1>6, <1>7
     DEF Next, Loop, SinkScore, FlushAndStop, FlushReturns, DataSent, SendNothing, SendScores, TimerFires, StopTaken, vars

-----------------------------------------------------------------------------
(* The scores *)

\* What the head of the windows becomes when the rest is stored later: the
\* newest window that has q is still the newest one, or it was the head.
LEMMA HeadWindow ==
  ASSUME windows \in Seq([QrIds -> Scores \cup {None}]), windows # <<>>,
         windows' = Tail(windows), NEW q \in QrIds, lastScore' = lastScore, InWindow(q)
  PROVE  InWindow(q)' \/ (NoWindow(q)' /\ Head(windows)[q] = lastScore[q])
<1>1. PICK i \in 1 .. Len(windows) :
        /\ windows[i][q] = lastScore[q]
        /\ \A j \in 1 .. Len(windows) : j > i => windows[j][q] = None
  BY DEF InWindow
<1>2. /\ Len(windows') = Len(windows) - 1
      /\ \A j \in 1 .. Len(windows') : windows'[j] = windows[j + 1]
      /\ Len(windows) \in Nat
  OBVIOUS
<1>3. CASE i = 1
  <2>1. ASSUME NEW j \in 1 .. Len(windows') PROVE windows'[j][q] = None
    <3>1. j + 1 \in 1 .. Len(windows) /\ j + 1 > i
      BY <1>2, <1>3
    <3>. QED
      BY <1>1, <1>2, <3>1
  <2>2. Head(windows)[q] = lastScore[q]
    BY <1>1, <1>3
  <2>. QED
    BY <2>1, <2>2 DEF NoWindow
<1>4. CASE i > 1
  <2>1. i - 1 \in 1 .. Len(windows')
    BY <1>2, <1>4
  <2>2. windows'[i - 1] = windows[i]
    BY <1>2, <1>4, <2>1
  <2>3. ASSUME NEW j \in 1 .. Len(windows'), j > i - 1 PROVE windows'[j][q] = None
    <3>1. j + 1 \in 1 .. Len(windows) /\ j + 1 > i
      BY <1>2, <2>3
    <3>. QED
      BY <1>1, <1>2, <3>1
  <2>. QED
    BY <1>1, <2>1, <2>2, <2>3 DEF InWindow
<1>. QED
  BY <1>3, <1>4

\* No window has q: neither the head nor the rest does.
LEMMA HeadHasNone ==
  ASSUME windows \in Seq([QrIds -> Scores \cup {None}]), windows # <<>>,
         windows' = Tail(windows), NEW q \in QrIds, NoWindow(q)
  PROVE  NoWindow(q)' /\ Head(windows)[q] = None
<1>1. /\ Len(windows') = Len(windows) - 1
      /\ \A j \in 1 .. Len(windows') : windows'[j] = windows[j + 1]
      /\ Len(windows) \in Nat /\ Len(windows) > 0
  OBVIOUS
<1>2. ASSUME NEW j \in 1 .. Len(windows') PROVE windows'[j][q] = None
  <2>1. j + 1 \in 1 .. Len(windows)
    BY <1>1
  <2>. QED
    BY <1>1, <2>1 DEF NoWindow
<1>3. Head(windows)[q] = None
  BY <1>1 DEF NoWindow
<1>. QED
  BY <1>2, <1>3 DEF NoWindow

\* A window that is added has the last score of q, or leaves q as it was.
LEMMA LastWindow ==
  ASSUME windows \in Seq([QrIds -> Scores \cup {None}]), NEW w \in [QrIds -> Scores \cup {None}],
         windows' = Append(windows, w), lastScore' = lastScore, NEW q \in QrIds
  PROVE  /\ w[q] = lastScore[q] => InWindow(q)'
         /\ w[q] = None /\ InWindow(q) => InWindow(q)'
         /\ w[q] = None /\ NoWindow(q) => NoWindow(q)'
<1>1. /\ Len(windows') = Len(windows) + 1 /\ Len(windows) \in Nat
      /\ windows'[Len(windows) + 1] = w
      /\ \A j \in 1 .. Len(windows) : windows'[j] = windows[j]
  OBVIOUS
<1>2. \A j \in 1 .. Len(windows') : j \in 1 .. Len(windows) \/ j = Len(windows) + 1
  BY <1>1
<1>3. ASSUME w[q] = lastScore[q] PROVE InWindow(q)'
  <2>1. Len(windows) + 1 \in 1 .. Len(windows')
    BY <1>1
  <2>2. \A j \in 1 .. Len(windows') : ~(j > Len(windows) + 1)
    BY <1>1
  <2>. QED
    BY <1>1, <1>3, <2>1, <2>2 DEF InWindow
<1>4. ASSUME w[q] = None, InWindow(q) PROVE InWindow(q)'
  <2>1. PICK i \in 1 .. Len(windows) :
          /\ windows[i][q] = lastScore[q]
          /\ \A j \in 1 .. Len(windows) : j > i => windows[j][q] = None
    BY <1>4 DEF InWindow
  <2>2. i \in 1 .. Len(windows') /\ windows'[i][q] = lastScore[q]
    BY <1>1, <2>1
  <2>3. ASSUME NEW j \in 1 .. Len(windows'), j > i PROVE windows'[j][q] = None
    <3>1. CASE j \in 1 .. Len(windows)
      BY <1>1, <2>1, <2>3, <3>1
    <3>2. CASE j = Len(windows) + 1
      BY <1>1, <1>4, <3>2
    <3>. QED
      BY <1>2, <3>1, <3>2
  <2>. QED
    BY <2>2, <2>3 DEF InWindow
<1>5. ASSUME w[q] = None, NoWindow(q) PROVE NoWindow(q)'
  <2>1. ASSUME NEW j \in 1 .. Len(windows') PROVE windows'[j][q] = None
    <3>1. CASE j \in 1 .. Len(windows)
      BY <1>1, <1>5, <3>1 DEF NoWindow
    <3>2. CASE j = Len(windows) + 1
      BY <1>1, <1>5, <3>2
    <3>. QED
      BY <1>2, <3>1, <3>2
  <2>. QED
    BY <2>1 DEF NoWindow
<1>. QED
  BY <1>3, <1>4, <1>5

\* The same when one id is looked at: sinking, draining and storing move its
\* last score on, and a score that came earlier never replaces it.
LEMMA StepScoreFlow ==
  CollectorAssumption /\ Types /\ Control /\ ScoreFlow /\ [Next]_vars => ScoreFlow'
<1>. SUFFICES ASSUME CollectorAssumption, Types, Control, ScoreFlow, [Next]_vars PROVE ScoreFlow'
  OBVIOUS
<1>. USE DEF Types, TypeOK, buffers, sunk, local
<1>a. now \in Nat
  BY DEF CollectorAssumption
<1>1. ASSUME NEW f \in Batches(QrIds, Scores), SinkScore(f) PROVE ScoreFlow'
  <2>1. f \in [QrIds -> Scores \cup {None}]
    BY BatchesAreFunctions
  <2>2. \A q \in QrIds : /\ Merge(scores, f)[q] = IF f[q] # None THEN f[q] ELSE scores[q]
                        /\ Merge(lastScore, f)[q] = IF f[q] # None THEN f[q] ELSE lastScore[q]
    BY <2>1 DEF Merge
  <2>3. ASSUME NEW q \in QrIds
        PROVE  /\ scores'[q] # None => lastScore'[q] # None
               /\ lastScore'[q] # None => ScoreAt(q)'
    <3>1. CASE f[q] # None
      <4>1. scores'[q] = f[q] /\ lastScore'[q] = f[q]
        BY <1>1, <2>2, <3>1 DEF SinkScore
      <4>. QED
        BY <3>1, <4>1 DEF ScoreAt
    <3>2. CASE f[q] = None
      <4>1. scores'[q] = scores[q] /\ lastScore'[q] = lastScore[q]
        BY <1>1, <2>2, <3>2 DEF SinkScore
      <4>2. UNCHANGED <<windows, store, pc, failed>>
        BY <1>1 DEF SinkScore
      <4>3. /\ scores[q] # None => lastScore[q] # None
            /\ lastScore[q] # None => ScoreAt(q)
        BY DEF ScoreFlow
      <4>4. (InWindow(q) => InWindow(q)') /\ (NoWindow(q) => NoWindow(q)') /\ (ScoreStored(q) => ScoreStored(q)')
        BY <4>1, <4>2 DEF InWindow, NoWindow, ScoreStored
      <4>. QED
        BY <4>1, <4>2, <4>3, <4>4 DEF ScoreAt
    <3>. QED
      BY <3>1, <3>2
  <2>. QED
    BY <2>3 DEF ScoreFlow
<1>2. CASE Drain
  <2>1. ASSUME NEW q \in QrIds
        PROVE  /\ scores'[q] # None => lastScore'[q] # None
               /\ lastScore'[q] # None => ScoreAt(q)'
    <3>1. scores'[q] = None /\ lastScore' = lastScore /\ store' = store /\ pc' # "returned" /\ pc # "returned"
      BY <1>2 DEF Drain, NoScores
    <3>2. ASSUME lastScore[q] # None, Kept(q) PROVE InWindow(q)' \/ (NoWindow(q)' /\ ScoreStored(q)')
      <4>1. ScoreAt(q)
        BY <3>2 DEF ScoreFlow
      <4>2. KeptScores(scores)[q] = scores[q] /\ KeptScores(scores) \in [QrIds -> Scores \cup {None}]
        BY <3>2, DrainWindows
      <4>3. CASE windows' = Append(windows, KeptScores(scores))
        <5>1. CASE scores[q] # None
          BY <3>1, <4>1, <4>2, <4>3, <5>1, LastWindow DEF ScoreAt
        <5>2. CASE scores[q] = None
          <6>1. InWindow(q)' \/ (NoWindow(q)' /\ ScoreStored(q))
            BY <3>1, <3>2, <4>1, <4>2, <4>3, <5>2, LastWindow DEF ScoreAt
          <6>. QED
            BY <3>1, <6>1 DEF ScoreStored
        <5>. QED
          BY <5>1, <5>2
      <4>4. CASE windows' = windows /\ Keys(KeptScores(scores)) = {}
        <5>1. scores[q] = None
          BY <3>2, <4>4, DrainWindows
        <5>2. InWindow(q) \/ (NoWindow(q) /\ ScoreStored(q))
          BY <3>1, <3>2, <4>1, <5>1 DEF ScoreAt
        <5>. QED
          BY <3>1, <4>4, <5>2 DEF InWindow, NoWindow, ScoreStored
      <4>. QED
        BY <1>2, <4>3, <4>4 DEF Drain
    <3>. QED
      BY <3>1, <3>2 DEF ScoreAt, Kept
  <2>. QED
    BY <2>1 DEF ScoreFlow
<1>3. CASE StoreWindow
  <2>1. Head(windows) \in [QrIds -> Scores \cup {None}] /\ windows # <<>> /\ windows' = Tail(windows)
    BY <1>3 DEF StoreWindow
  <2>2. store'.score = UpdateScores(store.score, Head(windows)) /\ store.score \in [QrIds -> LakeScores]
    BY <1>3, LakeUpdates DEF StoreWindow
  <2>3. UNCHANGED <<scores, lastScore, pc, failed>> /\ pc # "returned"
    BY <1>3 DEF StoreWindow
  <2>4. ASSUME NEW q \in QrIds, lastScore[q] # None PROVE ScoreAt(q)'
    <3>1. ScoreAt(q)
      BY <2>4 DEF ScoreFlow
    <3>2. CASE InWindow(q)
      <4>1. CASE InWindow(q)'
        BY <2>3, <3>1, <4>1 DEF ScoreAt
      <4>2. CASE NoWindow(q)' /\ Head(windows)[q] = lastScore[q]
        <5>1. ScoreStored(q)'
          <6>1. Head(windows)[q] # None /\ lastScore'[q] = Head(windows)[q]
            BY <2>3, <2>4, <4>2
          <6>2. /\ UpdateScores(store.score, Head(windows))[q].type = Head(windows)[q].type
                /\ UpdateScores(store.score, Head(windows))[q].value = Head(windows)[q].value
                /\ UpdateScores(store.score, Head(windows))[q].completion = Head(windows)[q].completion
            <7>1. store.score \in [QrIds -> LakeScores] /\ Head(windows) \in [QrIds -> Scores \cup {None}]
              BY <2>1, <2>2
            <7>2. Head(windows)[q] # None
              BY <6>1
            <7>. QED
              BY <1>a, <7>1, <7>2, UpdateScoresTakes
          <6>. QED
            BY <2>2, <6>1, <6>2 DEF ScoreStored
        <5>. QED
          BY <2>3, <3>1, <4>2, <5>1 DEF ScoreAt
      <4>. QED
        BY <2>1, <2>3, <3>2, <4>1, <4>2, HeadWindow
    <3>3. CASE NoWindow(q) /\ ScoreStored(q)
      <4>1. NoWindow(q)' /\ Head(windows)[q] = None
        BY <2>1, <3>3, HeadHasNone
      <4>2. store'.score[q] = store.score[q]
        BY <1>a, <2>1, <2>2, <4>1, UpdateScoresTakes
      <4>3. ScoreStored(q)'
        BY <2>3, <3>3, <4>2 DEF ScoreStored
      <4>. QED
        BY <2>3, <3>1, <4>1, <4>3 DEF ScoreAt
    <3>4. CASE scores[q] # None \/ ~Kept(q)
      BY <2>3, <3>1, <3>4 DEF ScoreAt, Kept
    <3>. QED
      BY <2>3, <3>1, <3>2, <3>3, <3>4 DEF ScoreAt
  <2>. QED
    BY <2>3, <2>4 DEF ScoreFlow
<1>4. CASE StoreFails
  <2>1. UNCHANGED <<scores, lastScore, windows>> /\ pc' = "returned" /\ QrIds \subseteq failed'
    BY <1>4 DEF StoreFails
  <2>2. ASSUME NEW q \in QrIds, lastScore[q] # None PROVE ScoreAt(q)'
    <3>1. ScoreAt(q) /\ (InWindow(q) => InWindow(q)') /\ (NoWindow(q) => NoWindow(q)')
      BY <2>1, <2>2 DEF ScoreFlow, InWindow, NoWindow
    <3>2. q \in failed' /\ pc' = "returned"
      BY <2>1
    <3>. QED
      BY <2>1, <3>1, <3>2 DEF ScoreAt, Kept
  <2>. QED
    BY <2>1, <2>2 DEF ScoreFlow
<1>5. ASSUME UNCHANGED <<scores, lastScore, windows>>, store'.score = store.score,
             pc = "returned" => pc' = "returned" /\ failed' = failed
      PROVE  ScoreFlow'
  <2>1. ASSUME NEW q \in QrIds, lastScore[q] # None PROVE ScoreAt(q)'
    <3>1. /\ ScoreAt(q)
          /\ InWindow(q) => InWindow(q)'
          /\ NoWindow(q) => NoWindow(q)'
          /\ ScoreStored(q) => ScoreStored(q)'
      BY <1>5, <2>1 DEF ScoreFlow, InWindow, NoWindow, ScoreStored
    <3>. QED
      BY <1>5, <3>1 DEF ScoreAt, Kept
  <2>. QED
    BY <1>5, <2>1 DEF ScoreFlow
<1>6. ASSUME NEW f \in Batches(Data, Values), SinkData(f) PROVE ScoreFlow'
  BY <1>5, <1>6 DEF SinkData, Control
<1>7. ASSUME NEW chunk \in SUBSET Data, SendChunk(chunk) PROVE ScoreFlow'
  <2>1. store'.score = store.score
    <3>1. PICK S \in SUBSET chunk : store' = [store EXCEPT !.data = WithResults(store.data, S)]
      BY <1>7, SendChunkTakes
    <3>. QED
      BY <3>1, LakeUpdates
  <2>. QED
    BY <1>5, <1>7, <2>1 DEF SendChunk
<1>8. CASE StoreRisks
  <2>1. store'.score = store.score
    BY <1>8, LakeUpdates DEF StoreRisks
  <2>. QED
    BY <1>5, <1>8, <2>1 DEF StoreRisks
<1>9. CASE FlushAndStop \/ FlushReturns \/ DataSent \/ SendNothing \/ SendScores \/ TimerFires \/ StopTaken \/ UNCHANGED vars
  BY <1>5, <1>9 DEF FlushAndStop, FlushReturns, DataSent, SendNothing, SendScores, TimerFires, StopTaken, vars
<1>. QED
  BY <1>1, <1>2, <1>3, <1>4, <1>6, <1>7, <1>8, <1>9 DEF Next, Loop

-----------------------------------------------------------------------------
(* The risks *)

\* A risk that a score shows is counted when the score is sunk and decided when
\* it is drained, and the last request stores what was decided.
LEMMA StepRiskFlow ==
  CollectorAssumption /\ Types /\ Control /\ ScoreFlow /\ RiskFlow /\ [Next]_vars => RiskFlow'
<1>. SUFFICES ASSUME CollectorAssumption, Types, Control, ScoreFlow, RiskFlow, [Next]_vars PROVE RiskFlow'
  OBVIOUS
<1>. USE DEF Types, TypeOK, buffers, sunk, local
<1>a. RiskMRNs \in [QrIds -> SUBSET Risks]
  BY DEF CollectorAssumption
<1>1. ASSUME NEW f \in Batches(QrIds, Scores), SinkScore(f) PROVE RiskFlow'
  <2>1. f \in [QrIds -> Scores \cup {None}] /\ Keys(f) = {q \in QrIds : f[q] # None}
    BY BatchesAreFunctions
  <2>2. \A q \in QrIds : /\ scores'[q] = IF f[q] # None THEN f[q] ELSE scores[q]
                        /\ lastScore'[q] = IF f[q] # None THEN f[q] ELSE lastScore[q]
    BY <1>1, <2>1 DEF Merge, SinkScore
  <2>3. /\ wasRisk \subseteq wasRisk'
        /\ \A q \in QrIds : f[q] # None /\ f[q].value = 100 => RiskMRNs[q] \subseteq wasRisk'
    BY <1>1, <2>1 DEF SinkScore
  <2>4. UNCHANGED <<risksIdx, store, pc, failed>>
    BY <1>1 DEF SinkScore
  <2>5. ASSUME NEW q \in QrIds, lastScore'[q] # None, NEW r \in RiskMRNs[q]
        PROVE  /\ lastScore'[q].value = 100 => r \in wasRisk'
               /\ scores'[q] = None => /\ risksIdx'[r] # None
                                       /\ lastScore'[q].value = 100 => risksIdx'[r] = "yes"
    <3>1. CASE f[q] # None
      BY <2>2, <2>3, <3>1
    <3>2. CASE f[q] = None
      <4>1. lastScore'[q] = lastScore[q] /\ scores'[q] = scores[q]
        BY <2>2, <3>2
      <4>. QED
        BY <2>3, <2>4, <2>5, <4>1 DEF RiskFlow
    <3>. QED
      BY <3>1, <3>2
  <2>6. ASSUME NEW r \in Risks, risksIdx[r] # None
        PROVE  \E q \in QrIds : lastScore'[q] # None /\ r \in RiskMRNs[q]
    <3>1. PICK q \in QrIds : lastScore[q] # None /\ r \in RiskMRNs[q]
      BY <2>6 DEF RiskFlow
    <3>. QED
      BY <2>2, <3>1
  <2>. QED
    BY <2>3, <2>4, <2>5, <2>6 DEF RiskFlow
<1>2. CASE Drain
  <2>1. /\ risksIdx' = consumeRisk(risksIdx, scores)
        /\ UNCHANGED <<lastScore, wasRisk, store, failed>>
        /\ pc # "returned" /\ pc' # "returned"
    BY <1>2 DEF Drain
  <2>2. ASSUME NEW q \in QrIds, lastScore[q] # None, NEW r \in RiskMRNs[q]
        PROVE  /\ lastScore[q].value = 100 => r \in wasRisk
               /\ risksIdx'[r] # None
               /\ lastScore[q].value = 100 => risksIdx'[r] = "yes"
    <3>1. r \in Risks
      BY <1>a
    <3>2. lastScore[q].value = 100 => r \in wasRisk
      BY <2>2 DEF RiskFlow
    <3>3. CASE scores[q] # None
      <4>1. scores[q] = lastScore[q]
        BY <2>2, <3>3 DEF ScoreFlow, ScoreAt
      <4>. QED
        BY <2>1, <3>1, <3>2, <3>3, <4>1, ConsumeRiskTakes
    <3>4. CASE scores[q] = None
      <4>1. risksIdx[r] # None /\ (lastScore[q].value = 100 => risksIdx[r] = "yes")
        BY <2>2, <3>4 DEF RiskFlow
      <4>. QED
        BY <2>1, <3>1, <3>2, <4>1, ConsumeRiskTakes
    <3>. QED
      BY <3>3, <3>4
  <2>3. ASSUME NEW r \in Risks, risksIdx'[r] = "yes" PROVE r \in wasRisk
    <3>1. CASE risksIdx[r] = "yes"
      BY <3>1 DEF RiskFlow
    <3>2. CASE \E q \in QrIds : scores[q] # None /\ r \in RiskMRNs[q] /\ scores[q].value = 100
      <4>1. PICK q \in QrIds : scores[q] # None /\ r \in RiskMRNs[q] /\ scores[q].value = 100
        BY <3>2
      <4>2. lastScore[q] # None /\ scores[q] = lastScore[q]
        BY <4>1 DEF ScoreFlow, ScoreAt
      <4>. QED
        BY <4>1, <4>2 DEF RiskFlow
    <3>. QED
      BY <2>1, <2>3, <3>1, <3>2, ConsumeRiskTakes
  <2>4. ASSUME NEW r \in Risks, risksIdx'[r] # None
        PROVE  \E q \in QrIds : lastScore[q] # None /\ r \in RiskMRNs[q]
    <3>1. CASE risksIdx[r] # None
      BY <3>1 DEF RiskFlow
    <3>2. CASE \E q \in QrIds : scores[q] # None /\ r \in RiskMRNs[q]
      BY <3>2 DEF ScoreFlow
    <3>. QED
      BY <2>1, <2>4, <3>1, <3>2, ConsumeRiskTakes
  <2>5. \A r \in Risks : store.risk[r] = None
    BY <2>1 DEF RiskFlow
  <2>. QED
    BY <2>1, <2>2, <2>3, <2>4, <2>5 DEF RiskFlow
<1>3. CASE StoreRisks
  <2>1. UNCHANGED <<scores, lastScore, risksIdx, wasRisk, failed>> /\ pc' = "returned" /\ pc # "returned"
    BY <1>3 DEF StoreRisks
  <2>2. store'.risk = UpdateRisks(store.risk, Risks)
    BY <1>3, LakeUpdates DEF StoreRisks
  <2>3. ASSUME NEW r \in Risks PROVE store'.risk[r] = risksIdx[r]
    <3>1. store.risk[r] = None
      BY <2>1 DEF RiskFlow
    <3>. QED
      BY <2>2, <3>1 DEF UpdateRisks
  <2>. QED
    BY <2>1, <2>3 DEF RiskFlow
<1>4. CASE SendNothing
  <2>1. UNCHANGED <<scores, lastScore, risksIdx, wasRisk, failed, store>> /\ pc' = "returned" /\ pc # "returned"
    BY <1>4 DEF SendNothing
  <2>2. \A r \in Risks : risksIdx[r] = None /\ store.risk[r] = None
    BY <1>4, <2>1 DEF SendNothing, ToSend, RiskFlow
  <2>. QED
    BY <2>1, <2>2 DEF RiskFlow
<1>5. CASE StoreFails
  <2>1. UNCHANGED <<scores, lastScore, risksIdx, wasRisk>> /\ pc' = "returned"
    BY <1>5 DEF StoreFails
  <2>2. QrIds \cap failed' # {}
    BY <1>5 DEF StoreFails, Control
  <2>. QED
    BY <2>1, <2>2 DEF RiskFlow
<1>6. ASSUME UNCHANGED <<scores, lastScore, risksIdx, wasRisk>>, store'.risk = store.risk,
             pc' = "returned" <=> pc = "returned", pc = "returned" => failed' = failed
      PROVE  RiskFlow'
  BY <1>6 DEF RiskFlow
<1>7. ASSUME NEW f \in Batches(Data, Values), SinkData(f) PROVE RiskFlow'
  BY <1>6, <1>7 DEF SinkData, Control
<1>8. ASSUME NEW chunk \in SUBSET Data, SendChunk(chunk) PROVE RiskFlow'
  <2>1. store'.risk = store.risk
    <3>1. PICK S \in SUBSET chunk : store' = [store EXCEPT !.data = WithResults(store.data, S)]
      BY <1>8, SendChunkTakes
    <3>. QED
      BY <3>1, LakeUpdates
  <2>. QED
    BY <1>6, <1>8, <2>1 DEF SendChunk
<1>9. CASE StoreWindow
  <2>1. store'.risk = store.risk
    BY <1>9, LakeUpdates DEF StoreWindow
  <2>. QED
    BY <1>6, <1>9, <2>1 DEF StoreWindow
<1>10. CASE FlushAndStop \/ FlushReturns \/ DataSent \/ SendScores \/ TimerFires \/ StopTaken \/ UNCHANGED vars
  BY <1>6, <1>10 DEF FlushAndStop, FlushReturns, DataSent, SendScores, TimerFires, StopTaken, vars
<1>. QED
  BY <1>1, <1>2, <1>3, <1>4, <1>5, <1>7, <1>8, <1>9, <1>10 DEF Next, Loop

-----------------------------------------------------------------------------
(* The theorem *)

\* Nothing was sunk at the start.
LEMMA CollectorInit == CollectorAssumption /\ Init => CollectorInv
<1>. SUFFICES ASSUME CollectorAssumption, Init PROVE CollectorInv
  OBVIOUS
<1>1. Types
  BY InitTypes
<1>2. Control /\ DataFlow /\ ScoreFlow
  BY DEF Init, NoData, NoScores, Control, DataFlow, ScoreFlow
<1>3. RiskFlow
  <2>1. \A q \in QrIds : lastScore[q] = None
    BY DEF Init, NoScores
  <2>2. \A r \in Risks : risksIdx[r] = None /\ store.risk[r] = None
    BY DEF Init
  <2>3. pc # "returned" /\ None # "yes"
    BY DEF Init, CollectorAssumption
  <2>. QED
    BY <2>1, <2>2, <2>3 DEF RiskFlow
<1>. QED
  BY <1>1, <1>2, <1>3 DEF CollectorInv

\* A step keeps the invariant.
LEMMA CollectorStep == CollectorAssumption /\ CollectorInv /\ [Next]_vars => CollectorInv'
  BY StepTypes, StepControl, StepDataFlow, StepScoreFlow, StepRiskFlow DEF CollectorInv

\* When the goroutine has returned, the invariant says where everything is.
LEMMA CollectorImplies == CollectorAssumption /\ CollectorInv => CollectorComplete
<1>. SUFFICES ASSUME CollectorAssumption, CollectorInv PROVE CollectorComplete
  OBVIOUS
<1>. USE DEF CollectorInv
<1>1. TypeOK
  BY DEF Types
<1>2. NothingAfterLastBatch
  BY DEF NothingAfterLastBatch, Control
<1>3. ASSUME pc = "returned", NEW d \in Keys(lastData) \ failed PROVE DataStored(d)
  <2>1. d \in Data /\ lastData[d] # None
    BY DEF Keys, Types
  <2>2. results[d] = None /\ batch[d] = None
    BY <1>3, <2>1 DEF Control, NoData
  <2>. QED
    BY <2>1, <2>2 DEF DataFlow, DataAt
<1>4. ASSUME pc = "returned", NEW q \in Keys(KeptScores(lastScore)) \ failed PROVE ScoreStored(q)
  <2>1. q \in QrIds /\ Kept(q) /\ lastScore[q] # None
    BY DEF Keys, KeptScores, Kept
  <2>2. scores[q] = None
    BY <1>4, <2>1 DEF Control, NoScores
  <2>3. windows = <<>>
    BY <1>4, <2>1 DEF Control
  <2>4. ~InWindow(q)
    BY <2>3 DEF InWindow
  <2>. QED
    BY <1>4, <2>1, <2>2, <2>4 DEF ScoreFlow, ScoreAt
<1>5. NothingLeftBehind
  BY <1>3, <1>4 DEF NothingLeftBehind, DataStored, ScoreStored
<1>6. ASSUME pc = "returned", QrIds \cap failed = {}, NEW r \in Risks
      PROVE  /\ (\E q \in Keys(lastScore) : r \in RiskMRNs[q] /\ lastScore[q].value = 100)
                  => store.risk[r] = "yes"
             /\ store.risk[r] = "yes" => r \in wasRisk
             /\ store.risk[r] = None <=> \A q \in Keys(lastScore) : r \notin RiskMRNs[q]
  <2>1. Keys(lastScore) = {q \in QrIds : lastScore[q] # None}
    BY DEF Keys, Types
  <2>2. store.risk[r] = risksIdx[r]
    BY <1>6 DEF RiskFlow
  <2>3. \A q \in QrIds : scores[q] = None
    BY <1>6 DEF Control, NoScores
  <2>. QED
    BY <2>1, <2>2, <2>3 DEF RiskFlow
<1>7. RiskDecision
  BY <1>6 DEF RiskDecision
<1>. QED
  BY <1>1, <1>2, <1>5, <1>7 DEF CollectorComplete

\* The invariant holds in every state.
LEMMA CollectorInvariant == CollectorAssumption => (Spec => []CollectorInv)
<1>. SUFFICES ASSUME CollectorAssumption PROVE Spec => []CollectorInv
  OBVIOUS
<1>1. Init => CollectorInv
  BY CollectorInit
<1>2. CollectorInv /\ [Next]_vars => CollectorInv'
  BY CollectorStep
<1>. QED
  BY <1>1, <1>2, PTL DEF Spec

\* Whatever the drains, ticks and failures were, when FlushAndStop has returned
\* the last result of every code id and the last score of every reported id are
\* stored unless their request failed, the request marked as the last one was
\* the last, and a risk that was detected in any drain is reported as detected
\* (BufferedCollector.run, PolicyServiceCollector.Sink).
THEOREM CollectorKeepsEverything == CollectorAssumption => (Spec => []CollectorComplete)
<1>. SUFFICES ASSUME CollectorAssumption PROVE Spec => []CollectorComplete
  OBVIOUS
<1>1. CollectorInv => CollectorComplete
  BY CollectorImplies
<1>2. Spec => []CollectorInv
  BY CollectorInvariant
<1>. QED
  BY <1>1, <1>2, PTL
=============================================================================
