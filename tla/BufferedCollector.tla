------------------------- MODULE BufferedCollector --------------------------
(***************************************************************************)
(* The collector between the query executor and the policy service of one  *)
(* asset (policy/executor/internal/collector.go).  The executor sinks data *)
(* and scores into two maps that keep the last value of every key; a       *)
(* goroutine drains them every five seconds and when FlushAndStop closes   *)
(* stopChan, sends the data at once and keeps the scores and the detected  *)
(* risks for one request at the very end.  StoreResults (policy/           *)
(* resolver.go) writes to the local data lake first and forwards to the    *)
(* upstream server only when that worked; every error is logged and        *)
(* dropped.                                                                *)
(*                                                                         *)
(* A drained batch has one value per key, so it is a function of the keys; *)
(* the scores kept across drains are a sequence of such functions.         *)
(***************************************************************************)
EXTENDS Naturals, FiniteSets, Sequences

CONSTANTS
  Data,        \* the code ids of the datapoints the executor collects
  Values,      \* the results of datapoints
  None,        \* "no entry" in a map
  Removed,     \* the result that replaces one that is too large
  TooLarge,    \* the results above MAX_DATAPOINT
  Mistyped,    \* the results whose type is not the datapoint's
  Unknown,     \* the code ids that are no datapoint of the collector job
  QrIds,       \* the ids of the scores
  Scores,      \* the scores: [type, value, completion]
  RiskMRNs,    \* the risk factors of a score: [QrIds -> SUBSET Risks]
  Risks,
  keepQrIds,   \* the scores that are a child of another job as well
  MaxSinks,    \* bound: how many batches the executor sinks
  MaxTime,     \* bound: the clock stops here
  MayFail      \* whether the database or the server may fail

CollectorAssumption ==
  /\ None \notin Values \cup Scores /\ None \notin {"no", "yes"}
  /\ Removed \notin Values
  /\ TooLarge \subseteq Values
  /\ Mistyped \subseteq Values
  /\ Unknown \subseteq Data
  /\ Scores \subseteq [type : {"result", "error"}, value : 0 .. 100, completion : 0 .. 100]
  /\ RiskMRNs \in [QrIds -> SUBSET Risks]
  /\ keepQrIds \subseteq QrIds
  /\ MaxSinks \in Nat
  /\ MaxTime \in Nat \ {0}
  /\ MayFail \in BOOLEAN

VARIABLES
  now,         \* the clock
  sinks,       \* how many batches were sunk
  executor,    \* ExecuteResolvedPolicy: "running", "flushing", "returned"
  results,     \* BufferedCollector.results
  scores,      \* BufferedCollector.scores
  pc,          \* the goroutine of run
  done,        \* its local variable done
  batch,       \* its local slice of results
  windows,     \* its local slice of scores, one function per drain
  risksIdx,    \* its local map of detected risks
  store,       \* what the data lake has of the asset
  server,      \* what the upstream server was sent
  lastData,    \* history: the last result sunk per code id
  lastScore,   \* history: the last score sunk per id
  wasRisk,     \* history: the risks some sunk score ever showed
  failed       \* history: the keys whose last request was not stored

buffers == <<results, scores>>
sunk    == <<sinks, lastData, lastScore, wasRisk>>
local   == <<done, batch, windows, risksIdx>>
vars == <<now, executor, buffers, pc, local, store, server, sunk, failed>>

NoData   == [d \in Data |-> None]
NoScores == [q \in QrIds |-> None]
Keys(f)  == {k \in DOMAIN f : f[k] # None}
Merge(f, g) == [k \in DOMAIN f |-> IF g[k] # None THEN g[k] ELSE f[k]]

\* initEmptyScore of SetAssetResolvedPolicy
EmptyScore == [type |-> "unknown", value |-> 0, completion |-> 0,
               modified |-> 1, failure |-> 0]

-----------------------------------------------------------------------------
(* The executor *)

\* BufferedCollector.SinkData of a batch of results
SinkData(f) ==
  /\ executor = "running"
  /\ sinks < MaxSinks
  /\ sinks' = sinks + 1
  /\ results' = Merge(results, f)
  /\ lastData' = Merge(lastData, f)
  /\ failed' = failed \ Keys(f)
  /\ UNCHANGED <<now, executor, scores, pc, local, store, server, lastScore, wasRisk>>

\* BufferedCollector.SinkScore of a batch of scores
SinkScore(f) ==
  /\ executor = "running"
  /\ sinks < MaxSinks
  /\ sinks' = sinks + 1
  /\ scores' = Merge(scores, f)
  /\ lastScore' = Merge(lastScore, f)
  /\ wasRisk' = wasRisk \cup UNION {RiskMRNs[q] : q \in {k \in Keys(f) : f[k].value = 100}}
  /\ UNCHANGED <<now, executor, results, pc, local, store, server, lastData, failed>>

\* FlushAndStop, deferred by ExecuteResolvedPolicy, closes stopChan
FlushAndStop ==
  /\ executor = "running"
  /\ executor' = "flushing"
  /\ UNCHANGED <<now, buffers, pc, local, store, server, sunk, failed>>

\* wg.Wait returns
FlushReturns ==
  /\ executor = "flushing"
  /\ pc = "returned"
  /\ executor' = "returned"
  /\ UNCHANGED <<now, buffers, pc, local, store, server, sunk, failed>>

-----------------------------------------------------------------------------
(* The goroutine of run *)

\* Faulty variant: the last score decides instead of the disjunction
consumeRiskLast(idx, f) ==
  [r \in Risks |->
     LET seen == {q \in Keys(f) : r \in RiskMRNs[q]}
     IN  IF seen = {} THEN idx[r]
         ELSE IF \A q \in seen : f[q].value = 100 THEN "yes" ELSE "no"]

\* consumeRisk: a risk that was detected in one drain stays detected
consumeRisk(idx, f) ==
  [r \in Risks |->
     LET seen == {q \in Keys(f) : r \in RiskMRNs[q]}
     IN  IF \E q \in seen : f[q].value = 100 THEN "yes"
         ELSE IF seen # {} /\ idx[r] = None THEN "no" ELSE idx[r]]

\* a score that only feeds risk factors is not reported as a score
KeptScores(f) == [q \in QrIds |-> IF RiskMRNs[q] = {} \/ q \in keepQrIds THEN f[q] ELSE None]

\* Faulty variant: the map of results is taken away and not made anew
DrainNilMap ==
  /\ pc = "drain"
  /\ batch' = results
  /\ results' = <<>>
  /\ pc' = "data"
  /\ UNCHANGED <<now, executor, scores, done, windows, risksIdx, store, server, sunk, failed>>

\* the part of the loop under the lock
Drain ==
  /\ pc = "drain"
  /\ batch' = results
  /\ results' = NoData
  /\ risksIdx' = consumeRisk(risksIdx, scores)
  /\ windows' = IF Keys(KeptScores(scores)) = {} THEN windows
                                                 ELSE Append(windows, KeptScores(scores))
  /\ scores' = NoScores
  /\ pc' = "data"
  /\ UNCHANGED <<now, executor, done, store, server, sunk, failed>>

\* toResult
toResult(v) == IF v \in TooLarge THEN Removed ELSE v

\* The code ids that UpdateData writes of a chunk: those of the wrong type are
\* skipped, and an unknown one ends the loop over the map
Written(chunk) == {d \in chunk : batch[d] \notin Mistyped \ TooLarge}

\* a map of data with the results of the code ids in S
WithResults(data, S) == [d \in Data |-> IF d \in S THEN toResult(batch[d]) ELSE data[d]]

\* Faulty variant: the request with the last chunk of data is marked as the
\* last one of the asset
UpstreamLast(chunk) ==
  [server EXCEPT !.data = WithResults(@, chunk), !.last = done]

\* what the upstream server has when it is sent a chunk
Upstream(chunk) == [server EXCEPT !.data = WithResults(@, chunk)]

\* StoreResults of one chunk of the drained data.  When UpdateData returns an
\* error, here after any part of the chunk, the chunk is not forwarded; when
\* the server fails, the data lake has it all.  sendFn swallows the error.
SendChunk(chunk) ==
  /\ pc = "data"
  /\ chunk # {}
  /\ chunk \subseteq Keys(batch)
  /\ LET saved(S) == [store EXCEPT !.data = WithResults(@, S)]
     IN  \/ /\ chunk \cap Unknown = {}
            /\ Written(chunk) = chunk
            /\ store' = saved(chunk)
            /\ \/ /\ server' = Upstream(chunk)
                  /\ failed' = failed \ chunk
               \/ MayFail /\ server' = server /\ failed' = failed \cup chunk
         \/ /\ MayFail \/ chunk \cap Unknown # {} \/ Written(chunk) # chunk
            /\ \E S \in SUBSET (Written(chunk) \ Unknown) :
                 /\ MayFail \/ chunk \cap Unknown # {} \/ S = Written(chunk)
                 /\ store' = saved(S)
            /\ server' = server
            /\ failed' = failed \cup chunk
  /\ batch' = [d \in Data |-> IF d \in chunk THEN None ELSE batch[d]]
  /\ UNCHANGED <<now, executor, buffers, pc, done, windows, risksIdx, sunk>>

\* Sink of the data returned
DataSent ==
  /\ pc = "data"
  /\ Keys(batch) = {}
  /\ pc' = IF done THEN "scores" ELSE "select"
  /\ UNCHANGED <<now, executor, buffers, local, store, server, sunk, failed>>

\* updateScore of the data lake: the score that is stored for org when s comes
updateScore(org, s) ==
  LET first   == org.completion = 0 /\ s.type = "result"
      changed == org.value # s.value /\ s.type = "result"
      stored(m, f) == [type |-> s.type, value |-> s.value, completion |-> s.completion,
                       modified |-> m, failure |-> f]
  IN  IF org.value = s.value /\ org.type = s.type /\ org.completion = s.completion
        THEN org
        ELSE IF first
        THEN stored(now, IF s.value = 100 \/ s.completion < 100 THEN 0 ELSE now)
        ELSE IF changed
        THEN stored(now, IF org.value = 100 THEN now ELSE org.failure)
        ELSE stored(org.modified, org.failure)

\* the scores of one window are stored
UpdateScores(sc, f) ==
  [q \in QrIds |-> IF f[q] = None THEN sc[q] ELSE updateScore(sc[q], f[q])]

\* UpdateRisks writes every risk that was consumed, here those in R
UpdateRisks(rs, R) == [r \in Risks |-> IF r \notin R \/ risksIdx[r] = None THEN rs[r] ELSE risksIdx[r]]

ToSend == windows # <<>> \/ \E r \in Risks : risksIdx[r] # None

\* the last Sink: nothing is sent when there are neither scores nor risks
SendNothing ==
  /\ pc = "scores"
  /\ ~ToSend
  /\ pc' = "returned"
  /\ UNCHANGED <<now, executor, buffers, local, store, server, sunk, failed>>

\* the last Sink: one request with all scores and risks
SendScores ==
  /\ pc = "scores"
  /\ ToSend
  /\ pc' = "store"
  /\ UNCHANGED <<now, executor, buffers, local, store, server, sunk, failed>>

\* Faulty variant: the scores that were drained last are stored first
StoreWindowLastFirst ==
  /\ pc = "store"
  /\ windows # <<>>
  /\ store' = [store EXCEPT !.score = UpdateScores(@, windows[Len(windows)])]
  /\ windows' = SubSeq(windows, 1, Len(windows) - 1)
  /\ UNCHANGED <<now, executor, buffers, pc, done, batch, risksIdx, server, sunk, failed>>

\* UpdateScores goes through the scores in the order they were drained
StoreWindow ==
  /\ pc = "store"
  /\ windows # <<>>
  /\ store' = [store EXCEPT !.score = UpdateScores(@, Head(windows))]
  /\ windows' = Tail(windows)
  /\ UNCHANGED <<now, executor, buffers, pc, done, batch, risksIdx, server, sunk, failed>>

\* the risks follow, and the request goes to the server, marked as the last
StoreRisks ==
  /\ pc = "store"
  /\ windows = <<>>
  /\ store' = [store EXCEPT !.risk = UpdateRisks(@, Risks)]
  /\ server' = [server EXCEPT !.last = TRUE]
  /\ pc' = "returned"
  /\ UNCHANGED <<now, executor, buffers, local, sunk, failed>>

\* the last request fails: the data lake breaks off after some of the scores or
\* of the risks, or the server does not take it
StoreFails ==
  /\ MayFail
  /\ pc = "store"
  /\ \/ windows # <<>> /\ \E S \in SUBSET QrIds :
          store' = [store EXCEPT !.score =
                      UpdateScores(@, [q \in QrIds |-> IF q \in S THEN Head(windows)[q] ELSE None])]
     \/ windows = <<>> /\ \E R \in SUBSET Risks : store' = [store EXCEPT !.risk = UpdateRisks(@, R)]
  /\ failed' = failed \cup QrIds
  /\ pc' = "returned"
  /\ UNCHANGED <<now, executor, buffers, local, server, sunk>>

\* the select: the timer fires
TimerFires ==
  /\ pc = "select"
  /\ now' = IF now < MaxTime THEN now + 1 ELSE now
  /\ pc' = "drain"
  /\ UNCHANGED <<executor, buffers, local, store, server, sunk, failed>>

\* Faulty variant: the loop is not told that it goes round for the last time
StopTakenNotDone ==
  /\ pc = "select"
  /\ executor = "flushing"
  /\ pc' = "drain"
  /\ UNCHANGED <<now, executor, buffers, local, store, server, sunk, failed>>

\* the select: stopChan is closed; the loop goes round once more
StopTaken ==
  /\ pc = "select"
  /\ executor = "flushing"
  /\ done' = TRUE
  /\ pc' = "drain"
  /\ UNCHANGED <<now, executor, buffers, batch, windows, risksIdx, store, server, sunk, failed>>

-----------------------------------------------------------------------------
Init ==
  /\ now = 1
  /\ sinks = 0
  /\ executor = "running"
  /\ results = NoData
  /\ scores = NoScores
  /\ pc = "drain"
  /\ done = FALSE
  /\ batch = NoData
  /\ windows = <<>>
  /\ risksIdx = [r \in Risks |-> None]
  /\ store = [data |-> NoData, score |-> [q \in QrIds |-> EmptyScore],
              risk |-> [r \in Risks |-> None]]
  /\ server = [data |-> NoData, last |-> FALSE]
  /\ lastData = NoData
  /\ lastScore = NoScores
  /\ wasRisk = {}
  /\ failed = {}

\* the batches the executor sinks: at least one entry
Batches(keys, values) == {f \in [keys -> values \cup {None}] : Keys(f) # {}}

Loop ==
  \/ Drain
  \/ \E chunk \in SUBSET Data : SendChunk(chunk)
  \/ DataSent
  \/ SendNothing
  \/ SendScores
  \/ StoreWindow
  \/ StoreRisks
  \/ StoreFails

Next ==
  \/ \E f \in Batches(Data, Values) : SinkData(f)
  \/ \E f \in Batches(QrIds, Scores) : SinkScore(f)
  \/ FlushAndStop
  \/ FlushReturns
  \/ Loop
  \/ TimerFires
  \/ StopTaken

Spec == Init /\ [][Next]_vars

-----------------------------------------------------------------------------
(* Properties *)

\* The types of the state.
TypeOK ==
  /\ now \in 1 .. MaxTime
  /\ sinks \in 0 .. MaxSinks
  /\ executor \in {"running", "flushing", "returned"}
  /\ results \in [Data -> Values \cup {None}]
  /\ scores \in [QrIds -> Scores \cup {None}]
  /\ pc \in {"drain", "data", "select", "scores", "store", "returned"}
  /\ done \in BOOLEAN
  /\ batch \in [Data -> Values \cup {None}]
  /\ windows \in Seq([QrIds -> Scores \cup {None}])
  /\ risksIdx \in [Risks -> {None, "no", "yes"}]
  /\ failed \subseteq Data \cup QrIds

\* When the flush returned, everything the executor sank went out: for every
\* code id the last result, and for every reported id the last score, is in
\* the data lake, and the data on the server too, unless the request that
\* carried it failed.  A result sunk right before FlushAndStop, or overwritten
\* between two drains, is no exception (run, SinkData, SinkScore, FlushAndStop).
NothingLeftBehind ==
  pc = "returned" =>
    /\ \A d \in Keys(lastData) \ failed :
         /\ store.data[d] = toResult(lastData[d])
         /\ server.data[d] = store.data[d]
    /\ \A q \in Keys(KeptScores(lastScore)) \ failed :
         /\ store.score[q].type = lastScore[q].type
         /\ store.score[q].value = lastScore[q].value
         /\ store.score[q].completion = lastScore[q].completion

\* The request that is marked as the last one of the asset (IsLastBatch in
\* StoreResultsReq) is the last one the goroutine sends.
NothingAfterLastBatch == server.last => pc = "returned"

\* A risk factor whose score shows it at the end is reported as detected
\* whatever drains happened in between, one that never showed is not, and one
\* whose scores never came is not reported (consumeRisk across drains).
RiskDecision ==
  pc = "returned" /\ QrIds \cap failed = {} =>
    \A r \in Risks :
      /\ (\E q \in Keys(lastScore) : r \in RiskMRNs[q] /\ lastScore[q].value = 100)
           => store.risk[r] = "yes"
      /\ store.risk[r] = "yes" => r \in wasRisk
      /\ store.risk[r] = None <=> \A q \in Keys(lastScore) : r \notin RiskMRNs[q]

\* What the flush promises of data, scores and risks (run, FlushAndStop).
CollectorComplete == TypeOK /\ NothingLeftBehind /\ NothingAfterLastBatch /\ RiskDecision
=============================================================================
